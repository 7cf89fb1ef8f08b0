--------------------------- MODULE MCEntityIndex ---------------------------
(***************************************************************************)
(* Small instances of a world of 4x4 chunks of 2x2 pixels.  In the first,  *)
(* two entities share chunks; in the second, two entities, in the world    *)
(* and across its edge, are searched for from anywhere; in the third, one  *)
(* entity lies against the edge.                                           *)
(***************************************************************************)
EXTENDS EntitySearch

\* Nothing, two chunks, and the chunk to the right of them: from it the index clears
\* both, to it leaves a stale copy.
SharedBounds == {ZeroBounds, Box(1, 0, 3, 1), Box(4, 0, 6, 1)}
SharedSearches == {Box(0, 0, 4, 2), Box(4, 0, 5, 1)}

\* Nothing, four chunks, and a box that reaches out of the world on the left and wraps
\* onto its last column.
ScatteredBounds == {ZeroBounds, Box(3, 1, 5, 3), Box(-2, 0, 1, 2)}
ScatteredSearches ==
    {Box(x1, y1, x2, y2) :
        x1 \in {0, 3, 4}, x2 \in {1, 4, 8}, y1 \in {0, 1, 5}, y2 \in {2, 4, 8}}
        \cap ValidBounds

\* A search of the whole world, and an entity against its right edge.
EdgeBounds == {ZeroBounds, Box(1, 1, 4, 3), Box(6, 2, 8, 4)}
WideSearches == {Box(0, 0, 8, 8)}
=============================================================================
