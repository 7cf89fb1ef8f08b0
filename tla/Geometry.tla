------------------------------ MODULE Geometry ------------------------------
(***************************************************************************)
(* odBounds, client/src/od/core/bounds.cpp: half-open boxes of whole       *)
(* pixels, as odFloat_is_precise_int24 demands of every bounds.            *)
(***************************************************************************)
EXTENDS Integers

Box(x1, y1, x2, y2) == [x1 |-> x1, y1 |-> y1, x2 |-> x2, y2 |-> y2]
ZeroBounds == Box(0, 0, 0, 0)

\* odBounds_check_valid: no bounds is inside out.
ValidBounds == {b \in [x1 : Int, y1 : Int, x2 : Int, y2 : Int] :
                   b.x1 <= b.x2 /\ b.y1 <= b.y2}

HasArea(b) == b.x1 < b.x2 /\ b.y1 < b.y2

\* odBounds_collides.
Collides(a, b) == a.x2 > b.x1 /\ a.x1 < b.x2 /\ a.y2 > b.y1 /\ a.y1 < b.y2

\* The pixel at a point is inside a box.
Covers(b, p) == b.x1 <= p[1] /\ p[1] < b.x2 /\ b.y1 <= p[2] /\ p[2] < b.y2
=============================================================================
