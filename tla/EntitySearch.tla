---------------------------- MODULE EntitySearch ----------------------------
(***************************************************************************)
(* odEntityIndex_search over the index of EntityIndex, and what the index  *)
(* must keep true for its answers and its drawing to be right.             *)
(***************************************************************************)
EXTENDS EntityIndex, FiniteSets, SequencesExt

CONSTANT SearchBounds  \* the bounds searches are made with

ASSUME SearchBoundsAssumption == SearchBounds \subseteq ValidBounds

SearchRequest(bounds, tagset, exclude, max_results) ==
    [bounds |-> bounds, tagset |-> tagset, exclude |-> exclude, max_results |-> max_results]

\* odEntitySearch_matches_collider, then the opt_exclude_entity_id test.
Matches(search, collider) ==
    /\ Collides(collider.bounds, search.bounds)
    /\ search.tagset \subseteq collider.tagset
    /\ collider.id \notin search.exclude

\* SeenBefore without the test for the first column and row (a mutated form).
SeenBeforeAnywhere(search, c, collider) ==
    LET left == c[1] * ChunkWidth - 1
        up == c[2] * ChunkWidth - 1
    IN  /\ search.max_results > 1
        /\ \/ left >= collider.bounds.x1 /\ left <= collider.bounds.x2
           \/ up >= collider.bounds.y1 /\ up <= collider.bounds.y2

\* "if seen on previous x or y coord, do not add": not on the first column (row)
\* of the search, and the collider reaches the pixel before the chunk.  The pixel
\* is that of the chunk's wrapped coordinate, whichever copy of the world it is in.
SeenBefore(search, c, collider) ==
    LET r == ChunkRange(search.bounds)
        left == c[1] * ChunkWidth - 1
        up == c[2] * ChunkWidth - 1
    IN  /\ search.max_results > 1
        /\ \/ c[1] # r.x1 /\ left >= collider.bounds.x1 /\ left <= collider.bounds.x2
           \/ c[2] # r.y1 /\ up >= collider.bounds.y1 /\ up <= collider.bounds.y2

ChunkHits(search, c) ==
    LET found == chunks[c].colliders
    IN  Selected(found, {k \in 1 .. Len(found) : /\ Matches(search, found[k])
                                                /\ ~SeenBefore(search, c, found[k])})

\* Visited(b) in the order of the iteration: row by row from the first corner.
VisitOrder(b) ==
    LET r == ChunkRange(b)
        columns == AxisLength(r.x1, r.x2)
        rows == IF Visited(b) = {} THEN 0 ELSE AxisLength(r.y1, r.y2)
    IN  [k \in 1 .. columns * rows |->
            <<(r.x1 + ((k - 1) % columns)) % ChunksPerAxis,
              (r.y1 + ((k - 1) \div columns)) % ChunksPerAxis>>]

\* The colliders whose ids are written to opt_out_results, in order.
Search(search) ==
    LET order == VisitOrder(search.bounds)
        hits == FlattenSeq([k \in 1 .. Len(order) |-> ChunkHits(search, order[k])])
    IN  SubSeq(hits, 1, IF Len(hits) < search.max_results
                          THEN Len(hits) ELSE search.max_results)

\* The `first` and `all` bindings: one result, and as many as there are entities.
First(bounds, tagset, exclude) == Search(SearchRequest(bounds, tagset, exclude, 1))
All(bounds, tagset, exclude) ==
    Search(SearchRequest(bounds, tagset, exclude, Cardinality(DOMAIN entities)))

Ids(hits) == {hit.id : hit \in ToSet(hits)}

\* More results than there can be copies, so that the cap never bites.
Uncapped == (MaxEntityId + 1) * ChunksPerAxis * ChunksPerAxis + 2

-----------------------------------------------------------------------------
(***************************************************************************)
(* Properties.                                                             *)
(***************************************************************************)

InWorld(b) == b.x1 >= 0 /\ b.y1 >= 0 /\ b.x2 <= WorldWidth /\ b.y2 <= WorldWidth

\* The chunk columns between two coordinates, not reduced by the wrap.
Span(lo, hi) == (hi + ChunkWidth - 1) \div ChunkWidth - lo \div ChunkWidth

\* Bounds the iterator walks exactly: with area, and fewer columns and rows than
\* the grid has.
Regular(b) ==
    /\ b.x1 < b.x2 /\ b.y1 < b.y2
    /\ Span(b.x1, b.x2) < ChunksPerAxis /\ Span(b.y1, b.y2) < ChunksPerAxis

Exact(b) == InWorld(b) /\ Regular(b)

MatchingEntities(search) ==
    {id \in DOMAIN entities : Matches(search, entities[id].collider)}

ExactMatches(search) ==
    {id \in MatchingEntities(search) : Exact(entities[id].collider.bounds)}

\* Where the results hold an entity as it now is.
PlacesOf(hits, id) == {i \in DOMAIN hits : hits[i] = entities[id].collider}

\* The results are full, and one of them is a stale copy, or of an entity that
\* reaches out of the world, which they may hold twice.
Crowded(search) ==
    LET hits == Search(search)
    IN  /\ Len(hits) = search.max_results
        /\ \E i \in DOMAIN hits : \A id \in ExactMatches(search) : i \notin PlacesOf(hits, id)

\* Within the world, a search (find_all_in of entity.lua) with the cap of the
\* bindings, the number of entities, or with room to spare, never reports an entity
\* twice as it now is, and misses one that overlaps it and carries its tags only
\* when stale copies have used up the cap; whatever was stored and moved before, the
\* deduplication by neighbouring chunk never drops the only copy the search meets.
SearchReportsEachEntityOnce ==
    \A b \in SearchBounds, tagset \in SUBSET Tag,
       cap \in {Cardinality(DOMAIN entities), Uncapped} :
        LET search == SearchRequest(b, tagset, {}, cap)
            hits == Search(search)
        IN  Exact(b) =>
                \A id \in ExactMatches(search) :
                    \/ Cardinality(PlacesOf(hits, id)) = 1
                    \/ PlacesOf(hits, id) = {} /\ Crowded(search)

\* A search for the first match (find_in), which runs without the
\* deduplication, comes back empty only when nothing matches, in the world or on
\* a copy of it the coordinates wrap from.
FirstFindsSomething ==
    \A b \in SearchBounds, tagset \in SUBSET Tag :
        LET search == SearchRequest(b, tagset, {}, 1)
        IN  /\ Regular(b)
            /\ \E id \in MatchingEntities(search) : Regular(entities[id].collider.bounds)
            => First(b, tagset, {}) # << >>

\* A search reports only entities that overlap it and carry its tags: not where
\* they were, and not what was destroyed.  The TODO list suspects otherwise.
SearchReportsOnlyMatches ==
    \A b \in SearchBounds, tagset \in SUBSET Tag :
        Ids(All(b, tagset, {}))
            \subseteq MatchingEntities(SearchRequest(b, tagset, {}, Uncapped))

\* A search as wide or as high as the world covers its full range, as the comment
\* in the constructor of the iterator has it.
WideSearchFindsEveryEntity ==
    \A b \in SearchBounds :
        LET search == SearchRequest(b, {}, {}, Uncapped)
        IN  b.x2 - b.x1 >= WorldWidth \/ b.y2 - b.y1 >= WorldWidth =>
                MatchingEntities(search) \subseteq Ids(Search(search))

\* An update changes the chunk copies of one entity only: the swap in swap_pop
\* moves the copies of the others and never loses or doubles one.
CopiesOf(c, id) ==
    LET copies == chunks[c].colliders
    IN  Selected(copies, {k \in 1 .. Len(copies) : copies[k].id = id})
UpdatesAreLocal ==
    [][DOMAIN entities \subseteq DOMAIN entities' =>
          \E id \in EntityId : \A other \in EntityId \ {id}, c \in ChunkId :
              CopiesOf(c, other)' = CopiesOf(c, other)]_vars
=============================================================================
