---------------------------- MODULE EntityIndex ----------------------------
(***************************************************************************)
(* The spatial index of the client, client/src/od/engine/entity_index.cpp: *)
(* a growable array of entities, the vertices drawn for them, and a        *)
(* toroidal grid of chunks, each with the colliders of the entities that   *)
(* overlap it.  A query looks only at the chunks its bounds touch.         *)
(*                                                                         *)
(* The build modelled is the default one, OD_BUILD_DEBUG = 0: OD_CHECK is  *)
(* evaluated, OD_DEBUG_CHECK is not.  Coordinates are integers, as         *)
(* odFloat_is_precise_int24 demands of every bounds the code accepts.      *)
(***************************************************************************)
EXTENDS Integers, Sequences, Geometry, Arrays

CONSTANTS
    ChunkWidth,     \* pixels along a chunk, 2^OD_ENTITY_CHUNK_COORD_DISCARD_BITS
    ChunksPerAxis,  \* chunks along an axis, 2^OD_ENTITY_CHUNK_COORD_MASK_BITS
    MaxEntityId,    \* bound on the ids used: the code grows without one
    Bounds,         \* the odBounds colliders take
    Tag,            \* tags; a tagset is a set of them
    Sprite,         \* odEntitySprite values
    NoSprite        \* the zero-initialised sprite

ASSUME ChunkWidthAssumption == ChunkWidth \in Nat \ {0}
ASSUME ChunksPerAxisAssumption == ChunksPerAxis \in Nat \ {0}
ASSUME MaxEntityIdAssumption == MaxEntityId \in Nat
ASSUME NoSpriteAssumption == NoSprite \in Sprite

ASSUME BoundsAssumption == ZeroBounds \in Bounds /\ Bounds \subseteq ValidBounds

EntityId == 0 .. MaxEntityId
ChunkCoord == 0 .. ChunksPerAxis - 1
ChunkId == ChunkCoord \X ChunkCoord
WorldWidth == ChunkWidth * ChunksPerAxis

Collider == [id : EntityId, bounds : Bounds, tagset : SUBSET Tag]
Entity == [collider : Collider, sprite : Sprite]
Vertices == [bounds : Bounds, sprite : Sprite]
Chunk == [colliders : Seq(Collider), entity_ids : Seq(EntityId)]

VARIABLES
    entities,         \* the entities, indexed from 0
    entity_vertices,  \* per entity, the inputs its vertices were computed from
    chunks,           \* the chunk grid
    ok                \* FALSE once an OD_CHECK of a mutating call failed

vars == <<entities, entity_vertices, chunks, ok>>

TypeOK ==
    /\ \E n \in 0 .. MaxEntityId + 1 :
          /\ entities \in [0 .. n - 1 -> Entity]
          /\ entity_vertices \in [0 .. n - 1 -> Vertices]
    /\ chunks \in [ChunkId -> Chunk]
    /\ ok \in BOOLEAN

-----------------------------------------------------------------------------
(***************************************************************************)
(* Chunk geometry.                                                         *)
(***************************************************************************)

\* odChunkCoord_init: discard the low bits, keep the low bits of the rest.
ChunkCoordOf(v) == (v \div ChunkWidth) % ChunksPerAxis

\* Steps of operator++ from a first coordinate until it meets `last`; a range
\* whose ends coincide is walked all the way round.
AxisLength(first, last) == ((last - first - 1) % ChunksPerAxis) + 1

\* ChunkRange with the far ends not rounded up (a mutated form).
ChunkRangeRoundedDown(b) ==
    [x1 |-> ChunkCoordOf(b.x1), y1 |-> ChunkCoordOf(b.y1),
     x2 |-> ChunkCoordOf(b.x2), y2 |-> ChunkCoordOf(b.y2)]

\* The constructor of odEntityChunkIterator: [x1, x2) and [y1, y2), wrapping.
ChunkRange(b) ==
    LET first(v) == ChunkCoordOf(v)
        last(lo, hi) == IF hi - lo >= WorldWidth
                          THEN (ChunkCoordOf(lo) - 1) % ChunksPerAxis
                          ELSE ChunkCoordOf(hi + ChunkWidth - 1)
        empty == b.x1 = b.x2 \/ b.y1 = b.y2
    IN  [x1 |-> first(b.x1), y1 |-> first(b.y1),
         x2 |-> IF empty THEN first(b.x1) ELSE last(b.x1, b.x2),
         y2 |-> IF empty THEN first(b.y1) ELSE last(b.y1, b.y2)]

\* The chunks a range-for over the iterator yields: none when begin() = end().
Visited(b) ==
    LET r == ChunkRange(b)
    IN  {c \in ChunkId : /\ ~(r.x1 = r.x2 /\ r.y1 = r.y2)
                         /\ (c[1] - r.x1) % ChunksPerAxis < AxisLength(r.x1, r.x2)
                         /\ (c[2] - r.y1) % ChunksPerAxis < AxisLength(r.y1, r.y2)}

\* The place of a chunk in the iteration, row by row from the first corner.
VisitRank(b, c) ==
    LET r == ChunkRange(b)
    IN  ((c[2] - r.y1) % ChunksPerAxis) * ChunksPerAxis
            + ((c[1] - r.x1) % ChunksPerAxis)

\* odEntityChunkIterator_contains_chunk_coords, as written: the last coordinate
\* counts as inside, and so does everything when a range is empty or wraps.
ContainsChunk(b, c) ==
    LET r == ChunkRange(b)
        rejects(lo, hi, v) == \/ lo < hi /\ (v < lo \/ v > hi)
                              \/ lo > hi /\ v > lo /\ v < hi
    IN  ~rejects(r.x1, r.x2, c[1]) /\ ~rejects(r.y1, r.y2, c[2])

-----------------------------------------------------------------------------
(***************************************************************************)
(* One chunk: two parallel arrays.                                         *)
(***************************************************************************)

HoldsId(chunk, id) == \E i \in 1 .. Len(chunk.entity_ids) : chunk.entity_ids[i] = id

\* odEntityIndex_chunk_find_collider: the first match in entity_ids.
FindCollider(chunk, id) ==
    CHOOSE i \in 1 .. Len(chunk.entity_ids) :
        /\ chunk.entity_ids[i] = id
        /\ \A j \in 1 .. i - 1 : chunk.entity_ids[j] # id

\* UnsetCollider with the ids popped, not swapped (a mutated form).
UnsetColliderOnly(chunk, id) ==
    [colliders |-> SwapPop(chunk.colliders, FindCollider(chunk, id)),
     entity_ids |-> PopLast(chunk.entity_ids, FindCollider(chunk, id))]

UnsetCollider(chunk, id) ==
    LET i == FindCollider(chunk, id)
    IN  [colliders |-> SwapPop(chunk.colliders, i),
         entity_ids |-> SwapPop(chunk.entity_ids, i)]

\* PutCollider that leaves a collider it finds as it is (a mutated form).
PutColliderIfAbsent(chunk, collider) ==
    IF HoldsId(chunk, collider.id) THEN chunk
    ELSE [colliders |-> Append(chunk.colliders, collider),
          entity_ids |-> Append(chunk.entity_ids, collider.id)]

\* PutCollider that does not index untagged colliders (a mutated form).
PutTaggedCollider(chunk, collider) ==
    IF collider.tagset = {} THEN chunk ELSE PutColliderIfAbsent(chunk, collider)

PutCollider(chunk, collider) ==
    IF HoldsId(chunk, collider.id)
      THEN [chunk EXCEPT !.colliders[FindCollider(chunk, collider.id)] = collider]
      ELSE [colliders |-> Append(chunk.colliders, collider),
            entity_ids |-> Append(chunk.entity_ids, collider.id)]

-----------------------------------------------------------------------------
(***************************************************************************)
(* The mutating operations.                                                *)
(***************************************************************************)
DefaultEntity(id) ==
    [collider |-> [id |-> id, bounds |-> ZeroBounds, tagset |-> {}],
     sprite |-> NoSprite]

\* odEntity_get_sprite and the vertices made of it, by their inputs.
VerticesOf(entity) == [bounds |-> entity.collider.bounds, sprite |-> entity.sprite]

\* odEntityIndex_ensure_count(id + 1), on each of the two arrays.
Grown(id) == DOMAIN entities \cup 0 .. id

\* EnsuredEntities that loses the entities when it grows (a mutated form).
RecreatedEntities(id) == [i \in Grown(id) |-> DefaultEntity(i)]

EnsuredEntities(id) ==
    [i \in Grown(id) |-> IF i \in DOMAIN entities THEN entities[i] ELSE DefaultEntity(i)]

\* EnsuredVertices that forgets to grow (a mutated form).
UngrownVertices(id) == entity_vertices

EnsuredVertices(id) ==
    [i \in Grown(id) |-> IF i \in DOMAIN entities THEN entity_vertices[i]
                         ELSE VerticesOf(DefaultEntity(i))]

\* odEntityIndex_set_collider_impl, the chunks: the first loop clears the entity
\* out of the chunks it visited and does not any more, as ContainsChunk judges it,
\* and returns at the first one that does not hold it; the second puts the
\* collider in the chunks it visits.
Leaving(old, new) == {c \in Visited(old) : ~ContainsChunk(new, c)}

Missing(leaving, id) == {c \in leaving : ~HoldsId(chunks[c], id)}

Cleared(leaving, id) ==
    [c \in ChunkId |-> IF c \in leaving THEN UnsetCollider(chunks[c], id) ELSE chunks[c]]

Placed(grid, visited, collider) ==
    [c \in ChunkId |-> IF c \in visited THEN PutCollider(grid[c], collider) ELSE grid[c]]

ClearedBeforeFailure(leaving, old, id) ==
    {c \in leaving : \A m \in Missing(leaving, id) : VisitRank(old, c) < VisitRank(old, m)}

\* odEntityIndex_set_collider (which keeps the sprite) and odEntityIndex_set: the
\* id's slot is made, the chunks follow the collider, then collider, sprite and
\* vertices are stored.  A failed OD_CHECK leaves the rest undone.
Store(collider, sprite) ==
    LET id == collider.id
        old == EnsuredEntities(id)[id].collider.bounds
        new == [collider |-> collider, sprite |-> sprite]
        leaving == Leaving(old, collider.bounds)
        fails == Missing(leaving, id) # {}
    IN  /\ chunks' =
              IF fails THEN Cleared(ClearedBeforeFailure(leaving, old, id), id)
              ELSE Placed(Cleared(leaving, id), Visited(collider.bounds), collider)
        /\ entities' =
              IF fails THEN EnsuredEntities(id)
              ELSE [EnsuredEntities(id) EXCEPT ![id] = new]
        /\ entity_vertices' =
              IF fails THEN EnsuredVertices(id)
              ELSE [EnsuredVertices(id) EXCEPT ![id] = VerticesOf(new)]
        /\ ok' = (ok /\ ~fails)

SetCollider(collider) == Store(collider, EnsuredEntities(collider.id)[collider.id].sprite)

Set(entity) == Store(entity.collider, entity.sprite)

\* SetSprite without update_vertices_impl (a mutated form).
SetSpriteOnly(id, sprite) ==
    /\ entities' = [EnsuredEntities(id) EXCEPT ![id].sprite = sprite]
    /\ entity_vertices' = EnsuredVertices(id)
    /\ UNCHANGED <<chunks, ok>>

SetSprite(id, sprite) ==
    LET new == [EnsuredEntities(id)[id] EXCEPT !.sprite = sprite]
    IN  /\ entities' = [EnsuredEntities(id) EXCEPT ![id] = new]
        /\ entity_vertices' = [EnsuredVertices(id) EXCEPT ![id] = VerticesOf(new)]
        /\ UNCHANGED <<chunks, ok>>

\* odEntityIndex_get_or_add, which the read bindings also call.
GetOrAdd(id) ==
    /\ entities' = EnsuredEntities(id)
    /\ entity_vertices' = EnsuredVertices(id)
    /\ UNCHANGED <<chunks, ok>>

\* The set_bounds and set_tags bindings: read the collider (or add it), change
\* one field, write it back.
SetBounds(id, bounds) ==
    SetCollider([EnsuredEntities(id)[id].collider EXCEPT !.bounds = bounds])
SetTags(id, tagset) ==
    SetCollider([EnsuredEntities(id)[id].collider EXCEPT !.tagset = tagset])

NoEntities == [i \in {} |-> DefaultEntity(i)]
NoVertices == [i \in {} |-> VerticesOf(DefaultEntity(i))]
EmptyChunk == [colliders |-> << >>, entity_ids |-> << >>]

\* The init and destroy bindings: the index is replaced by a fresh one.
Reset ==
    /\ entities' = NoEntities
    /\ entity_vertices' = NoVertices
    /\ chunks' = [c \in ChunkId |-> EmptyChunk]
    /\ UNCHANGED ok

Init ==
    /\ entities = NoEntities
    /\ entity_vertices = NoVertices
    /\ chunks = [c \in ChunkId |-> EmptyChunk]
    /\ ok = TRUE

Next ==
    \/ \E collider \in Collider : SetCollider(collider)
    \/ \E entity \in Entity : Set(entity)
    \/ \E id \in EntityId, sprite \in Sprite : SetSprite(id, sprite)
    \/ \E id \in EntityId : GetOrAdd(id)
    \/ \E id \in EntityId, bounds \in Bounds : SetBounds(id, bounds)
    \/ \E id \in EntityId, tagset \in SUBSET Tag : SetTags(id, tagset)
    \/ Reset

Spec == Init /\ [][Next]_vars

-----------------------------------------------------------------------------
(***************************************************************************)
(* What every update keeps true.                                           *)
(***************************************************************************)
ChunkParallel(chunk) ==
    /\ Len(chunk.colliders) = Len(chunk.entity_ids)
    /\ \A i \in 1 .. Len(chunk.entity_ids) :
          /\ chunk.colliders[i].id = chunk.entity_ids[i]
          /\ \A j \in 1 .. Len(chunk.entity_ids) :
                chunk.entity_ids[i] = chunk.entity_ids[j] => i = j

\* In every chunk the two arrays agree slot by slot and no id occurs twice, so
\* that swap_pop and the overwrite act on the slot find_collider found: what the
\* debug checks of chunk_set_collider and chunk_unset_collider assert.
ChunkArraysParallel == \A c \in ChunkId : ChunkParallel(chunks[c])

HoldsCollider(chunk, collider) ==
    \E i \in 1 .. Len(chunk.colliders) : chunk.colliders[i] = collider

\* Each entity's current collider is in every chunk the iteration of its bounds
\* visits, after any sequence of moves, retaggings and shrinks to nothing, and
\* although set_collider_impl skips chunks it should clear.
ChunksCoverColliders ==
    \A id \in DOMAIN entities :
        /\ entities[id].collider.id = id
        /\ \A c \in Visited(entities[id].collider.bounds) :
              HoldsCollider(chunks[c], entities[id].collider)

\* No OD_CHECK on the update path fails, so no update stops between clearing the
\* old chunks and storing the collider.
NoCheckFails == ok

\* What add_to_vertex_array draws is each entity where it is and as it is,
\* although three operations update halves of it.
VerticesFollowEntities ==
    entity_vertices = [id \in DOMAIN entities |-> VerticesOf(entities[id])]

\* The index implements the table of EntityStore: chunk bookkeeping can neither
\* delay, split nor lose a write.
Promised == INSTANCE EntityStore WITH store <- entities, Default <- DefaultEntity
ImplementsStore == Promised!StoreSpec

-----------------------------------------------------------------------------
(***************************************************************************)
(* odEntityIndex_destroy, which odEntityIndex_init also is: the entities,  *)
(* the vertices and the colliders of every chunk go, the ids of the chunks *)
(* stay.  The Lua bindings use Reset instead.                              *)
(***************************************************************************)
Destroy ==
    /\ entities' = NoEntities
    /\ entity_vertices' = NoVertices
    /\ chunks' = [c \in ChunkId |-> [chunks[c] EXCEPT !.colliders = << >>]]
    /\ UNCHANGED ok

ReuseSpec == Init /\ [][Next \/ Destroy]_vars
=============================================================================
