------------------------- MODULE EntityIndexProofs -------------------------
(***************************************************************************)
(* The entity index, for every chunk size, grid, set of bounds and number  *)
(* of entities.  The argument does not look inside the chunk geometry: it  *)
(* holds for whatever chunks Visited yields and whatever ContainsChunk     *)
(* answers, as long as bounds without area visit no chunk.                 *)
(***************************************************************************)
EXTENDS EntityIndex, ArrayLemmas, TLAPS

USE ChunkWidthAssumption, ChunksPerAxisAssumption, MaxEntityIdAssumption,
    NoSpriteAssumption, BoundsAssumption

-----------------------------------------------------------------------------
(***************************************************************************)
(* One chunk.                                                              *)
(***************************************************************************)

\* chunk_find_collider finds the slot of an id the chunk holds.
LEMMA FindColliderFinds ==
    ASSUME NEW chunk \in Chunk, ChunkParallel(chunk), NEW id, HoldsId(chunk, id)
    PROVE  /\ FindCollider(chunk, id) \in 1 .. Len(chunk.entity_ids)
           /\ chunk.entity_ids[FindCollider(chunk, id)] = id
<1>1. PICK i \in 1 .. Len(chunk.entity_ids) : chunk.entity_ids[i] = id
  BY DEF HoldsId
<1>2. \A j \in 1 .. i - 1 : chunk.entity_ids[j] # id
  BY <1>1 DEF ChunkParallel, Chunk
<1>3. QED
  BY <1>1, <1>2 DEF FindCollider

\* chunk_unset_collider keeps the arrays parallel and every other collider.
LEMMA UnsetColliderKeeps ==
    ASSUME NEW chunk \in Chunk, ChunkParallel(chunk), NEW id, HoldsId(chunk, id)
    PROVE  /\ UnsetCollider(chunk, id) \in Chunk
           /\ ChunkParallel(UnsetCollider(chunk, id))
           /\ \A other \in Collider :
                 other.id # id /\ HoldsCollider(chunk, other)
                   => HoldsCollider(UnsetCollider(chunk, id), other)
<1> DEFINE i == FindCollider(chunk, id)
           n == Len(chunk.entity_ids)
           popped == UnsetCollider(chunk, id)
<1>1. /\ i \in 1 .. n /\ chunk.entity_ids[i] = id
      /\ n \in Nat /\ Len(chunk.colliders) = n
      /\ chunk.colliders \in Seq(Collider) /\ chunk.entity_ids \in Seq(EntityId)
  BY FindColliderFinds DEF ChunkParallel, Chunk
<1> HIDE DEF i
<1>2. popped = [colliders |-> SwapPop(chunk.colliders, i),
                entity_ids |-> SwapPop(chunk.entity_ids, i)]
  BY DEF UnsetCollider, i
<1>3. /\ popped.colliders \in Seq(Collider) /\ popped.entity_ids \in Seq(EntityId)
      /\ Len(popped.colliders) = n - 1 /\ Len(popped.entity_ids) = n - 1
      /\ popped \in Chunk
  <2>1. \A S : \A s \in Seq(S) : i \in 1 .. Len(s) =>
           SwapPop(s, i) \in Seq(S) /\ Len(SwapPop(s, i)) = Len(s) - 1
    BY SwapPopType
  <2>2. /\ SwapPop(chunk.colliders, i) \in Seq(Collider)
        /\ Len(SwapPop(chunk.colliders, i)) = n - 1
        /\ SwapPop(chunk.entity_ids, i) \in Seq(EntityId)
        /\ Len(SwapPop(chunk.entity_ids, i)) = n - 1
    BY <1>1, <2>1
  <2>3. QED
    BY <1>2, <2>2 DEF Chunk
<1>4. \A k \in 1 .. n - 1 :
         /\ popped.colliders[k] = IF k = i THEN chunk.colliders[n] ELSE chunk.colliders[k]
         /\ popped.entity_ids[k] = IF k = i THEN chunk.entity_ids[n] ELSE chunk.entity_ids[k]
  BY <1>1, <1>2 DEF SwapPop
<1> HIDE DEF popped
<1>5. ChunkParallel(popped)
  <2>1. ASSUME NEW k \in 1 .. n - 1
        PROVE  popped.colliders[k].id = popped.entity_ids[k]
    <3>1. \A m \in 1 .. n : chunk.colliders[m].id = chunk.entity_ids[m]
      BY DEF ChunkParallel
    <3>2. CASE k = i
      <4>1. /\ popped.colliders[k] = chunk.colliders[n]
            /\ popped.entity_ids[k] = chunk.entity_ids[n]
        BY <1>4, <3>2
      <4>2. QED
        BY <1>1, <3>1, <4>1
    <3>3. CASE k # i
      <4>1. /\ popped.colliders[k] = chunk.colliders[k]
            /\ popped.entity_ids[k] = chunk.entity_ids[k]
        BY <1>4, <3>3
      <4>2. QED
        BY <1>1, <3>1, <4>1
    <3>4. QED
      BY <3>2, <3>3
  <2>2. ASSUME NEW k \in 1 .. n - 1, NEW j \in 1 .. n - 1,
               popped.entity_ids[k] = popped.entity_ids[j]
        PROVE  k = j
    BY <1>1, <1>4, <2>2, SMTT(30) DEF ChunkParallel
  <2>3. QED
    BY <1>3, <2>1, <2>2 DEF ChunkParallel
<1>6. ASSUME NEW other \in Collider, other.id # id, HoldsCollider(chunk, other)
      PROVE  HoldsCollider(popped, other)
  <2>1. PICK k \in 1 .. n : chunk.colliders[k] = other
    BY <1>1, <1>6 DEF HoldsCollider
  <2>2. k # i
    BY <1>1, <1>6, <2>1 DEF ChunkParallel
  <2>3. CASE k = n
    <3>1. i \in 1 .. n - 1 /\ popped.colliders[i] = other
      BY <1>1, <1>4, <2>1, <2>2, <2>3
    <3>2. QED
      BY <1>3, <3>1 DEF HoldsCollider
  <2>4. CASE k # n
    BY <1>1, <1>3, <1>4, <2>1, <2>2, <2>4 DEF HoldsCollider
  <2>5. QED
    BY <2>3, <2>4
<1>7. QED
  BY <1>3, <1>5, <1>6 DEF popped

\* chunk_set_collider keeps the arrays parallel and every other collider, and the
\* chunk then holds the collider put.
LEMMA PutColliderKeeps ==
    ASSUME NEW chunk \in Chunk, ChunkParallel(chunk), NEW collider \in Collider
    PROVE  /\ PutCollider(chunk, collider) \in Chunk
           /\ ChunkParallel(PutCollider(chunk, collider))
           /\ HoldsCollider(PutCollider(chunk, collider), collider)
           /\ \A other \in Collider :
                 other.id # collider.id /\ HoldsCollider(chunk, other)
                   => HoldsCollider(PutCollider(chunk, collider), other)
<1> DEFINE n == Len(chunk.entity_ids)
           put == PutCollider(chunk, collider)
<1>1. /\ n \in Nat /\ Len(chunk.colliders) = n /\ collider.id \in EntityId
      /\ chunk.colliders \in Seq(Collider) /\ chunk.entity_ids \in Seq(EntityId)
      /\ \A k \in 1 .. n : chunk.colliders[k] \in Collider
  <2>1. chunk.colliders \in Seq(Collider) /\ chunk.entity_ids \in Seq(EntityId)
    BY DEF Chunk
  <2>2. collider.id \in EntityId
    BY DEF Collider
  <2>3. QED
    BY <2>1, <2>2 DEF ChunkParallel
<1>2. CASE HoldsId(chunk, collider.id)
  <2> DEFINE i == FindCollider(chunk, collider.id)
  <2>1. i \in 1 .. n /\ chunk.entity_ids[i] = collider.id
    BY <1>2, FindColliderFinds
  <2>2. put = [colliders |-> [chunk.colliders EXCEPT ![i] = collider],
               entity_ids |-> chunk.entity_ids]
    BY <1>2 DEF PutCollider, Chunk
  <2> HIDE DEF i
  <2>3. /\ put.colliders \in Seq(Collider) /\ Len(put.colliders) = n
        /\ \A k \in 1 .. n :
              put.colliders[k] = IF k = i THEN collider ELSE chunk.colliders[k]
    BY <1>1, <2>1, <2>2, ExceptSeq
  <2>4. put \in Chunk /\ put.entity_ids = chunk.entity_ids
    BY <1>1, <2>2, <2>3 DEF Chunk
  <2>5. ChunkParallel(put)
    BY <1>1, <2>1, <2>3, <2>4 DEF ChunkParallel
  <2>6. HoldsCollider(put, collider)
    BY <1>1, <2>1, <2>3 DEF HoldsCollider
  <2>7. ASSUME NEW other \in Collider, other.id # collider.id, HoldsCollider(chunk, other)
        PROVE  HoldsCollider(put, other)
    <3>1. PICK k \in 1 .. n : chunk.colliders[k] = other
      BY <1>1, <2>7 DEF HoldsCollider
    <3>2. k # i
      BY <1>1, <2>1, <2>7, <3>1 DEF ChunkParallel
    <3>3. QED
      BY <1>1, <2>3, <3>1, <3>2 DEF HoldsCollider
  <2>8. QED
    BY <2>4, <2>5, <2>6, <2>7
<1>3. CASE ~HoldsId(chunk, collider.id)
  <2>1. put = [colliders |-> Append(chunk.colliders, collider),
               entity_ids |-> Append(chunk.entity_ids, collider.id)]
    BY <1>3 DEF PutCollider
  <2>2. /\ put.colliders \in Seq(Collider) /\ put.entity_ids \in Seq(EntityId)
        /\ Len(put.colliders) = n + 1 /\ Len(put.entity_ids) = n + 1
        /\ put.colliders[n + 1] = collider /\ put.entity_ids[n + 1] = collider.id
        /\ \A k \in 1 .. n : /\ put.colliders[k] = chunk.colliders[k]
                             /\ put.entity_ids[k] = chunk.entity_ids[k]
    BY <1>1, <2>1, AppendProperties
  <2>3. put \in Chunk
    BY <2>1, <2>2 DEF Chunk
  <2>4. \A k \in 1 .. n : chunk.entity_ids[k] # collider.id
    BY <1>3 DEF HoldsId
  <2> HIDE DEF put
  <2>5. ChunkParallel(put)
    <3>1. ASSUME NEW k \in 1 .. n + 1
          PROVE  put.colliders[k].id = put.entity_ids[k]
      <4>1. CASE k = n + 1
        BY <2>2, <4>1
      <4>2. CASE k \in 1 .. n
        BY <2>2, <4>2 DEF ChunkParallel
      <4>3. QED
        BY <1>1, <4>1, <4>2
    <3>2. ASSUME NEW k \in 1 .. n + 1, NEW j \in 1 .. n + 1,
                 put.entity_ids[k] = put.entity_ids[j]
          PROVE  k = j
      <4>1. CASE k \in 1 .. n /\ j \in 1 .. n
        BY <2>2, <3>2, <4>1 DEF ChunkParallel
      <4>2. CASE k = n + 1 \/ j = n + 1
        BY <1>1, <2>2, <2>4, <3>2, <4>2, SMTT(30)
      <4>3. QED
        BY <1>1, <4>1, <4>2
    <3>3. QED
      BY <1>1, <2>2, <3>1, <3>2 DEF ChunkParallel
  <2>6. HoldsCollider(put, collider)
    BY <1>1, <2>2 DEF HoldsCollider
  <2>7. \A other \in Collider : HoldsCollider(chunk, other) => HoldsCollider(put, other)
    BY <1>1, <2>2 DEF HoldsCollider
  <2>8. QED
    BY <2>3, <2>5, <2>6, <2>7 DEF put
<1>4. QED
  BY <1>2, <1>3

-----------------------------------------------------------------------------
(***************************************************************************)
(* One update.                                                             *)
(***************************************************************************)
IInv ==
    /\ TypeOK
    /\ ChunkArraysParallel
    /\ ChunksCoverColliders
    /\ NoCheckFails
    /\ VerticesFollowEntities

\* The range of bounds without area is empty, so the entities ensure_count adds
\* need no chunk.
LEMMA ZeroBoundsVisitNothing == Visited(ZeroBounds) = {}
BY DEF Visited, ChunkRange, ZeroBounds, Box

\* A new entity is an entity like any other.
LEMMA DefaultEntityType ==
    ASSUME NEW id \in EntityId
    PROVE  /\ DefaultEntity(id) \in Entity
           /\ DefaultEntity(id).collider.id = id
           /\ DefaultEntity(id).collider.bounds = ZeroBounds
BY DEF DefaultEntity, Entity, Collider

\* An entity's vertices are of the type the vertex array takes.
LEMMA VerticesOfType ==
    ASSUME NEW entity \in Entity
    PROVE  VerticesOf(entity) \in Vertices
BY DEF VerticesOf, Vertices, Entity, Collider

\* ensure_count makes the slot of an id, with no gap below it, and keeps what the
\* other slots hold.
LEMMA EnsuredKeeps ==
    ASSUME TypeOK, VerticesFollowEntities, NEW id \in EntityId
    PROVE  /\ \E n \in 0 .. MaxEntityId + 1 :
                 /\ Grown(id) = 0 .. n - 1
                 /\ EnsuredEntities(id) \in [0 .. n - 1 -> Entity]
           /\ DOMAIN EnsuredEntities(id) = Grown(id)
           /\ id \in Grown(id) /\ Grown(id) \subseteq EntityId
           /\ \A i \in Grown(id) :
                 EnsuredEntities(id)[i] =
                    IF i \in DOMAIN entities THEN entities[i] ELSE DefaultEntity(i)
           /\ EnsuredVertices(id) = [i \in Grown(id) |-> VerticesOf(EnsuredEntities(id)[i])]
<1>1. PICK n \in 0 .. MaxEntityId + 1 : entities \in [0 .. n - 1 -> Entity]
  BY DEF TypeOK
<1>2. MaxEntityId \in Nat /\ id \in 0 .. MaxEntityId
  BY DEF EntityId
<1>3. PICK m \in 0 .. MaxEntityId + 1 : Grown(id) = 0 .. m - 1
  <2>1. CASE id < n
    <3>1. Grown(id) = 0 .. n - 1
      BY <1>1, <1>2, <2>1 DEF Grown
    <3>2. QED
      BY <3>1
  <2>2. CASE id >= n
    <3>1. Grown(id) = 0 .. (id + 1) - 1
      BY <1>1, <1>2, <2>2 DEF Grown
    <3>2. QED
      BY <1>2, <3>1
  <2>3. QED
    BY <1>1, <1>2, <2>1, <2>2
<1>4. id \in Grown(id) /\ Grown(id) \subseteq EntityId
  BY <1>2, <1>3 DEF Grown, EntityId
<1>5. \A i \in Grown(id) :
         EnsuredEntities(id)[i] =
            IF i \in DOMAIN entities THEN entities[i] ELSE DefaultEntity(i)
  BY DEF EnsuredEntities
<1>6. \A i \in Grown(id) : EnsuredEntities(id)[i] \in Entity
  BY <1>1, <1>4, <1>5, DefaultEntityType
<1>7. EnsuredEntities(id) \in [0 .. m - 1 -> Entity]
  BY <1>3, <1>6 DEF EnsuredEntities
<1>8. EnsuredVertices(id) = [i \in Grown(id) |-> VerticesOf(EnsuredEntities(id)[i])]
  BY <1>5 DEF EnsuredVertices, VerticesFollowEntities
<1>9. QED
  BY <1>3, <1>4, <1>5, <1>7, <1>8 DEF EnsuredEntities

\* Whatever a slot holds after an update, it types, and the vertices follow it.
LEMMA EnsuredExceptType ==
    ASSUME TypeOK, VerticesFollowEntities, NEW id \in EntityId, NEW new \in Entity,
           chunks' \in [ChunkId -> Chunk], ok' \in BOOLEAN,
           entities' = [EnsuredEntities(id) EXCEPT ![id] = new],
           entity_vertices' = [EnsuredVertices(id) EXCEPT ![id] = VerticesOf(new)]
    PROVE  TypeOK' /\ VerticesFollowEntities'
<1>1. PICK n \in 0 .. MaxEntityId + 1 :
         Grown(id) = 0 .. n - 1 /\ EnsuredEntities(id) \in [0 .. n - 1 -> Entity]
  BY EnsuredKeeps
<1>2. /\ id \in 0 .. n - 1
      /\ EnsuredVertices(id) = [i \in 0 .. n - 1 |-> VerticesOf(EnsuredEntities(id)[i])]
  BY <1>1, EnsuredKeeps
<1>3. entities' \in [0 .. n - 1 -> Entity]
  BY <1>1, <1>2
<1>4. entity_vertices' = [i \in 0 .. n - 1 |-> VerticesOf(entities'[i])]
  BY <1>1, <1>2
<1>5. entity_vertices' \in [0 .. n - 1 -> Vertices]
  <2>1. \A i \in 0 .. n - 1 : VerticesOf(entities'[i]) \in Vertices
    BY <1>3, VerticesOfType
  <2>2. QED
    BY <1>4, <2>1
<1>6. QED
  BY <1>3, <1>4, <1>5 DEF TypeOK, VerticesFollowEntities

\* odEntityIndex_set_collider and odEntityIndex_set keep the whole invariant, and
\* the check on clearing the old chunks passes: the entity is in every chunk its
\* old bounds visit.
LEMMA StoreKeeps ==
    ASSUME IInv, NEW collider \in Collider, NEW sprite \in Sprite,
           Store(collider, sprite)
    PROVE  /\ IInv'
           /\ UNCHANGED ok
           /\ entities' = [EnsuredEntities(collider.id) EXCEPT
                             ![collider.id] = [collider |-> collider, sprite |-> sprite]]
<1> DEFINE id == collider.id
           old == EnsuredEntities(id)[id].collider.bounds
           new == [collider |-> collider, sprite |-> sprite]
           leaving == Leaving(old, collider.bounds)
           grid == Cleared(leaving, id)
<1>1. id \in EntityId /\ new \in Entity /\ TypeOK /\ VerticesFollowEntities
  BY DEF IInv, Collider, Entity
<1>2. /\ id \in Grown(id) /\ DOMAIN EnsuredEntities(id) = Grown(id)
      /\ \A i \in Grown(id) :
            EnsuredEntities(id)[i] =
               IF i \in DOMAIN entities THEN entities[i] ELSE DefaultEntity(i)
  BY <1>1, EnsuredKeeps
<1>3. /\ \A c \in ChunkId : chunks[c] \in Chunk /\ ChunkParallel(chunks[c])
      /\ ok = TRUE
  BY DEF IInv, TypeOK, ChunkArraysParallel, NoCheckFails
<1>4. \A c \in leaving : c \in ChunkId /\ HoldsId(chunks[c], id)
  <2>1. SUFFICES ASSUME NEW c \in Visited(old)
                 PROVE  c \in ChunkId /\ HoldsId(chunks[c], id)
    BY DEF Leaving
  <2>2. c \in ChunkId
    BY DEF Visited
  <2>3. CASE id \in DOMAIN entities
    <3>1. HoldsCollider(chunks[c], entities[id].collider) /\ entities[id].collider.id = id
      BY <1>2, <2>3 DEF IInv, ChunksCoverColliders
    <3>2. PICK i \in 1 .. Len(chunks[c].colliders) :
             chunks[c].colliders[i] = entities[id].collider
      BY <3>1 DEF HoldsCollider
    <3>3. QED
      BY <1>3, <2>2, <3>1, <3>2 DEF ChunkParallel, HoldsId
  <2>4. CASE id \notin DOMAIN entities
    <3>1. old = ZeroBounds
      BY <1>1, <1>2, <2>4, DefaultEntityType
    <3>2. QED
      BY <3>1, ZeroBoundsVisitNothing
  <2>5. QED
    BY <2>3, <2>4
<1>5. Missing(leaving, id) = {}
  BY <1>4 DEF Missing
<1>6. /\ chunks' = Placed(grid, Visited(collider.bounds), collider)
      /\ entities' = [EnsuredEntities(id) EXCEPT ![id] = new]
      /\ entity_vertices' = [EnsuredVertices(id) EXCEPT ![id] = VerticesOf(new)]
      /\ ok' = ok
  BY <1>3, <1>5 DEF Store
<1> HIDE DEF leaving, grid
<1>7. ASSUME NEW c \in ChunkId
      PROVE  /\ grid[c] \in Chunk /\ ChunkParallel(grid[c])
             /\ \A other \in Collider :
                   other.id # id /\ HoldsCollider(chunks[c], other)
                     => HoldsCollider(grid[c], other)
  <2>1. CASE c \in leaving
    <3>1. grid[c] = UnsetCollider(chunks[c], id)
      BY <2>1 DEF grid, Cleared
    <3>2. QED
      BY <1>3, <1>4, <2>1, <3>1, UnsetColliderKeeps
  <2>2. CASE c \notin leaving
    <3>1. grid[c] = chunks[c]
      BY <2>2 DEF grid, Cleared
    <3>2. QED
      BY <1>3, <3>1
  <2>3. QED
    BY <2>1, <2>2
<1>8. ASSUME NEW c \in ChunkId
      PROVE  /\ chunks'[c] \in Chunk /\ ChunkParallel(chunks'[c])
             /\ c \in Visited(collider.bounds) => HoldsCollider(chunks'[c], collider)
             /\ \A other \in Collider :
                   other.id # id /\ HoldsCollider(chunks[c], other)
                     => HoldsCollider(chunks'[c], other)
  <2>1. CASE c \in Visited(collider.bounds)
    <3>1. chunks'[c] = PutCollider(grid[c], collider)
      BY <1>6, <2>1 DEF Placed
    <3>2. QED
      BY <1>7, <2>1, <3>1, PutColliderKeeps
  <2>2. CASE c \notin Visited(collider.bounds)
    <3>1. chunks'[c] = grid[c]
      BY <1>6, <2>2 DEF Placed
    <3>2. QED
      BY <1>7, <2>2, <3>1
  <2>3. QED
    BY <2>1, <2>2
<1>9. TypeOK' /\ VerticesFollowEntities'
  <2>1. chunks' \in [ChunkId -> Chunk]
    BY <1>6, <1>8 DEF Placed
  <2>2. ok' \in BOOLEAN
    BY <1>3, <1>6
  <2>3. QED
    BY <1>1, <1>6, <2>1, <2>2, EnsuredExceptType
<1>10. ChunkArraysParallel'
  BY <1>8 DEF ChunkArraysParallel
<1>11. ChunksCoverColliders'
  <2>1. SUFFICES ASSUME NEW i \in DOMAIN entities'
                 PROVE  /\ entities'[i].collider.id = i
                        /\ \A c \in Visited(entities'[i].collider.bounds) :
                              HoldsCollider(chunks'[c], entities'[i].collider)
    BY DEF ChunksCoverColliders
  <2>2. i \in Grown(id) /\ i \in EntityId
    BY <1>1, <1>2, <1>6, EnsuredKeeps
  <2>3. \A b : Visited(b) \subseteq ChunkId
    BY DEF Visited
  <2>4. CASE i = id
    <3>1. entities'[i].collider = collider
      BY <1>2, <1>6, <2>4
    <3>2. QED
      BY <1>8, <2>3, <2>4, <3>1
  <2>5. CASE i # id /\ i \in DOMAIN entities
    <3>1. entities'[i] = entities[i]
      BY <1>2, <1>6, <2>2, <2>5
    <3>2. entities[i].collider \in Collider
      BY <1>1, <2>5 DEF TypeOK, Entity
    <3>3. /\ entities[i].collider.id = i
          /\ \A c \in Visited(entities[i].collider.bounds) :
                HoldsCollider(chunks[c], entities[i].collider)
      BY <2>5 DEF IInv, ChunksCoverColliders
    <3>4. QED
      BY <1>8, <2>3, <2>5, <3>1, <3>2, <3>3
  <2>6. CASE i # id /\ i \notin DOMAIN entities
    <3>1. entities'[i] = DefaultEntity(i)
      BY <1>2, <1>6, <2>2, <2>6
    <3>2. QED
      BY <2>2, <3>1, DefaultEntityType, ZeroBoundsVisitNothing
  <2>7. QED
    BY <2>4, <2>5, <2>6
<1>12. QED
  BY <1>3, <1>6, <1>9, <1>10, <1>11 DEF IInv, NoCheckFails

\* odEntityIndex_set_sprite leaves the chunks alone, and rightly: the collider of
\* the entity stays as it was.
LEMMA SetSpriteKeeps ==
    ASSUME IInv, NEW id \in EntityId, NEW sprite \in Sprite, SetSprite(id, sprite)
    PROVE  IInv'
<1> DEFINE new == [EnsuredEntities(id)[id] EXCEPT !.sprite = sprite]
<1>1. /\ TypeOK /\ VerticesFollowEntities
      /\ entities' = [EnsuredEntities(id) EXCEPT ![id] = new]
      /\ entity_vertices' = [EnsuredVertices(id) EXCEPT ![id] = VerticesOf(new)]
      /\ chunks' = chunks /\ ok' = ok
  BY DEF IInv, SetSprite
<1>2. /\ id \in Grown(id) /\ DOMAIN EnsuredEntities(id) = Grown(id)
      /\ Grown(id) \subseteq EntityId
      /\ \A i \in Grown(id) :
            /\ EnsuredEntities(id)[i] =
                  IF i \in DOMAIN entities THEN entities[i] ELSE DefaultEntity(i)
            /\ EnsuredEntities(id)[i] \in Entity
  BY <1>1, EnsuredKeeps
<1>3. new \in Entity /\ new.collider = EnsuredEntities(id)[id].collider
  BY <1>2 DEF Entity
<1> HIDE DEF new
<1>4. \A i \in Grown(id) : entities'[i].collider = EnsuredEntities(id)[i].collider
  BY <1>1, <1>2, <1>3
<1>5. TypeOK' /\ VerticesFollowEntities'
  <2>1. chunks' \in [ChunkId -> Chunk] /\ ok' \in BOOLEAN
    BY <1>1 DEF TypeOK
  <2>2. QED
    BY <1>1, <1>3, <2>1, EnsuredExceptType
<1>6. ChunksCoverColliders'
  <2>1. SUFFICES ASSUME NEW i \in Grown(id)
                 PROVE  /\ entities'[i].collider.id = i
                        /\ \A c \in Visited(entities'[i].collider.bounds) :
                              HoldsCollider(chunks[c], entities'[i].collider)
    BY <1>1, <1>2 DEF ChunksCoverColliders
  <2>2. CASE i \in DOMAIN entities
    BY <1>2, <1>4, <2>2 DEF IInv, ChunksCoverColliders
  <2>3. CASE i \notin DOMAIN entities
    BY <1>2, <1>4, <2>3, DefaultEntityType, ZeroBoundsVisitNothing
  <2>4. QED
    BY <2>2, <2>3
<1>7. QED
  BY <1>1, <1>5, <1>6 DEF IInv, ChunkArraysParallel, NoCheckFails

\* odEntityIndex_get_or_add stores nothing, and the entities it adds have no area.
LEMMA GetOrAddKeeps ==
    ASSUME IInv, NEW id \in EntityId, GetOrAdd(id)
    PROVE  IInv'
<1>1. /\ TypeOK /\ VerticesFollowEntities
      /\ entities' = EnsuredEntities(id) /\ entity_vertices' = EnsuredVertices(id)
      /\ chunks' = chunks /\ ok' = ok
  BY DEF IInv, GetOrAdd
<1>2. PICK n \in 0 .. MaxEntityId + 1 :
         Grown(id) = 0 .. n - 1 /\ EnsuredEntities(id) \in [0 .. n - 1 -> Entity]
  BY <1>1, EnsuredKeeps
<1>3. entity_vertices' = [i \in 0 .. n - 1 |-> VerticesOf(entities'[i])]
  BY <1>1, <1>2, EnsuredKeeps
<1>4. TypeOK' /\ VerticesFollowEntities'
  <2>1. \A i \in 0 .. n - 1 : VerticesOf(entities'[i]) \in Vertices
    BY <1>1, <1>2, VerticesOfType
  <2>2. entities' \in [0 .. n - 1 -> Entity] /\ entity_vertices' \in [0 .. n - 1 -> Vertices]
    BY <1>1, <1>2, <1>3, <2>1
  <2>3. QED
    BY <1>1, <1>3, <2>2 DEF TypeOK, VerticesFollowEntities
<1>5. ChunksCoverColliders'
  <2>1. SUFFICES ASSUME NEW i \in Grown(id)
                 PROVE  /\ entities'[i].collider.id = i
                        /\ \A c \in Visited(entities'[i].collider.bounds) :
                              HoldsCollider(chunks[c], entities'[i].collider)
    BY <1>1, <1>2 DEF ChunksCoverColliders
  <2>2. /\ entities'[i] = IF i \in DOMAIN entities THEN entities[i] ELSE DefaultEntity(i)
        /\ i \in EntityId
    BY <1>1, EnsuredKeeps
  <2>3. CASE i \in DOMAIN entities
    BY <2>2, <2>3 DEF IInv, ChunksCoverColliders
  <2>4. CASE i \notin DOMAIN entities
    BY <2>2, <2>4, DefaultEntityType, ZeroBoundsVisitNothing
  <2>5. QED
    BY <2>3, <2>4
<1>6. QED
  BY <1>1, <1>4, <1>5 DEF IInv, ChunkArraysParallel, NoCheckFails

\* An index just made, at the start or by the init and destroy bindings, satisfies
\* the invariant.
LEMMA FreshIsInv ==
    ASSUME entities = NoEntities, entity_vertices = NoVertices,
           chunks = [c \in ChunkId |-> EmptyChunk], ok = TRUE
    PROVE  IInv
<1>1. DOMAIN entities = {} /\ DOMAIN entity_vertices = {}
  BY DEF NoEntities, NoVertices
<1>2. EmptyChunk \in Chunk /\ ChunkParallel(EmptyChunk)
  BY DEF EmptyChunk, Chunk, ChunkParallel
<1>3. TypeOK
  <2>1. entities \in [0 .. 0 - 1 -> Entity] /\ entity_vertices \in [0 .. 0 - 1 -> Vertices]
    BY DEF NoEntities, NoVertices
  <2>2. QED
    BY <1>2, <2>1 DEF TypeOK
<1>4. ChunkArraysParallel
  BY <1>2 DEF ChunkArraysParallel
<1>5. VerticesFollowEntities
  BY <1>1 DEF VerticesFollowEntities, NoVertices
<1>6. QED
  BY <1>1, <1>3, <1>4, <1>5 DEF IInv, ChunksCoverColliders, NoCheckFails

\* A collider or an entity the bindings make out of what a slot holds is one.
LEMMA EnsuredEntityType ==
    ASSUME TypeOK, VerticesFollowEntities, NEW id \in EntityId
    PROVE  /\ EnsuredEntities(id)[id] \in Entity
           /\ EnsuredEntities(id)[id].collider \in Collider
           /\ EnsuredEntities(id)[id].sprite \in Sprite
BY EnsuredKeeps DEF Entity

-----------------------------------------------------------------------------
(***************************************************************************)
(* Every behaviour.                                                        *)
(***************************************************************************)

\* Every binding keeps the invariant.
LEMMA NextKeeps ==
    ASSUME IInv, [Next]_vars
    PROVE  IInv'
<1>1. TypeOK /\ VerticesFollowEntities
  BY DEF IInv
<1>2. ASSUME NEW collider \in Collider, SetCollider(collider)
      PROVE  IInv'
  <2>1. EnsuredEntities(collider.id)[collider.id].sprite \in Sprite
    BY <1>1, EnsuredEntityType DEF Collider
  <2>2. QED
    BY <1>2, <2>1, StoreKeeps DEF SetCollider
<1>3. ASSUME NEW entity \in Entity, Set(entity)
      PROVE  IInv'
  <2>1. entity.collider \in Collider /\ entity.sprite \in Sprite
    BY DEF Entity
  <2>2. QED
    BY <1>3, <2>1, StoreKeeps DEF Set
<1>4. ASSUME NEW id \in EntityId, NEW sprite \in Sprite, SetSprite(id, sprite)
      PROVE  IInv'
  BY <1>4, SetSpriteKeeps
<1>5. ASSUME NEW id \in EntityId, GetOrAdd(id)
      PROVE  IInv'
  BY <1>5, GetOrAddKeeps
<1>6. ASSUME NEW id \in EntityId, NEW bounds \in Bounds, SetBounds(id, bounds)
      PROVE  IInv'
  <2> DEFINE collider == [EnsuredEntities(id)[id].collider EXCEPT !.bounds = bounds]
  <2>1. collider \in Collider
    BY <1>1, EnsuredEntityType DEF Collider
  <2>2. SetCollider(collider)
    BY <1>6 DEF SetBounds
  <2>3. QED
    BY <1>2, <2>1, <2>2
<1>7. ASSUME NEW id \in EntityId, NEW tagset \in SUBSET Tag, SetTags(id, tagset)
      PROVE  IInv'
  <2> DEFINE collider == [EnsuredEntities(id)[id].collider EXCEPT !.tagset = tagset]
  <2>1. collider \in Collider
    BY <1>1, EnsuredEntityType DEF Collider
  <2>2. SetCollider(collider)
    BY <1>7 DEF SetTags
  <2>3. QED
    BY <1>2, <2>1, <2>2
<1>8. CASE Reset
  <2>1. /\ entities' = NoEntities /\ entity_vertices' = NoVertices
        /\ chunks' = [c \in ChunkId |-> EmptyChunk] /\ ok' = TRUE
    BY <1>8 DEF Reset, IInv, NoCheckFails
  <2>2. (/\ entities = NoEntities /\ entity_vertices = NoVertices
         /\ chunks = [c \in ChunkId |-> EmptyChunk] /\ ok = TRUE)' => IInv'
    BY FreshIsInv, PTL
  <2>3. QED
    BY <2>1, <2>2 DEF NoEntities, NoVertices, DefaultEntity, VerticesOf
<1>9. CASE UNCHANGED vars
  BY <1>9 DEF vars, IInv, TypeOK, ChunkArraysParallel, ChunksCoverColliders,
              NoCheckFails, VerticesFollowEntities
<1>10. QED
  BY <1>2, <1>3, <1>4, <1>5, <1>6, <1>7, <1>8, <1>9 DEF Next

\* The invariant holds in every reachable state of the index.
THEOREM Invariance == Spec => []IInv
<1>1. Init => IInv
  BY FreshIsInv DEF Init
<1>2. QED
  BY <1>1, NextKeeps, PTL DEF Spec

\* Every array of the index stays of its type: an entity and its vertices for each
\* id up to the largest used, chunks of colliders and ids.
THEOREM TypeCorrect == Spec => []TypeOK
BY Invariance, PTL DEF IInv

\* The two arrays of a chunk never disagree, which find_collider relies on.
THEOREM ArraysStayParallel == Spec => []ChunkArraysParallel
BY Invariance, PTL DEF IInv

\* No entity is ever missing from a chunk a search within its bounds looks at.
THEOREM ColliderIsInItsChunks == Spec => []ChunksCoverColliders
BY Invariance, PTL DEF IInv

\* No update of the index ever fails halfway.
THEOREM UpdatesNeverFail == Spec => []NoCheckFails
BY Invariance, PTL DEF IInv

\* The vertices drawn are always those of the entities stored.
THEOREM VerticesStayFresh == Spec => []VerticesFollowEntities
BY Invariance, PTL DEF IInv

-----------------------------------------------------------------------------
(***************************************************************************)
(* The table the index implements.                                         *)
(***************************************************************************)

\* A whole write of a slot is a write of the table.
LEMMA PutIsPut ==
    ASSUME IInv, NEW id \in EntityId, NEW new \in Entity, UNCHANGED ok,
           entities' = [EnsuredEntities(id) EXCEPT ![id] = new]
    PROVE  Promised!Put(id, new)
BY DEF EnsuredEntities, Grown, Promised!Put, Promised!Fresh

\* Every step of the index is a step of the table, or changes nothing it shows.
LEMMA StepRefines ==
    ASSUME IInv, [Next]_vars
    PROVE  [Promised!StoreNext]_<<entities, ok>>
<1>1. TypeOK /\ VerticesFollowEntities
  BY DEF IInv
<1>2. ASSUME NEW collider \in Collider, NEW sprite \in Sprite, Store(collider, sprite)
      PROVE  Promised!StoreNext
  <2> DEFINE new == [collider |-> collider, sprite |-> sprite]
  <2>1. collider.id \in EntityId /\ new \in Entity
    BY DEF Collider, Entity
  <2>2. UNCHANGED ok /\ entities' = [EnsuredEntities(collider.id) EXCEPT ![collider.id] = new]
    BY <1>2, StoreKeeps
  <2> HIDE DEF new
  <2>3. Promised!Put(collider.id, new)
    BY <2>1, <2>2, PutIsPut
  <2>4. QED
    BY <2>1, <2>3 DEF Promised!StoreNext
<1>3. ASSUME NEW collider \in Collider, SetCollider(collider)
      PROVE  Promised!StoreNext
  <2>1. EnsuredEntities(collider.id)[collider.id].sprite \in Sprite
    BY <1>1, EnsuredEntityType DEF Collider
  <2>2. QED
    BY <1>2, <1>3, <2>1 DEF SetCollider
<1>4. ASSUME NEW entity \in Entity, Set(entity)
      PROVE  Promised!StoreNext
  <2>1. entity.collider \in Collider /\ entity.sprite \in Sprite
    BY DEF Entity
  <2>2. QED
    BY <1>2, <1>4, <2>1 DEF Set
<1>5. ASSUME NEW id \in EntityId, NEW sprite \in Sprite, SetSprite(id, sprite)
      PROVE  Promised!StoreNext
  <2> DEFINE new == [EnsuredEntities(id)[id] EXCEPT !.sprite = sprite]
  <2>1. new \in Entity
    BY <1>1, EnsuredEntityType DEF Entity
  <2>2. UNCHANGED ok /\ entities' = [EnsuredEntities(id) EXCEPT ![id] = new]
    BY <1>5 DEF SetSprite
  <2> HIDE DEF new
  <2>3. QED
    BY <2>1, <2>2, PutIsPut DEF Promised!StoreNext
<1>6. ASSUME NEW id \in EntityId, GetOrAdd(id)
      PROVE  Promised!StoreNext
  BY <1>6 DEF GetOrAdd, EnsuredEntities, Grown, Promised!Touch, Promised!Fresh,
              Promised!StoreNext
<1>7. ASSUME NEW id \in EntityId, NEW bounds \in Bounds, SetBounds(id, bounds)
      PROVE  Promised!StoreNext
  <2> DEFINE collider == [EnsuredEntities(id)[id].collider EXCEPT !.bounds = bounds]
  <2>1. collider \in Collider
    BY <1>1, EnsuredEntityType DEF Collider
  <2>2. QED
    BY <1>3, <1>7, <2>1 DEF SetBounds
<1>8. ASSUME NEW id \in EntityId, NEW tagset \in SUBSET Tag, SetTags(id, tagset)
      PROVE  Promised!StoreNext
  <2> DEFINE collider == [EnsuredEntities(id)[id].collider EXCEPT !.tagset = tagset]
  <2>1. collider \in Collider
    BY <1>1, EnsuredEntityType DEF Collider
  <2>2. QED
    BY <1>3, <1>8, <2>1 DEF SetTags
<1>9. CASE Reset
  BY <1>9 DEF Reset, NoEntities, Promised!Clear, Promised!StoreNext
<1>10. CASE UNCHANGED vars
  BY <1>10 DEF vars
<1>11. QED
  BY <1>3, <1>4, <1>5, <1>6, <1>7, <1>8, <1>9, <1>10 DEF Next

\* The index behaves as the table of EntityStore: chunk bookkeeping can neither
\* delay, split nor lose a write.
THEOREM Refinement == Spec => ImplementsStore
<1>1. Init => Promised!StoreInit
  BY DEF Init, NoEntities, Promised!StoreInit
<1>2. QED
  BY <1>1, Invariance, StepRefines, PTL DEF Spec, ImplementsStore, Promised!StoreSpec
=============================================================================
