-------------------------- MODULE EntityWorldProofs --------------------------
(***************************************************************************)
(* The entities of a world, for any ids, Lua tables, tags and bounds.      *)
(***************************************************************************)
EXTENDS EntityWorld, ArrayLemmas, FiniteSetTheorems

USE MaxEntityIdAssumption, TagAssumption, BoundsAssumption

-----------------------------------------------------------------------------
(***************************************************************************)
(* What the structures say at any moment of a call.  X are the ids that    *)
(* are indexed.                                                            *)
(***************************************************************************)
\* The array of a tag and the places in it are inverse to each other.
ArrayInverse(w, X, tag) ==
    /\ \A i \in EntityId : w.places[i][tag] # nil =>
          /\ i \in X
          /\ w.places[i][tag] \in 1 .. Len(w.tagged[tag])
          /\ w.tagged[tag][w.places[i][tag]] = w.entities[i]
    /\ \A k \in 1 .. Len(w.tagged[tag]) :
          /\ w.id_of[w.tagged[tag][k]] # nil
          /\ w.places[w.id_of[w.tagged[tag][k]]][tag] = k

Derived(w, X) ==
    /\ w \in World
    /\ Len(w.entities) <= MaxEntityId
    /\ X \subseteq Ids(w)
    /\ \A i, j \in Ids(w) : w.entities[i] = w.entities[j] => i = j
    /\ \A o \in Object : w.id_of[o] # nil => w.id_of[o] \in X /\ w.entities[w.id_of[o]] = o
    /\ \A tag \in Tag : ArrayInverse(w, X, tag)

\* The entity a call is about, while the structures know it.
Known(w, X, id, object) ==
    /\ Derived(w, X)
    /\ object \in Object
    /\ id \in X /\ w.entities[id] = object /\ w.id_of[object] = id

\* From w to v nothing changed that concerns another id.
Others(w, v, id, object) ==
    /\ \A i \in EntityId \ {id} :
          /\ \A tag \in Tag : w.places[i][tag] = nil <=> v.places[i][tag] = nil
          /\ v.index[i] = w.index[i]
          /\ i \in v.free <=> i \in w.free
    /\ \A i \in Ids(w) \ {id} : i \in Ids(v) /\ v.entities[i] = w.entities[i]
    /\ \A o \in Object \ {object} : v.fields[o] = w.fields[o] /\ v.id_of[o] = w.id_of[o]

\* The array of a tag and the places in it stay inverse while neither is written, if the
\* entities in the array keep their ids and the ids their entities.
LEMMA ArraysKept ==
    ASSUME NEW w, NEW X, NEW tag, ArrayInverse(w, X, tag),
           NEW v, NEW Y, v.tagged = w.tagged, v.places = w.places,
           \A i \in EntityId :
              w.places[i][tag] # nil => i \in Y /\ v.entities[i] = w.entities[i],
           \A k \in 1 .. Len(w.tagged[tag]) :
              v.id_of[w.tagged[tag][k]] = w.id_of[w.tagged[tag][k]]
    PROVE  ArrayInverse(v, Y, tag)
<1> DEFINE n == Len(w.tagged[tag])
           Kept(k) == v.id_of[w.tagged[tag][k]] # nil
                      /\ w.places[v.id_of[w.tagged[tag][k]]][tag] = k
           Placed(i) == w.places[i][tag] # nil =>
                           /\ i \in Y
                           /\ w.places[i][tag] \in 1 .. n
                           /\ w.tagged[tag][w.places[i][tag]] = v.entities[i]
<1>1. ASSUME NEW k \in 1 .. n PROVE Kept(k)
  <2>1. /\ w.id_of[w.tagged[tag][k]] # nil
        /\ w.places[w.id_of[w.tagged[tag][k]]][tag] = k
    BY Zenon DEF ArrayInverse
  <2>2. v.id_of[w.tagged[tag][k]] = w.id_of[w.tagged[tag][k]]
    BY Zenon
  <2>3. QED
    BY Zenon, <2>1, <2>2
<1>2. ASSUME NEW i \in EntityId PROVE Placed(i)
  BY ZenonT(30) DEF ArrayInverse
<1>3. (\A i \in EntityId : Placed(i)) /\ (\A k \in 1 .. n : Kept(k)) => ArrayInverse(v, Y, tag)
  BY ZenonT(30) DEF ArrayInverse
<1>4. QED
  BY Zenon, <1>1, <1>2, <1>3

\* They stay inverse while nothing they depend on is written.
LEMMA SameArrays ==
    ASSUME NEW w, NEW v, NEW X, NEW tag, ArrayInverse(w, X, tag),
           v.entities = w.entities, v.id_of = w.id_of,
           v.tagged = w.tagged, v.places = w.places
    PROVE  ArrayInverse(v, X, tag)
BY ZenonT(60) DEF ArrayInverse

\* The parts of a world and their types.
LEMMA WorldType ==
    ASSUME NEW w \in World
    PROVE  /\ w.entities \in Seq(Object) /\ w.fields \in [Object -> Fields]
           /\ w.free \in SUBSET EntityId
           /\ w.id_of \in [Object -> {nil} \cup EntityId]
           /\ w.tagged \in [Tag -> Seq(Object)]
           /\ w.places \in [EntityId -> [Tag -> {nil} \cup EntityId]]
           /\ w.index \in [EntityId -> Indexed]
           /\ Len(w.entities) \in Nat
BY DEF World

\* Other ids stay other ids through several steps.
LEMMA OthersCompose ==
    ASSUME NEW u, NEW v, NEW w, NEW id, NEW object,
           Others(u, v, id, object), Others(v, w, id, object)
    PROVE  Others(u, w, id, object)
BY DEF Others

\* A step that does nothing leaves the other ids alone.
LEMMA OthersSame ==
    ASSUME NEW w, NEW id, NEW object
    PROVE  Others(w, w, id, object)
BY DEF Others

\* An id without a place among the entities of a tag leaves room for one there.
LEMMA RoomForOne ==
    ASSUME NEW w, NEW X, Derived(w, X), NEW tag \in Tag, NEW id \in EntityId,
           w.places[id][tag] = nil
    PROVE  Len(w.tagged[tag]) + 1 \in EntityId
<1> DEFINE a == w.tagged[tag]
           n == Len(a)
           f == [k \in 1 .. n |-> w.id_of[a[k]]]
<1>1. a \in Seq(Object) /\ n \in Nat /\ w.id_of \in [Object -> {nil} \cup EntityId]
  BY WorldType DEF Derived
<1>2. \A k \in 1 .. n :
         a[k] \in Object /\ w.id_of[a[k]] # nil /\ w.places[w.id_of[a[k]]][tag] = k
  BY <1>1 DEF Derived, ArrayInverse
<1> HIDE DEF a, n
<1>3. \A k \in 1 .. n : f[k] \in EntityId \ {id} /\ w.places[f[k]][tag] = k
  <2>1. \A k \in 1 .. n : k # nil
    BY <1>1 DEF nil
  <2>2. QED
    BY <1>1, <1>2, <2>1
<1>4. f \in Injection(1 .. n, EntityId \ {id})
  <2>1. f \in [1 .. n -> EntityId \ {id}]
    BY <1>3
  <2>2. \A j, k \in 1 .. n : f[j] = f[k] => j = k
    BY <1>3
  <2> HIDE DEF f
  <2>3. QED
    BY <2>1, <2>2 DEF Injection, IsInjective
<1>5. IsFiniteSet(EntityId) /\ Cardinality(EntityId) = MaxEntityId
  <2>1. 1 \in Int /\ MaxEntityId \in Int
    OBVIOUS
  <2>2. QED
    BY <2>1, FS_Interval DEF EntityId
<1>6. IsFiniteSet(EntityId \ {id}) /\ Cardinality(EntityId \ {id}) = MaxEntityId - 1
  BY <1>5, FS_RemoveElement
<1>7. Cardinality(1 .. n) = n
  <2>1. Cardinality(1 .. n) = IF 1 > n THEN 0 ELSE n - 1 + 1
    BY <1>1, FS_Interval
  <2>2. QED
    BY <1>1, <2>1
<1>8. Cardinality(1 .. n) <= Cardinality(EntityId \ {id})
  BY <1>4, <1>6, FS_Injection
<1>9. n <= MaxEntityId - 1
  BY <1>6, <1>7, <1>8
<1>10. n + 1 \in EntityId
  BY <1>1, <1>9 DEF EntityId
<1>11. QED
  BY <1>10 DEF n, a

-----------------------------------------------------------------------------
(***************************************************************************)
(* tag and untag, up to their broadcasts.                                  *)
(***************************************************************************)
\* What WithTags changes, field by field.
TagsAdded(w, v, id, object, added) ==
    /\ v = [entities |-> v.entities, fields |-> v.fields, free |-> v.free,
            id_of |-> v.id_of, tagged |-> v.tagged, places |-> v.places, index |-> v.index]
    /\ v.entities = w.entities /\ v.free = w.free /\ v.id_of = w.id_of
    /\ v.tagged = [tag \in Tag |->
         IF tag \in added THEN Append(w.tagged[tag], object) ELSE w.tagged[tag]]
    /\ v.places = [w.places EXCEPT ![id] = [tag \in Tag |->
         IF tag \in added THEN Len(w.tagged[tag]) + 1 ELSE w.places[id][tag]]]
    /\ v.fields = [w.fields EXCEPT ![object].tags = @ \cup added]
    /\ v.index = [w.index EXCEPT ![id].tags = @ \cup (added \cap IndexedTag)]

\* WithTags appends to the arrays of the tags the entity was not in.
LEMMA WithTagsFields ==
    ASSUME NEW w \in World, NEW id, NEW object, NEW tags
    PROVE  TagsAdded(w, WithTags(w, id, object, tags), id, object, NewTags(w, id, tags))
<1>1. w = [entities |-> w.entities, fields |-> w.fields, free |-> w.free,
           id_of |-> w.id_of, tagged |-> w.tagged, places |-> w.places, index |-> w.index]
  BY DEF World
<1> DEFINE v == WithTags(w, id, object, tags)
           added == NewTags(w, id, tags)
           tagged == [tag \in Tag |->
                IF tag \in added THEN Append(w.tagged[tag], object) ELSE w.tagged[tag]]
           places == [tag \in Tag |->
                IF tag \in added THEN Len(w.tagged[tag]) + 1 ELSE w.places[id][tag]]
<1>2. v = [w EXCEPT !.tagged = tagged, !.places[id] = places,
                    !.fields[object].tags = @ \cup added,
                    !.index[id].tags = @ \cup (added \cap IndexedTag)]
  BY DEF WithTags
<1> HIDE DEF v, tagged, places, added
<1>3. /\ v = [entities |-> v.entities, fields |-> v.fields, free |-> v.free,
              id_of |-> v.id_of, tagged |-> v.tagged, places |-> v.places,
              index |-> v.index]
      /\ v.entities = w.entities /\ v.free = w.free /\ v.id_of = w.id_of
      /\ v.tagged = tagged
  BY <1>1, <1>2
<1>4. v.places = [w.places EXCEPT ![id] = places]
  BY <1>1, <1>2
<1>5. v.fields = [w.fields EXCEPT ![object].tags = @ \cup added]
  BY <1>1, <1>2
<1>6. v.index = [w.index EXCEPT ![id].tags = @ \cup (added \cap IndexedTag)]
  BY <1>1, <1>2
<1>7. TagsAdded(w, v, id, object, added)
  BY <1>3, <1>4, <1>5, <1>6 DEF tagged, places, TagsAdded
<1>8. QED
  BY <1>7 DEF v, added

\* Adding an entity to arrays of tags makes a world.
LEMMA TagsAddedType ==
    ASSUME NEW w, NEW X, NEW id \in EntityId, NEW object, Known(w, X, id, object),
           NEW added \in SUBSET Tag, \A tag \in added : w.places[id][tag] = nil,
           NEW v, TagsAdded(w, v, id, object, added)
    PROVE  v \in World
<1>1. w \in World /\ object \in Object
  BY DEF Known, Derived
<1>2. v.tagged \in [Tag -> Seq(Object)]
  <2>1. \A tag \in Tag :
           w.tagged[tag] \in Seq(Object) /\ Append(w.tagged[tag], object) \in Seq(Object)
    BY <1>1, WorldType
  <2>2. v.tagged = [tag \in Tag |->
                    IF tag \in added THEN Append(w.tagged[tag], object) ELSE w.tagged[tag]]
    BY DEF TagsAdded
  <2>3. QED
    BY <2>1, <2>2
<1>3. v.places \in [EntityId -> [Tag -> {nil} \cup EntityId]]
  <2>1. \A tag \in Tag : w.places[id][tag] \in {nil} \cup EntityId
    BY <1>1, WorldType
  <2>2. \A tag \in added : Len(w.tagged[tag]) + 1 \in EntityId
    BY RoomForOne DEF Known
  <2> DEFINE places == [tag \in Tag |->
                 IF tag \in added THEN Len(w.tagged[tag]) + 1 ELSE w.places[id][tag]]
  <2>3. places \in [Tag -> {nil} \cup EntityId]
    BY <2>1, <2>2
  <2>4. v.places = [w.places EXCEPT ![id] = places]
    BY DEF TagsAdded
  <2>5. w.places \in [EntityId -> [Tag -> {nil} \cup EntityId]]
    BY <1>1, WorldType
  <2> HIDE DEF places
  <2>6. QED
    BY <2>3, <2>4, <2>5
<1>4. v.fields \in [Object -> Fields]
  <2>1. w.fields \in [Object -> Fields]
    BY <1>1, WorldType
  <2>2. w.fields[object].tags \cup added \in SUBSET Tag
    BY <1>1, <2>1 DEF Fields
  <2>3. v.fields = [w.fields EXCEPT ![object].tags = @ \cup added]
    BY DEF TagsAdded
  <2>4. QED
    BY <1>1, <2>1, <2>2, <2>3 DEF Fields
<1>5. v.index \in [EntityId -> Indexed]
  <2>1. w.index \in [EntityId -> Indexed]
    BY <1>1, WorldType
  <2>2. w.index[id].tags \cup (added \cap IndexedTag) \in SUBSET IndexedTag
    BY <2>1 DEF Indexed
  <2>3. v.index = [w.index EXCEPT ![id].tags = @ \cup (added \cap IndexedTag)]
    BY DEF TagsAdded
  <2>4. QED
    BY <2>1, <2>2, <2>3 DEF Indexed
<1>6. v = [entities |-> v.entities, fields |-> v.fields, free |-> v.free,
           id_of |-> v.id_of, tagged |-> v.tagged, places |-> v.places, index |-> v.index]
      /\ v.entities = w.entities /\ v.free = w.free /\ v.id_of = w.id_of
  BY DEF TagsAdded
<1>7. v.entities \in Seq(Object) /\ v.free \in SUBSET EntityId
      /\ v.id_of \in [Object -> {nil} \cup EntityId]
  BY <1>1, <1>6, WorldType
<1>8. QED
  BY <1>2, <1>3, <1>4, <1>5, <1>6, <1>7 DEF World

\* What adding tags leaves, as far as later steps of a call look at it.
TagsAddedEffect(w, v, id, object, added) ==
    /\ v.entities = w.entities /\ v.free = w.free /\ v.id_of = w.id_of
    /\ \A tag \in Tag : v.places[id][tag] # nil <=> w.places[id][tag] # nil \/ tag \in added
    /\ v.fields[object] \in Fields
    /\ v.fields[object].tags = w.fields[object].tags \cup added
    /\ v.fields[object].destroyed = w.fields[object].destroyed
    /\ v.fields[object].bounds = w.fields[object].bounds
    /\ v.fields[object].image = w.fields[object].image
    /\ v.index[id].bounds = w.index[id].bounds
    /\ v.index[id].tags = w.index[id].tags \cup (added \cap IndexedTag)

\* The arrays and the places are still inverse after an entity was added.
LEMMA TagsAddedKeeps ==
    ASSUME NEW w, NEW X, NEW id \in EntityId, NEW object, Known(w, X, id, object),
           NEW added \in SUBSET Tag, \A tag \in added : w.places[id][tag] = nil,
           NEW v, TagsAdded(w, v, id, object, added)
    PROVE  /\ Known(v, X, id, object) /\ Others(w, v, id, object)
           /\ TagsAddedEffect(w, v, id, object, added)
<1>1. w \in World /\ v \in World /\ object \in Object
  BY TagsAddedType DEF Known, Derived
<1>2. /\ v.entities = w.entities /\ v.free = w.free /\ v.id_of = w.id_of
      /\ \A o \in Object \ {object} : v.fields[o] = w.fields[o]
      /\ \A i \in EntityId \ {id} : v.index[i] = w.index[i] /\ v.places[i] = w.places[i]
  <2>1. /\ w.fields \in [Object -> Fields] /\ w.index \in [EntityId -> Indexed]
        /\ w.places \in [EntityId -> [Tag -> {nil} \cup EntityId]]
    BY <1>1, WorldType
  <2>2. \A o \in Object \ {object} : v.fields[o] = w.fields[o]
    BY <2>1 DEF TagsAdded
  <2>3. \A i \in EntityId \ {id} : v.index[i] = w.index[i]
    BY <2>1 DEF TagsAdded
  <2>4. \A i \in EntityId \ {id} : v.places[i] = w.places[i]
    BY <2>1 DEF TagsAdded
  <2>5. QED
    BY <2>2, <2>3, <2>4 DEF TagsAdded
<1>3. \A tag \in Tag :
         /\ v.tagged[tag] = IF tag \in added THEN Append(w.tagged[tag], object)
                            ELSE w.tagged[tag]
         /\ v.places[id][tag] = IF tag \in added THEN Len(w.tagged[tag]) + 1
                                ELSE w.places[id][tag]
  <2>1. w.places \in [EntityId -> [Tag -> {nil} \cup EntityId]]
    BY <1>1, WorldType
  <2>2. \A tag \in Tag :
         v.tagged[tag] = IF tag \in added THEN Append(w.tagged[tag], object) ELSE w.tagged[tag]
    BY DEF TagsAdded
  <2>3. v.places[id] = [tag \in Tag |->
            IF tag \in added THEN Len(w.tagged[tag]) + 1 ELSE w.places[id][tag]]
    BY <2>1 DEF TagsAdded
  <2>4. QED
    BY <2>2, <2>3
<1>4. id \in X /\ w.entities[id] = object /\ w.id_of[object] = id /\ id # nil
  BY DEF Known, EntityId, nil
<1>5. ASSUME NEW tag \in Tag
      PROVE  ArrayInverse(v, X, tag)
  <2> DEFINE a == w.tagged[tag]
             n == Len(a)
             b == v.tagged[tag]
  <2>1. a \in Seq(Object) /\ n \in Nat
    BY <1>1, WorldType
  <2>2. /\ \A i \in EntityId : w.places[i][tag] # nil =>
              i \in X /\ w.places[i][tag] \in 1 .. n /\ a[w.places[i][tag]] = w.entities[i]
        /\ \A k \in 1 .. n : w.id_of[a[k]] # nil /\ w.places[w.id_of[a[k]]][tag] = k
    BY DEF Known, Derived, ArrayInverse
  <2>3. CASE tag \in added
    <3>1. b = Append(a, object) /\ v.places[id][tag] = n + 1 /\ w.places[id][tag] = nil
      BY <1>3, <2>3
    <3>2. Len(b) = n + 1 /\ \A k \in 1 .. n + 1 : b[k] = IF k = n + 1 THEN object ELSE a[k]
      BY <1>1, <2>1, <3>1, AppendElements
    <3> HIDE DEF a, n, b
    <3>3. ASSUME NEW i \in EntityId, v.places[i][tag] # nil
          PROVE  /\ i \in X /\ v.places[i][tag] \in 1 .. n + 1
                 /\ b[v.places[i][tag]] = v.entities[i]
      <4>1. CASE i = id
        <5>1. n + 1 \in 1 .. n + 1
          BY <2>1
        <5>2. QED
          BY <1>2, <1>4, <3>1, <3>2, <4>1, <5>1
      <4>2. CASE i # id
        <5>1. v.places[i][tag] = w.places[i][tag]
          BY <1>2, <4>2
        <5>2. /\ i \in X /\ w.places[i][tag] \in 1 .. n /\ a[w.places[i][tag]] = w.entities[i]
          BY <2>2, <3>3, <5>1
        <5>3. w.places[i][tag] \in 1 .. n + 1 /\ w.places[i][tag] # n + 1
          BY <2>1, <5>2
        <5>4. QED
          BY <1>2, <3>2, <5>1, <5>2, <5>3
      <4>3. QED
        BY <4>1, <4>2
    <3>4. ASSUME NEW k \in 1 .. n + 1
          PROVE  v.id_of[b[k]] # nil /\ v.places[v.id_of[b[k]]][tag] = k
      <4>1. CASE k = n + 1
        BY <1>2, <1>4, <3>1, <3>2, <4>1
      <4>2. CASE k # n + 1
        <5>1. k \in 1 .. n /\ b[k] = a[k] /\ k # nil
          BY <2>1, <3>2, <4>2 DEF nil
        <5>2. w.id_of[a[k]] # nil /\ w.places[w.id_of[a[k]]][tag] = k
          BY <2>2, <5>1
        <5>3. w.id_of[a[k]] # id /\ w.id_of[a[k]] \in EntityId
          <6>1. a[k] \in Object
            BY <2>1, <5>1 DEF n
          <6>2. w.id_of[a[k]] \in {nil} \cup EntityId
            BY <1>1, <6>1, WorldType
          <6>3. QED
            BY <3>1, <5>1, <5>2, <6>2
        <5>4. QED
          BY <1>2, <5>1, <5>2, <5>3
      <4>3. QED
        BY <4>1, <4>2
    <3>5. QED
      BY <3>2, <3>3, <3>4 DEF ArrayInverse, b
  <2>4. CASE tag \notin added
    <3>1. b = a /\ \A i \in EntityId : v.places[i][tag] = w.places[i][tag]
      BY <1>2, <1>3, <2>4
    <3>2. \A k \in 1 .. n : w.id_of[a[k]] \in EntityId
      <4>1. \A k \in 1 .. n : a[k] \in Object
        BY <2>1
      <4>2. \A k \in 1 .. n : w.id_of[a[k]] \in {nil} \cup EntityId
        BY <1>1, <4>1, WorldType
      <4>3. QED
        BY <2>2, <4>2
    <3> HIDE DEF a, n, b
    <3>3. v.entities = w.entities /\ v.id_of = w.id_of /\ Len(b) = n
      BY <1>2, <3>1 DEF n
    <3>4. QED
      BY <2>2, <3>1, <3>2, <3>3 DEF ArrayInverse, b
  <2>5. QED
    BY <2>3, <2>4
<1>6. Derived(v, X)
  BY <1>1, <1>2, <1>5 DEF Known, Derived, Ids
<1>7. Others(w, v, id, object)
  BY <1>2 DEF Others, Ids
<1>8. TagsAddedEffect(w, v, id, object, added)
  <2>1. w.fields[object] \in Fields /\ w.index[id] \in Indexed
        /\ v.fields[object] \in Fields
    BY <1>1, WorldType
  <2>2. v.fields[object] = [w.fields[object] EXCEPT !.tags = @ \cup added]
    BY <1>1, WorldType DEF TagsAdded
  <2>3. v.index[id] = [w.index[id] EXCEPT !.tags = @ \cup (added \cap IndexedTag)]
    BY <1>1, WorldType DEF TagsAdded
  <2>4. \A tag \in Tag : v.places[id][tag] # nil <=> w.places[id][tag] # nil \/ tag \in added
    <3>1. \A tag \in Tag : Len(w.tagged[tag]) + 1 # nil
      <4>1. \A tag \in Tag : Len(w.tagged[tag]) \in Nat
        BY <1>1, WorldType
      <4>2. QED
        BY <4>1 DEF nil
    <3>2. QED
      BY <1>3, <3>1
  <2>5. QED
    BY <1>2, <2>1, <2>2, <2>3, <2>4 DEF TagsAddedEffect, Fields, Indexed
<1>9. QED
  BY <1>1, <1>2, <1>4, <1>6, <1>7, <1>8 DEF Known

\* What WithoutTags changes, field by field.
TagsRemoved(w, v, id, object, removed) ==
    /\ v = [entities |-> v.entities, fields |-> v.fields, free |-> v.free,
            id_of |-> v.id_of, tagged |-> v.tagged, places |-> v.places, index |-> v.index]
    /\ v.entities = w.entities /\ v.free = w.free /\ v.id_of = w.id_of
    /\ v.tagged = [tag \in Tag |->
         IF tag \in removed THEN SwapPop(w.tagged[tag], w.places[id][tag]) ELSE w.tagged[tag]]
    /\ v.places = Replaced(w, id, removed)
    /\ v.fields = [w.fields EXCEPT ![object].tags = @ \ removed]
    /\ v.index = [w.index EXCEPT ![id].tags = @ \ removed]

\* WithoutTags removes from the arrays of the tags the entity was in.
LEMMA WithoutTagsFields ==
    ASSUME NEW w \in World, NEW id, NEW object, NEW tags
    PROVE  TagsRemoved(w, WithoutTags(w, id, object, tags), id, object, OldTags(w, id, tags))
<1>1. w = [entities |-> w.entities, fields |-> w.fields, free |-> w.free,
           id_of |-> w.id_of, tagged |-> w.tagged, places |-> w.places, index |-> w.index]
  BY DEF World
<1> DEFINE v == WithoutTags(w, id, object, tags)
           removed == OldTags(w, id, tags)
           tagged == [tag \in Tag |->
                IF tag \in removed THEN SwapPop(w.tagged[tag], w.places[id][tag])
                ELSE w.tagged[tag]]
           places == Replaced(w, id, removed)
<1>2. v = [w EXCEPT !.tagged = tagged, !.places = places,
                    !.fields[object].tags = @ \ removed,
                    !.index[id].tags = @ \ removed]
  BY DEF WithoutTags
<1> HIDE DEF v, tagged, places, removed
<1>3. /\ v = [entities |-> v.entities, fields |-> v.fields, free |-> v.free,
              id_of |-> v.id_of, tagged |-> v.tagged, places |-> v.places,
              index |-> v.index]
      /\ v.entities = w.entities /\ v.free = w.free /\ v.id_of = w.id_of
      /\ v.tagged = tagged /\ v.places = places
  BY <1>1, <1>2
<1>4. v.fields = [w.fields EXCEPT ![object].tags = @ \ removed]
  BY <1>1, <1>2
<1>5. v.index = [w.index EXCEPT ![id].tags = @ \ removed]
  BY <1>1, <1>2
<1>6. TagsRemoved(w, v, id, object, removed)
  BY <1>3, <1>4, <1>5 DEF tagged, places, TagsRemoved
<1>7. QED
  BY <1>6 DEF v, removed

\* Where the entities of a tag stand after one of them is untagged.
PlacesReplaced(w, v, X, id, removed, tag) ==
    /\ ArrayInverse(v, X, tag)
    /\ v.tagged[tag] \in Seq(Object)
    /\ \A i \in EntityId : v.places[i][tag] \in {nil} \cup EntityId
    /\ \A i \in EntityId \ {id} : w.places[i][tag] = nil <=> v.places[i][tag] = nil
    /\ v.places[id][tag] # nil <=> w.places[id][tag] # nil /\ tag \notin removed

\* The last entity of an array takes the place of the one removed.
LEMMA ReplacedPlaces ==
    ASSUME NEW w, NEW X, NEW id \in EntityId, NEW object, Known(w, X, id, object),
           NEW removed \in SUBSET Tag, \A tag \in removed : w.places[id][tag] # nil,
           NEW v, TagsRemoved(w, v, id, object, removed), NEW tag \in Tag
    PROVE  PlacesReplaced(w, v, X, id, removed, tag)
<1> DEFINE a == w.tagged[tag]
           n == Len(a)
           b == v.tagged[tag]
           p == w.places[id][tag]
           m == w.id_of[a[n]]
<1>0. v.entities = w.entities /\ v.id_of = w.id_of
  BY DEF TagsRemoved
<1>1. w \in World /\ object \in Object /\ id \in X /\ w.entities[id] = object
      /\ w.id_of[object] = id /\ X \subseteq Ids(w)
      /\ \A i, j \in Ids(w) : w.entities[i] = w.entities[j] => i = j
      /\ \A o \in Object : w.id_of[o] # nil => w.id_of[o] \in X /\ w.entities[w.id_of[o]] = o
      /\ v.entities = w.entities /\ v.id_of = w.id_of
  BY DEF Known, Derived, TagsRemoved
<1>2. a \in Seq(Object) /\ n \in Nat /\ \A k \in 1 .. n : a[k] \in Object
  BY <1>1, WorldType
<1>3. /\ \A i \in EntityId : w.places[i][tag] # nil =>
            i \in X /\ w.places[i][tag] \in 1 .. n /\ a[w.places[i][tag]] = w.entities[i]
      /\ \A k \in 1 .. n : w.id_of[a[k]] # nil /\ w.places[w.id_of[a[k]]][tag] = k
      /\ \A i \in EntityId : w.places[i][tag] \in {nil} \cup EntityId
  BY <1>1, WorldType DEF Known, Derived, ArrayInverse
<1>4. \A k \in 1 .. n : /\ w.id_of[a[k]] \in EntityId /\ w.id_of[a[k]] \in X
                        /\ w.entities[w.id_of[a[k]]] = a[k]
  BY <1>1, <1>2, <1>3, WorldType
<1>5. \A i, j \in EntityId :
         w.places[i][tag] # nil /\ w.places[j][tag] = w.places[i][tag] => i = j
  BY <1>1, <1>3
<1>6. CASE tag \notin removed
  <2>1. b = a /\ \A i \in EntityId : v.places[i][tag] = w.places[i][tag]
    BY <1>6 DEF TagsRemoved, Replaced
  <2> HIDE DEF a, n, b, p, m
  <2>2. Len(b) = n
    BY <2>1 DEF n
  <2>3. ArrayInverse(v, X, tag)
    BY <1>0, <1>3, <1>4, <2>1, <2>2 DEF ArrayInverse, b
  <2>4. QED
    BY <1>2, <1>3, <1>6, <2>1, <2>3 DEF b, PlacesReplaced
<1>7. CASE tag \in removed
  <2>1. b = SwapPop(a, p) /\ p \in 1 .. n /\ p # nil
    BY <1>3, <1>7 DEF TagsRemoved
  <2>2. b \in Seq(Object) /\ Len(b) = n - 1
    BY <1>2, <2>1, SwapPopType
  <2>3. \A k \in 1 .. n - 1 : b[k] = IF k = p THEN a[n] ELSE a[k]
    BY <1>2, <2>1 DEF SwapPop
  <2>4. n \in 1 .. n /\ m \in EntityId /\ w.places[m][tag] = n /\ w.entities[m] = a[n]
    <3> HIDE DEF n, a
    <3>1. n \in 1 .. n
      BY <1>2, <2>1
    <3>2. QED
      BY <1>3, <1>4, <3>1
  <2>5. \A i \in EntityId : v.places[i][tag] = IF i = id THEN nil
                                               ELSE IF i = m THEN p ELSE w.places[i][tag]
    BY <1>7 DEF TagsRemoved, Replaced
  <2> HIDE DEF a, n, b, p, m
  <2>6. w.places[id][tag] = p
    BY DEF p
  <2>7. ASSUME NEW i \in EntityId, v.places[i][tag] # nil
        PROVE  i \in X /\ v.places[i][tag] \in 1 .. n - 1 /\ b[v.places[i][tag]] = v.entities[i]
    <3>1. i # id
      BY <2>5, <2>7
    <3>2. CASE i = m
      <4>1. v.places[i][tag] = p
        BY <2>5, <3>1, <3>2
      <4>2. p # n
        BY <1>5, <2>1, <2>4, <2>6, <3>1, <3>2
      <4>3. p \in 1 .. n - 1
        BY <1>2, <2>1, <4>2
      <4>4. b[p] = a[n]
        BY <2>3, <4>3
      <4>5. w.places[m][tag] # nil
        BY <2>4, <1>2 DEF nil
      <4>6. i \in X
        BY <1>3, <2>4, <3>2, <4>5
      <4>7. QED
        BY <1>0, <2>4, <3>2, <4>1, <4>3, <4>4, <4>6
    <3>3. CASE i # m
      <4>1. v.places[i][tag] = w.places[i][tag]
        BY <2>5, <3>1, <3>3
      <4>2. i \in X /\ w.places[i][tag] \in 1 .. n /\ a[w.places[i][tag]] = w.entities[i]
        BY <1>3, <2>7, <4>1
      <4>3. w.places[i][tag] # n /\ w.places[i][tag] # p
        BY <1>5, <2>4, <2>6, <2>7, <3>1, <3>3, <4>1
      <4>4. w.places[i][tag] \in 1 .. n - 1
        BY <1>2, <4>2, <4>3
      <4>5. QED
        BY <1>0, <2>3, <4>1, <4>2, <4>3, <4>4
    <3>4. QED
      BY <3>2, <3>3
  <2>8. ASSUME NEW k \in 1 .. n - 1
        PROVE  v.id_of[b[k]] # nil /\ v.places[v.id_of[b[k]]][tag] = k
    <3>1. k \in 1 .. n /\ k # n
      BY <1>2
    <3>2. CASE k = p
      <4>1. b[k] = a[n] /\ v.id_of[b[k]] = m
        BY <1>0, <2>3, <3>2 DEF m
      <4>2. m # id
        BY <2>4, <2>6, <3>1, <3>2
      <4>3. m # nil
        BY <2>4 DEF EntityId, nil
      <4>4. QED
        BY <2>4, <2>5, <3>2, <4>1, <4>2, <4>3
    <3>3. CASE k # p
      <4>1. b[k] = a[k] /\ v.id_of[b[k]] = w.id_of[a[k]]
        BY <1>0, <2>3, <3>3
      <4>2. /\ w.id_of[a[k]] # nil /\ w.id_of[a[k]] \in EntityId
            /\ w.places[w.id_of[a[k]]][tag] = k
        BY <1>3, <1>4, <3>1
      <4>3. w.id_of[a[k]] # id /\ w.id_of[a[k]] # m
        BY <2>4, <2>6, <3>1, <3>3, <4>2
      <4>4. QED
        BY <2>5, <4>1, <4>2, <4>3
    <3>4. QED
      BY <3>2, <3>3
  <2>9. ArrayInverse(v, X, tag)
    BY <2>2, <2>7, <2>8 DEF ArrayInverse, b
  <2>10. p \in EntityId /\ m \in EntityId /\ w.places[m][tag] # nil
    BY <1>2, <1>3, <2>1, <2>4, <2>6 DEF nil
  <2>11. QED
    BY <1>3, <1>7, <2>1, <2>2, <2>5, <2>9, <2>10 DEF b, PlacesReplaced
<1>8. QED
  BY <1>6, <1>7

\* What removing tags leaves, as far as later steps of a call look at it.
TagsRemovedEffect(w, v, id, object, removed) ==
    /\ v.entities = w.entities /\ v.free = w.free /\ v.id_of = w.id_of
    /\ \A tag \in Tag :
          v.places[id][tag] # nil <=> w.places[id][tag] # nil /\ tag \notin removed
    /\ v.fields[object] \in Fields
    /\ v.fields[object].tags = w.fields[object].tags \ removed
    /\ v.fields[object].destroyed = w.fields[object].destroyed
    /\ v.fields[object].bounds = w.fields[object].bounds
    /\ v.fields[object].image = w.fields[object].image
    /\ v.index[id].bounds = w.index[id].bounds
    /\ v.index[id].tags = w.index[id].tags \ removed

\* Removing an entity from arrays of tags makes a world.
LEMMA TagsRemovedType ==
    ASSUME NEW w, NEW X, NEW id \in EntityId, NEW object, Known(w, X, id, object),
           NEW removed \in SUBSET Tag, \A tag \in removed : w.places[id][tag] # nil,
           NEW v, TagsRemoved(w, v, id, object, removed)
    PROVE  v \in World
<1>1. w \in World /\ object \in Object
  BY DEF Known, Derived
<1>2. \A tag \in Tag : PlacesReplaced(w, v, X, id, removed, tag)
  BY ReplacedPlaces
<1>3. v.tagged \in [Tag -> Seq(Object)]
  <2>1. \A tag \in Tag : v.tagged[tag] \in Seq(Object)
    BY <1>2 DEF PlacesReplaced
  <2> DEFINE a(tag) == IF tag \in removed THEN SwapPop(w.tagged[tag], w.places[id][tag])
                       ELSE w.tagged[tag]
  <2>2. v.tagged = [tag \in Tag |-> a(tag)]
    BY DEF TagsRemoved
  <2> HIDE DEF a
  <2>3. QED
    BY <2>1, <2>2
<1>4. v.places \in [EntityId -> [Tag -> {nil} \cup EntityId]]
  <2>1. \A tag \in Tag : \A i \in EntityId : v.places[i][tag] \in {nil} \cup EntityId
    BY <1>2 DEF PlacesReplaced
  <2> DEFINE moved(tag) == w.id_of[w.tagged[tag][Len(w.tagged[tag])]]
             g(i, tag) == IF tag \notin removed THEN w.places[i][tag]
                          ELSE IF i = id THEN nil
                          ELSE IF i = moved(tag) THEN w.places[id][tag]
                          ELSE w.places[i][tag]
  <2>2. v.places = [i \in EntityId |-> [tag \in Tag |-> g(i, tag)]]
    BY DEF TagsRemoved, Replaced
  <2> HIDE DEF g
  <2>3. \A i \in EntityId, tag \in Tag : g(i, tag) \in {nil} \cup EntityId
    BY <2>1, <2>2
  <2>4. QED
    BY <2>2, <2>3
<1>5. v.fields \in [Object -> Fields]
  <2>1. w.fields \in [Object -> Fields]
    BY <1>1, WorldType
  <2>2. w.fields[object].tags \ removed \in SUBSET Tag
    BY <1>1, <2>1 DEF Fields
  <2>3. v.fields = [w.fields EXCEPT ![object].tags = @ \ removed]
    BY DEF TagsRemoved
  <2>4. QED
    BY <1>1, <2>1, <2>2, <2>3 DEF Fields
<1>6. v.index \in [EntityId -> Indexed]
  <2>1. w.index \in [EntityId -> Indexed]
    BY <1>1, WorldType
  <2>2. w.index[id].tags \ removed \in SUBSET IndexedTag
    BY <2>1 DEF Indexed
  <2>3. v.index = [w.index EXCEPT ![id].tags = @ \ removed]
    BY DEF TagsRemoved
  <2>4. QED
    BY <2>1, <2>2, <2>3 DEF Indexed
<1>7. v = [entities |-> v.entities, fields |-> v.fields, free |-> v.free,
           id_of |-> v.id_of, tagged |-> v.tagged, places |-> v.places, index |-> v.index]
      /\ v.entities = w.entities /\ v.free = w.free /\ v.id_of = w.id_of
  BY DEF TagsRemoved
<1>8. v.entities \in Seq(Object) /\ v.free \in SUBSET EntityId
      /\ v.id_of \in [Object -> {nil} \cup EntityId]
  BY <1>1, <1>7, WorldType
<1>9. QED
  BY <1>3, <1>4, <1>5, <1>6, <1>7, <1>8 DEF World

\* The arrays and the places are still inverse after an entity was removed.
LEMMA TagsRemovedKeeps ==
    ASSUME NEW w, NEW X, NEW id \in EntityId, NEW object, Known(w, X, id, object),
           NEW removed \in SUBSET Tag, \A tag \in removed : w.places[id][tag] # nil,
           NEW v, TagsRemoved(w, v, id, object, removed)
    PROVE  /\ Known(v, X, id, object) /\ Others(w, v, id, object)
           /\ TagsRemovedEffect(w, v, id, object, removed)
<1>1. w \in World /\ v \in World /\ object \in Object
  BY TagsRemovedType DEF Known, Derived
<1>2. /\ v.entities = w.entities /\ v.free = w.free /\ v.id_of = w.id_of
      /\ \A o \in Object \ {object} : v.fields[o] = w.fields[o]
      /\ \A i \in EntityId \ {id} : v.index[i] = w.index[i]
  <2>1. /\ w.fields \in [Object -> Fields] /\ w.index \in [EntityId -> Indexed]
    BY <1>1, WorldType
  <2>2. \A o \in Object \ {object} : v.fields[o] = w.fields[o]
    BY <2>1 DEF TagsRemoved
  <2>3. \A i \in EntityId \ {id} : v.index[i] = w.index[i]
    BY <2>1 DEF TagsRemoved
  <2>4. QED
    BY <2>2, <2>3 DEF TagsRemoved
<1>3. \A tag \in Tag : PlacesReplaced(w, v, X, id, removed, tag)
  BY ReplacedPlaces
<1>4. \A tag \in Tag :
        /\ ArrayInverse(v, X, tag)
        /\ \A i \in EntityId \ {id} : w.places[i][tag] = nil <=> v.places[i][tag] = nil
        /\ v.places[id][tag] # nil <=> w.places[id][tag] # nil /\ tag \notin removed
  BY <1>3 DEF PlacesReplaced
<1>5. id \in X /\ w.entities[id] = object /\ w.id_of[object] = id
  BY DEF Known
<1>6. Derived(v, X)
  BY <1>1, <1>2, <1>4 DEF Known, Derived, Ids
<1>7. Others(w, v, id, object)
  BY <1>2, <1>4 DEF Others, Ids
<1>8. TagsRemovedEffect(w, v, id, object, removed)
  <2>1. w.fields[object] \in Fields /\ w.index[id] \in Indexed
        /\ v.fields[object] \in Fields
    BY <1>1, WorldType
  <2>2. v.fields[object] = [w.fields[object] EXCEPT !.tags = @ \ removed]
    BY <1>1, WorldType DEF TagsRemoved
  <2>3. v.index[id] = [w.index[id] EXCEPT !.tags = @ \ removed]
    BY <1>1, WorldType DEF TagsRemoved
  <2>4. QED
    BY <1>2, <1>4, <2>1, <2>2, <2>3 DEF TagsRemovedEffect, Fields, Indexed
<1>9. QED
  BY <1>1, <1>2, <1>5, <1>6, <1>7, <1>8 DEF Known

-----------------------------------------------------------------------------
(***************************************************************************)
(* index before the tags and after them.                                   *)
(***************************************************************************)
\* An entity index may be called for: one the structures know, or one of which
\* they hold nothing under its id.
Indexable(w, X, id, object) ==
    /\ Derived(w, X)
    /\ object \in Object /\ id \in EntityId
    /\ \/ id \in X /\ w.entities[id] = object /\ w.id_of[object] = id
       \/ /\ id <= Len(w.entities) + 1
          /\ w.id_of[object] = nil
          /\ \A tag \in Tag : w.places[id][tag] = nil
          /\ \A o \in Object : w.id_of[o] # id
          /\ \A i \in Ids(w) : w.entities[i] = object => i = id

RegisteredEffect(w, v, id, object) ==
    /\ v.fields = w.fields /\ v.tagged = w.tagged
    /\ v.places = w.places /\ v.index = w.index
    /\ v.entities = IF id <= Len(w.entities) THEN [w.entities EXCEPT ![id] = object]
                    ELSE Append(w.entities, object)
    /\ v.id_of = [w.id_of EXCEPT ![object] = id]
    /\ v.free = IF w.fields[object].destroyed THEN w.free \cup {id} ELSE w.free \ {id}

\* What the registration of a table changes: its id, its place, the free ids.
LEMMA RegisteredFields ==
    ASSUME NEW w \in World, NEW id \in EntityId, NEW object \in Object,
           id <= Len(w.entities) + 1, Len(w.entities) <= MaxEntityId,
           NEW v, v = Registered(w, id, object)
    PROVE  /\ RegisteredEffect(w, v, id, object)
           /\ v \in World
           /\ Len(v.entities) = IF id <= Len(w.entities) THEN Len(w.entities)
                                ELSE Len(w.entities) + 1
           /\ v.entities[id] = object
           /\ \A i \in Ids(w) \ {id} : i \in Ids(v) /\ v.entities[i] = w.entities[i]
           /\ \A i \in Ids(v) \ {id} : i \in Ids(w)
<1>1. w = [entities |-> w.entities, fields |-> w.fields, free |-> w.free,
           id_of |-> w.id_of, tagged |-> w.tagged, places |-> w.places, index |-> w.index]
  BY DEF World
<1>2. v = [w EXCEPT !.entities = v.entities, !.id_of = v.id_of, !.free = v.free]
      /\ RegisteredEffect(w, v, id, object)
  BY <1>1 DEF Registered, RegisteredEffect
<1> DEFINE s == w.entities
           n == Len(s)
           t == v.entities
<1>3. s \in Seq(Object) /\ n \in Nat /\ id \in Nat \ {0} /\ id <= n + 1
  BY WorldType DEF EntityId
<1>4. t = IF id <= n THEN [s EXCEPT ![id] = object] ELSE Append(s, object)
  BY <1>2 DEF RegisteredEffect
<1> HIDE DEF s, n, t
<1>5. /\ t \in Seq(Object)
      /\ Len(t) = IF id <= n THEN n ELSE n + 1
      /\ \A i \in 1 .. n : i # id => t[i] = s[i]
      /\ t[id] = object
  <2>1. CASE id <= n
    <3>1. id \in 1 .. n
      BY <1>3, <2>1
    <3>2. t = [s EXCEPT ![id] = object] /\ Len(s) = n
      BY <1>4, <2>1 DEF n
    <3>3. t \in Seq(Object) /\ Len(t) = n
      BY <1>3, <3>1, <3>2, ExceptSeq
    <3>4. \A i \in 1 .. n : t[i] = IF i = id THEN object ELSE s[i]
      BY <1>3, <3>1, <3>2
    <3>5. \A i \in 1 .. n : i # id => t[i] = s[i]
      BY <3>4
    <3>6. t[id] = object
      BY <3>1, <3>4
    <3>7. QED
      BY <2>1, <3>3, <3>5, <3>6
  <2>2. CASE id > n
    <3>1. id = n + 1 /\ t = Append(s, object) /\ Len(s) = n
      BY <1>3, <1>4, <2>2 DEF n
    <3>2. t \in Seq(Object) /\ Len(t) = n + 1
          /\ \A k \in 1 .. n + 1 : t[k] = IF k = n + 1 THEN object ELSE s[k]
      BY <1>3, <3>1, AppendElements
    <3>3. n + 1 \in 1 .. n + 1
      BY <1>3
    <3>4. QED
      BY <2>2, <3>1, <3>2, <3>3, <1>3
  <2>3. QED
    BY <1>3, <2>1, <2>2 DEF EntityId
<1>6. v \in World
  <2>1. v.free \in SUBSET EntityId
    BY <1>2, WorldType DEF RegisteredEffect
  <2>2. v.id_of \in [Object -> {nil} \cup EntityId]
    BY <1>2, WorldType DEF RegisteredEffect
  <2>3. v.fields \in [Object -> Fields] /\ v.tagged \in [Tag -> Seq(Object)]
        /\ v.places \in [EntityId -> [Tag -> {nil} \cup EntityId]]
        /\ v.index \in [EntityId -> Indexed]
    BY <1>2, WorldType DEF RegisteredEffect
  <2>4. v.entities \in Seq(Object)
    BY <1>5 DEF t
  <2>5. v = [entities |-> v.entities, fields |-> v.fields, free |-> v.free,
             id_of |-> v.id_of, tagged |-> v.tagged, places |-> v.places,
             index |-> v.index]
    BY <1>1, <1>2
  <2>6. QED
    BY <2>1, <2>2, <2>3, <2>4, <2>5 DEF World
<1>7. \A i \in 1 .. n : i # id => i \in 1 .. Len(t) /\ t[i] = s[i]
  BY <1>3, <1>5
<1>8. \A i \in 1 .. Len(t) : i # id => i \in 1 .. n
  BY <1>3, <1>5
<1>9. QED
  BY <1>2, <1>5, <1>6, <1>7, <1>8 DEF Ids, s, n, t

\* A registered entity is known, and the structures still agree.
LEMMA RegisteredKeeps ==
    ASSUME NEW w, NEW X, NEW id, NEW object, Indexable(w, X, id, object),
           NEW v, v = Registered(w, id, object)
    PROVE  /\ Known(v, X \cup {id}, id, object) /\ Others(w, v, id, object)
           /\ RegisteredEffect(w, v, id, object)
           /\ Len(v.entities) = IF id <= Len(w.entities) THEN Len(w.entities)
                                ELSE Len(w.entities) + 1
<1>1. w \in World /\ object \in Object /\ id \in EntityId /\ X \subseteq Ids(w)
      /\ Len(w.entities) <= MaxEntityId /\ Len(w.entities) \in Nat
  BY WorldType DEF Indexable, Derived
<1>2. id <= Len(w.entities) + 1 /\ id \in Nat
  BY <1>1 DEF Indexable, Ids, EntityId
<1>3. /\ RegisteredEffect(w, v, id, object)
      /\ v \in World
      /\ Len(v.entities) = IF id <= Len(w.entities) THEN Len(w.entities)
                           ELSE Len(w.entities) + 1
      /\ v.entities[id] = object
      /\ \A i \in Ids(w) \ {id} : i \in Ids(v) /\ v.entities[i] = w.entities[i]
      /\ \A i \in Ids(v) \ {id} : i \in Ids(w)
  BY <1>1, <1>2, RegisteredFields
<1>4. v.fields = w.fields /\ v.tagged = w.tagged /\ v.places = w.places /\ v.index = w.index
  BY <1>3 DEF RegisteredEffect
<1>5. v.id_of[object] = id /\ \A o \in Object \ {object} : v.id_of[o] = w.id_of[o]
  BY <1>1, <1>3, WorldType DEF RegisteredEffect
<1>6. \A i \in Ids(w) : w.entities[i] = object => i = id
  BY <1>1 DEF Indexable, Derived
<1>7. \A i \in EntityId, tag \in Tag :
         w.places[i][tag] # nil => i \in X /\ v.entities[i] = w.entities[i]
  <2>1. \A i \in EntityId, tag \in Tag : w.places[i][tag] # nil => i \in X
    BY DEF Indexable, Derived, ArrayInverse
  <2>2. \A tag \in Tag : w.places[id][tag] # nil => w.entities[id] = object
    BY DEF Indexable
  <2>3. QED
    BY <1>1, <1>3, <2>1, <2>2
<1>8. \A o \in Object \ {object} : w.id_of[o] # nil => w.id_of[o] # id
  BY <1>1 DEF Indexable, Derived
<1>9. id \in Ids(v) /\ Len(v.entities) <= MaxEntityId /\ Len(v.entities) \in Nat
  BY <1>1, <1>2, <1>3 DEF Ids, EntityId
<1>10. \A i, j \in Ids(v) : v.entities[i] = v.entities[j] => i = j
  <2>1. \A i, j \in Ids(w) : w.entities[i] = w.entities[j] => i = j
    BY DEF Indexable, Derived
  <2>2. \A i \in Ids(v) : v.entities[i] = object => i = id
    BY <1>3, <1>6
  <2>3. QED
    BY <1>3, <2>1, <2>2
<1>11. \A o \in Object : v.id_of[o] # nil =>
           v.id_of[o] \in X \cup {id} /\ v.entities[v.id_of[o]] = o
  <2>1. \A o \in Object : w.id_of[o] # nil => w.id_of[o] \in X /\ w.entities[w.id_of[o]] = o
    BY DEF Indexable, Derived
  <2>2. ASSUME NEW o \in Object \ {object}, v.id_of[o] # nil
        PROVE  v.id_of[o] \in X \cup {id} /\ v.entities[v.id_of[o]] = o
    <3>1. v.id_of[o] = w.id_of[o] /\ w.id_of[o] # id /\ w.id_of[o] \in X
          /\ w.entities[w.id_of[o]] = o
      BY <1>5, <1>8, <2>1, <2>2
    <3>2. w.id_of[o] \in Ids(w) \ {id}
      BY <1>1, <3>1
    <3>3. QED
      BY <1>3, <3>1, <3>2
  <2>3. QED
    BY <1>3, <1>5, <2>2
<1>12. ASSUME NEW tag \in Tag PROVE ArrayInverse(v, X \cup {id}, tag)
  <2>1. ArrayInverse(w, X, tag)
    BY DEF Indexable, Derived
  <2>2. \A i \in EntityId : w.places[i][tag] # nil =>
              i \in X \cup {id} /\ v.entities[i] = w.entities[i]
    BY <1>7
  <2>3. \A k \in 1 .. Len(w.tagged[tag]) : v.id_of[w.tagged[tag][k]] = w.id_of[w.tagged[tag][k]]
    <3>1. w.tagged[tag] \in Seq(Object)
      BY <1>1, WorldType
    <3>2. \A k \in 1 .. Len(w.tagged[tag]) : w.tagged[tag][k] \in Object
      BY <3>1
    <3>3. w.id_of[object] # nil => w.id_of[object] = id
      BY DEF Indexable
    <3>4. \A k \in 1 .. Len(w.tagged[tag]) : w.id_of[w.tagged[tag][k]] # nil
      BY <2>1, Zenon DEF ArrayInverse
    <3>5. QED
      BY <1>5, <3>2, <3>3, <3>4
  <2>4. QED
    BY <1>4, <2>1, <2>2, <2>3, ArraysKept
<1>13. Derived(v, X \cup {id})
  <2>1. X \subseteq Ids(v)
    BY <1>1, <1>3, <1>9
  <2>2. QED
    BY <1>3, <1>9, <1>10, <1>11, <1>12, <2>1 DEF Derived
<1>14. Others(w, v, id, object)
  <2>1. \A i \in EntityId \ {id} : i \in v.free <=> i \in w.free
    BY <1>3 DEF RegisteredEffect
  <2>2. QED
    BY <1>3, <1>4, <1>5, <2>1 DEF Others
<1>15. QED
  BY <1>1, <1>3, <1>5, <1>13, <1>14 DEF Known

CollidedEffect(w, v, id, object, tags) ==
    /\ v.entities = w.entities /\ v.fields = w.fields /\ v.free = w.free
    /\ v.tagged = w.tagged
    /\ v.places = w.places
    /\ v.id_of = [w.id_of EXCEPT ![object] = IF w.fields[object].destroyed THEN nil ELSE @]
    /\ v.index = [w.index EXCEPT ![id] = [bounds |-> w.fields[object].bounds,
                                          tags |-> tags \cap IndexedTag]]

\* The row of the index is the one computed, and nothing else changed.
LEMMA CollidedKeeps ==
    ASSUME NEW w, NEW X, NEW id \in EntityId, NEW object, Known(w, X, id, object),
           NEW tags \in SUBSET Tag,
           w.fields[object].destroyed => \A tag \in Tag : w.places[id][tag] = nil,
           NEW v, v = Collided(w, id, object, tags)
    PROVE  /\ Derived(v, X) /\ Others(w, v, id, object)
           /\ CollidedEffect(w, v, id, object, tags)
<1>1. w \in World /\ object \in Object /\ id \in X /\ w.entities[id] = object
      /\ w.id_of[object] = id
  BY DEF Known, Derived
<1>2. w = [entities |-> w.entities, fields |-> w.fields, free |-> w.free,
           id_of |-> w.id_of, tagged |-> w.tagged, places |-> w.places, index |-> w.index]
  BY <1>1 DEF World
<1>3. w.fields[object].destroyed => w.places[id] = NoPlaces
  <2>1. w.places[id] \in [Tag -> {nil} \cup EntityId]
    BY <1>1, WorldType
  <2>2. QED
    BY <2>1 DEF NoPlaces
<1>4. [w.places EXCEPT ![id] = IF w.fields[object].destroyed THEN NoPlaces ELSE @] = w.places
  BY <1>1, <1>3, WorldType
<1>5. /\ CollidedEffect(w, v, id, object, tags)
      /\ v = [w EXCEPT !.index = v.index, !.id_of = v.id_of]
  <2> DEFINE places == [w.places EXCEPT ![id] =
                           IF w.fields[object].destroyed THEN NoPlaces ELSE @]
             ids == [w.id_of EXCEPT ![object] = IF w.fields[object].destroyed THEN nil ELSE @]
             index == [w.index EXCEPT ![id] = [bounds |-> w.fields[object].bounds,
                                               tags |-> tags \cap IndexedTag]]
  <2>1. v = [w EXCEPT !.index = index, !.id_of = ids, !.places = places]
    BY DEF Collided
  <2>2. places = w.places
    BY <1>4
  <2> HIDE DEF places, ids, index
  <2>3. /\ v.entities = w.entities /\ v.fields = w.fields /\ v.free = w.free
        /\ v.tagged = w.tagged /\ v.places = w.places /\ v.id_of = ids /\ v.index = index
        /\ v = [w EXCEPT !.index = v.index, !.id_of = v.id_of]
    BY <1>2, <2>1, <2>2
  <2>4. QED
    BY <2>3 DEF CollidedEffect, ids, index
<1>6. v \in World
  <2>1. v.id_of \in [Object -> {nil} \cup EntityId]
    BY <1>1, <1>5, WorldType DEF CollidedEffect
  <2>2. v.index \in [EntityId -> Indexed]
    <3>1. w.fields[object] \in Fields /\ w.index \in [EntityId -> Indexed]
      BY <1>1, WorldType
    <3>2. [bounds |-> w.fields[object].bounds, tags |-> tags \cap IndexedTag] \in Indexed
      BY <3>1 DEF Fields, Indexed
    <3>3. QED
      BY <1>5, <3>1, <3>2 DEF CollidedEffect
  <2>3. QED
    BY <1>1, <1>5, <2>1, <2>2 DEF World
<1>7. /\ v.entities = w.entities /\ v.fields = w.fields /\ v.free = w.free
      /\ v.tagged = w.tagged /\ v.places = w.places
      /\ v.id_of[object] = (IF w.fields[object].destroyed THEN nil ELSE id)
      /\ \A o \in Object \ {object} : v.id_of[o] = w.id_of[o]
      /\ \A i \in EntityId \ {id} : v.index[i] = w.index[i]
  <2>1. w.id_of \in [Object -> {nil} \cup EntityId] /\ w.index \in [EntityId -> Indexed]
    BY <1>1, WorldType
  <2>2. QED
    BY <1>1, <1>5, <2>1 DEF CollidedEffect
<1>8. ASSUME NEW tag \in Tag PROVE ArrayInverse(v, X, tag)
  <2>1. ArrayInverse(w, X, tag)
    BY DEF Known, Derived
  <2>2. /\ \A i \in EntityId : w.places[i][tag] # nil =>
              /\ i \in X /\ w.places[i][tag] \in 1 .. Len(w.tagged[tag])
              /\ w.tagged[tag][w.places[i][tag]] = w.entities[i]
        /\ \A k \in 1 .. Len(w.tagged[tag]) :
              /\ w.id_of[w.tagged[tag][k]] # nil
              /\ w.places[w.id_of[w.tagged[tag][k]]][tag] = k
    BY <2>1, Zenon DEF ArrayInverse
  <2>3. \A k \in 1 .. Len(w.tagged[tag]) : v.id_of[w.tagged[tag][k]] = w.id_of[w.tagged[tag][k]]
    <3>1. w.tagged[tag] \in Seq(Object)
      BY <1>1, WorldType
    <3>2. \A k \in 1 .. Len(w.tagged[tag]) : w.tagged[tag][k] \in Object /\ k # nil
      BY <3>1 DEF nil
    <3>3. QED
      BY <1>1, <1>7, <2>2, <3>2
  <2>4. \A i \in EntityId : w.places[i][tag] # nil => i \in X
    BY <2>2
  <2>5. QED
    BY <1>7, <2>1, <2>3, <2>4, ArraysKept
<1>9. Derived(v, X)
  <2>1. /\ Len(w.entities) <= MaxEntityId
        /\ X \subseteq Ids(w)
        /\ \A i, j \in Ids(w) : w.entities[i] = w.entities[j] => i = j
        /\ \A o \in Object : w.id_of[o] # nil => w.id_of[o] \in X /\ w.entities[w.id_of[o]] = o
    BY DEF Known, Derived
  <2>2. \A o \in Object : v.id_of[o] # nil => v.id_of[o] = w.id_of[o]
    BY <1>1, <1>7
  <2>3. QED
    BY <1>6, <1>7, <1>8, <2>1, <2>2 DEF Derived, Ids
<1>10. Others(w, v, id, object)
  BY <1>7 DEF Others, Ids
<1>11. QED
  BY <1>5, <1>9, <1>10

-----------------------------------------------------------------------------
(***************************************************************************)
(* index as a whole.                                                       *)
(***************************************************************************)
\* All structures agree with the table of an entity, but perhaps its image.
Agrees(w, id, object) ==
    /\ w.entities[id] = object
    /\ \A tag \in Tag : w.places[id][tag] # nil <=> tag \in w.fields[object].tags
    /\ w.index[id] = [bounds |-> w.fields[object].bounds,
                      tags |-> w.fields[object].tags \cap IndexedTag]
    /\ id \in w.free <=> w.fields[object].destroyed
    /\ w.id_of[object] = IF w.fields[object].destroyed THEN nil ELSE id

Grown(w, v, id) ==
    Len(v.entities) = IF id <= Len(w.entities) THEN Len(w.entities) ELSE Len(w.entities) + 1

SameContents(w, v, object) ==
    /\ v.fields[object] \in Fields
    /\ v.fields[object].destroyed = w.fields[object].destroyed
    /\ v.fields[object].tags = w.fields[object].tags
    /\ v.fields[object].bounds = w.fields[object].bounds

SameImage(w, v, object) == v.fields[object].image = w.fields[object].image

\* The first half of index, which leaves the tags of the table alone.
HalfIndexed(w, v, X, id, object) ==
    /\ Known(v, X, id, object) /\ Others(w, v, id, object)
    /\ v.entities = w.entities /\ v.free = w.free /\ v.id_of = w.id_of
    /\ \A tag \in Tag : v.places[id][tag] # nil <=>
          w.places[id][tag] # nil /\ tag \in w.fields[object].tags
    /\ SameContents(w, v, object) /\ SameImage(w, v, object)

\* Without its outdated tags an entity is in no array it should not be in.
LEMMA OutdatedRemoved ==
    ASSUME NEW w, NEW X, NEW id \in EntityId, NEW object, Known(w, X, id, object),
           NEW v, v = WithoutTags(w, id, object, Outdated(w, id, object))
    PROVE  HalfIndexed(w, v, X, id, object)
<1> DEFINE removed == OldTags(w, id, Outdated(w, id, object))
<1>1. w \in World /\ w.fields[object] \in Fields
  BY WorldType DEF Known, Derived
<1>2. /\ removed \in SUBSET Tag
      /\ \A tag \in removed : w.places[id][tag] # nil
      /\ \A tag \in Tag : tag \in removed <=>
            w.places[id][tag] # nil /\ tag \notin w.fields[object].tags
  BY DEF OldTags, Outdated
<1>3. TagsRemoved(w, v, id, object, removed)
  BY <1>1, WithoutTagsFields
<1> HIDE DEF removed
<1>4. /\ Known(v, X, id, object) /\ Others(w, v, id, object)
      /\ TagsRemovedEffect(w, v, id, object, removed)
  BY <1>2, <1>3, TagsRemovedKeeps
<1>5. \A tag \in Tag : v.places[id][tag] # nil <=>
           w.places[id][tag] # nil /\ tag \in w.fields[object].tags
  BY <1>2, <1>4 DEF TagsRemovedEffect
<1>6. w.fields[object].tags \ removed = w.fields[object].tags
  BY <1>2
<1>7. QED
  BY <1>4, <1>5, <1>6 DEF TagsRemovedEffect, SameContents, SameImage, HalfIndexed

\* The second half, where all tags of the table are added.
TableIndexed(w, v, X, id, object) ==
    /\ Known(v, X, id, object) /\ Others(w, v, id, object)
    /\ v.entities = w.entities /\ v.free = w.free /\ v.id_of = w.id_of
    /\ \A tag \in Tag : v.places[id][tag] # nil <=> tag \in w.fields[object].tags
    /\ SameContents(w, v, object) /\ SameImage(w, v, object)

\* With the tags of its table it is in exactly the arrays of these tags.
LEMMA TagsOfTableAdded ==
    ASSUME NEW w, NEW X, NEW id \in EntityId, NEW object, Known(w, X, id, object),
           \A tag \in Tag : w.places[id][tag] # nil => tag \in w.fields[object].tags,
           NEW v, v = WithTags(w, id, object, w.fields[object].tags)
    PROVE  TableIndexed(w, v, X, id, object)
<1> DEFINE added == NewTags(w, id, w.fields[object].tags)
<1>1. w \in World /\ w.fields[object] \in Fields /\ w.fields[object].tags \in SUBSET Tag
  BY WorldType DEF Known, Derived, Fields
<1>2. /\ added \in SUBSET Tag
      /\ \A tag \in added : w.places[id][tag] = nil
      /\ \A tag \in Tag : tag \in added <=>
            w.places[id][tag] = nil /\ tag \in w.fields[object].tags
  BY <1>1 DEF NewTags
<1>3. TagsAdded(w, v, id, object, added)
  BY <1>1, WithTagsFields
<1> HIDE DEF added
<1>4. /\ Known(v, X, id, object) /\ Others(w, v, id, object)
      /\ TagsAddedEffect(w, v, id, object, added)
  BY <1>2, <1>3, TagsAddedKeeps
<1>5. \A tag \in Tag : v.places[id][tag] # nil <=> tag \in w.fields[object].tags
  BY <1>2, <1>4 DEF TagsAddedEffect
<1>6. w.fields[object].tags \cup added = w.fields[object].tags
  BY <1>1, <1>2
<1>7. QED
  BY <1>4, <1>5, <1>6 DEF TagsAddedEffect, SameContents, SameImage, TableIndexed

\* The end of index, for an entity whose tags have their places.
LEMMA CollidedAgrees ==
    ASSUME NEW w, NEW X, NEW id \in EntityId, NEW object, Known(w, X, id, object),
           \A tag \in Tag : w.places[id][tag] # nil <=> tag \in w.fields[object].tags,
           id \in w.free <=> w.fields[object].destroyed,
           w.fields[object].destroyed => w.fields[object].tags = {},
           NEW v, v = Collided(w, id, object, w.fields[object].tags)
    PROVE  /\ Derived(v, X) /\ Others(w, v, id, object)
           /\ Agrees(v, id, object)
           /\ SameContents(w, v, object) /\ SameImage(w, v, object)
           /\ v.entities = w.entities
<1>1. /\ w \in World /\ object \in Object /\ w.entities[id] = object
      /\ w.id_of[object] = id
      /\ w.fields[object] \in Fields /\ w.fields[object].tags \in SUBSET Tag
  BY WorldType DEF Known, Derived, Fields
<1>2. w.fields[object].destroyed => \A tag \in Tag : w.places[id][tag] = nil
  OBVIOUS
<1>3. /\ Derived(v, X) /\ Others(w, v, id, object)
      /\ CollidedEffect(w, v, id, object, w.fields[object].tags)
  BY <1>1, <1>2, CollidedKeeps
<1>4. /\ v.entities = w.entities /\ v.fields = w.fields /\ v.free = w.free
      /\ v.places = w.places
  BY <1>3 DEF CollidedEffect
<1>5. v.id_of[object] = IF v.fields[object].destroyed THEN nil ELSE id
  BY <1>1, <1>3, WorldType DEF CollidedEffect
<1>6. v.index[id] = [bounds |-> v.fields[object].bounds,
                     tags |-> v.fields[object].tags \cap IndexedTag]
  BY <1>1, <1>3, WorldType DEF CollidedEffect
<1>7. QED
  BY <1>1, <1>3, <1>4, <1>5, <1>6 DEF Agrees, SameContents, SameImage

\* What index needs of the registration it starts with.
LEMMA RegisteredEntity ==
    ASSUME NEW w, NEW X, NEW id, NEW object, Indexable(w, X, id, object),
           NEW v, v = Registered(w, id, object)
    PROVE  /\ Known(v, X \cup {id}, id, object) /\ Others(w, v, id, object)
           /\ id \in v.free <=> v.fields[object].destroyed
           /\ v.places = w.places
           /\ SameContents(w, v, object) /\ SameImage(w, v, object)
           /\ Grown(w, v, id)
<1>1. /\ Known(v, X \cup {id}, id, object) /\ Others(w, v, id, object)
      /\ RegisteredEffect(w, v, id, object)
      /\ Grown(w, v, id)
  BY RegisteredKeeps DEF Grown
<1>2. w \in World /\ object \in Object /\ w.fields[object] \in Fields
  BY WorldType DEF Indexable, Derived
<1>3. v.fields = w.fields /\ v.places = w.places
      /\ v.free = IF w.fields[object].destroyed THEN w.free \cup {id} ELSE w.free \ {id}
  BY <1>1 DEF RegisteredEffect
<1>4. QED
  BY <1>1, <1>2, <1>3 DEF SameContents, SameImage

\* The contents of a table stay the same through two steps.
LEMMA ContentsCompose ==
    ASSUME NEW u, NEW v, NEW w, NEW object,
           SameContents(u, v, object), SameContents(v, w, object)
    PROVE  SameContents(u, w, object)
BY DEF SameContents

\* index of an entity whose resource tag does not change, which is also what a
\* listener's set does.
LEMMA RefreshedKeeps ==
    ASSUME NEW w, NEW X, NEW id, NEW object, Indexable(w, X, id, object),
           w.fields[object].destroyed => w.fields[object].tags = {},
           NEW v, v = Refreshed(w, id, object)
    PROVE  /\ Derived(v, X \cup {id}) /\ Others(w, v, id, object)
           /\ Agrees(v, id, object)
           /\ SameContents(w, v, object) /\ SameImage(w, v, object)
           /\ Grown(w, v, id)
<1> DEFINE r == Registered(w, id, object)
           u == WithoutTags(r, id, object, Outdated(r, id, object))
           t == WithTags(u, id, object, u.fields[object].tags)
           Y == X \cup {id}
<1>1. v = Collided(t, id, object, u.fields[object].tags) /\ id \in EntityId
  BY DEF Refreshed, Indexable
<1>2. /\ Known(r, Y, id, object) /\ Others(w, r, id, object)
      /\ id \in r.free <=> r.fields[object].destroyed
      /\ SameContents(w, r, object) /\ SameImage(w, r, object)
      /\ Grown(w, r, id)
  BY RegisteredEntity
<1>3. u = WithoutTags(r, id, object, Outdated(r, id, object))
      /\ t = WithTags(u, id, object, u.fields[object].tags)
  OBVIOUS
<1> HIDE DEF r, u, t, Y
<1>4. /\ Known(u, Y, id, object) /\ Others(r, u, id, object)
      /\ u.entities = r.entities /\ u.free = r.free
      /\ \A tag \in Tag : u.places[id][tag] # nil <=>
            r.places[id][tag] # nil /\ tag \in r.fields[object].tags
      /\ SameContents(r, u, object) /\ SameImage(r, u, object)
  <2>1. HalfIndexed(r, u, Y, id, object)
    BY <1>1, <1>2, <1>3, OutdatedRemoved
  <2>2. QED
    BY <2>1 DEF HalfIndexed
<1>5. \A tag \in Tag : u.places[id][tag] # nil => tag \in u.fields[object].tags
  BY <1>4 DEF SameContents
<1>6. /\ Known(t, Y, id, object) /\ Others(u, t, id, object)
      /\ t.entities = u.entities /\ t.free = u.free
      /\ \A tag \in Tag : t.places[id][tag] # nil <=> tag \in u.fields[object].tags
      /\ SameContents(u, t, object) /\ SameImage(u, t, object)
  <2>1. TableIndexed(u, t, Y, id, object)
    BY <1>1, <1>3, <1>4, <1>5, TagsOfTableAdded
  <2>2. QED
    BY <2>1 DEF TableIndexed
<1>7. SameContents(w, t, object) /\ SameImage(w, t, object)
  BY <1>2, <1>4, <1>6, ContentsCompose DEF SameImage
<1>8. /\ \A tag \in Tag : t.places[id][tag] # nil <=> tag \in t.fields[object].tags
      /\ id \in t.free <=> t.fields[object].destroyed
      /\ t.fields[object].destroyed => t.fields[object].tags = {}
      /\ v = Collided(t, id, object, t.fields[object].tags)
  <2>1. t.fields[object].tags = u.fields[object].tags
    BY <1>6 DEF SameContents
  <2>2. /\ t.fields[object].destroyed = w.fields[object].destroyed
        /\ t.fields[object].tags = w.fields[object].tags
        /\ r.fields[object].destroyed = w.fields[object].destroyed
    BY <1>2, <1>7 DEF SameContents
  <2>3. QED
    BY <1>1, <1>2, <1>4, <1>6, <2>1, <2>2
<1>9. /\ Derived(v, Y) /\ Others(t, v, id, object)
      /\ Agrees(v, id, object)
      /\ SameContents(t, v, object) /\ SameImage(t, v, object)
      /\ v.entities = t.entities
  BY <1>1, <1>6, <1>8, CollidedAgrees
<1>10. Others(w, v, id, object)
  <2>1. Others(w, u, id, object)
    BY <1>2, <1>4, OthersCompose
  <2>2. Others(w, t, id, object)
    BY <1>6, <2>1, OthersCompose
  <2>3. QED
    BY <1>9, <2>2, OthersCompose
<1>11. SameContents(w, v, object) /\ SameImage(w, v, object)
  BY <1>7, <1>9, ContentsCompose DEF SameImage
<1>12. Grown(w, v, id)
  BY <1>2, <1>4, <1>6, <1>9 DEF Grown
<1>13. QED
  BY <1>9, <1>10, <1>11, <1>12 DEF Y

\* What a listener makes of an entity that is alive.
ImageChanged(w, v, X, id, object, image) ==
    /\ Known(v, X, id, object) /\ Others(w, v, id, object)
    /\ Agrees(v, id, object)
    /\ SameContents(w, v, object)
    /\ v.fields[object].image = image
    /\ v.entities = w.entities

\* The listener of the resource tag changes the image of the entity alone.
LEMMA HeardKeeps ==
    ASSUME NEW w, NEW X, NEW id, NEW object, Known(w, X, id, object),
           w.fields[object].destroyed = FALSE, NEW image \in Image,
           NEW v, v = Heard(w, id, image)
    PROVE  ImageChanged(w, v, X, id, object, image)
<1> DEFINE u == [w EXCEPT !.fields[object].image = image]
<1>1. /\ w \in World /\ object \in Object /\ id \in X /\ id \in EntityId
      /\ w.entities[id] = object /\ w.id_of[object] = id
      /\ id \in Ids(w)
  BY WorldType DEF Known, Derived, Ids, EntityId
<1>2. v = Refreshed(u, id, object)
  BY <1>1 DEF Heard
<1>3. /\ u.entities = w.entities /\ u.free = w.free /\ u.id_of = w.id_of
      /\ u.tagged = w.tagged /\ u.places = w.places /\ u.index = w.index
      /\ u.fields = [w.fields EXCEPT ![object].image = image]
      /\ u = [w EXCEPT !.fields = u.fields]
  BY <1>1 DEF World
<1> HIDE DEF u
<1>4. /\ u.fields \in [Object -> Fields]
      /\ u.fields[object].image = image
      /\ u.fields[object].destroyed = FALSE
      /\ SameContents(w, u, object)
      /\ \A o \in Object \ {object} : u.fields[o] = w.fields[o]
  <2>1. w.fields \in [Object -> Fields] /\ w.fields[object] \in Fields
    BY <1>1, WorldType
  <2>2. u.fields[object] = [w.fields[object] EXCEPT !.image = image]
    BY <1>1, <1>3, <2>1
  <2>3. u.fields[object] \in Fields /\ u.fields[object].image = image
        /\ u.fields[object].destroyed = w.fields[object].destroyed
        /\ u.fields[object].tags = w.fields[object].tags
        /\ u.fields[object].bounds = w.fields[object].bounds
    BY <2>1, <2>2 DEF Fields
  <2>4. /\ u.fields \in [Object -> Fields]
        /\ \A o \in Object \ {object} : u.fields[o] = w.fields[o]
    BY <1>1, <1>3, <2>1, <2>2, <2>3
  <2>5. QED
    BY <2>3, <2>4 DEF SameContents
<1>5. u \in World
  BY <1>1, <1>3, <1>4 DEF World
<1>6. \A tag \in Tag : ArrayInverse(u, X, tag)
  BY <1>3, SameArrays DEF Known, Derived
<1>7. Derived(u, X)
  BY <1>3, <1>5, <1>6 DEF Known, Derived, Ids
<1>8. Indexable(u, X, id, object)
  BY <1>1, <1>3, <1>7 DEF Indexable
<1>9. Others(w, u, id, object)
  BY <1>3, <1>4 DEF Others, Ids
<1>10. u.fields[object].destroyed => u.fields[object].tags = {}
  BY <1>4
<1>11. /\ Derived(v, X \cup {id}) /\ Others(u, v, id, object)
       /\ Agrees(v, id, object)
       /\ SameContents(u, v, object) /\ SameImage(u, v, object)
       /\ Grown(u, v, id)
  BY <1>2, <1>8, <1>10, RefreshedKeeps
<1>12. X \cup {id} = X
  BY <1>1
<1>13. SameContents(w, v, object) /\ v.fields[object].image = image
       /\ v.fields[object].destroyed = FALSE
  BY <1>4, <1>11, ContentsCompose DEF SameImage, SameContents
<1>14. v.id_of[object] = id
  BY <1>11, <1>13 DEF Agrees
<1>15. Known(v, X, id, object)
  BY <1>1, <1>11, <1>12, <1>14 DEF Known, Agrees
<1>16. Others(w, v, id, object)
  BY <1>9, <1>11, OthersCompose
<1>17. v.entities = w.entities
  <2>1. v.entities \in Seq(Object) /\ w.entities \in Seq(Object)
    BY <1>1, <1>11, WorldType DEF Derived
  <2>2. Len(v.entities) = Len(w.entities)
    BY <1>1, <1>3, <1>11 DEF Grown, Ids
  <2>3. \A i \in 1 .. Len(w.entities) : v.entities[i] = w.entities[i]
    <3>1. \A i \in Ids(w) \ {id} : v.entities[i] = w.entities[i]
      BY <1>16 DEF Others
    <3>2. v.entities[id] = w.entities[id]
      BY <1>1, <1>11 DEF Agrees
    <3>3. QED
      BY <3>1, <3>2 DEF Ids
  <2>4. QED
    BY <2>1, <2>2, <2>3, SeqEqual
<1>18. QED
  BY <1>11, <1>13, <1>15, <1>16, <1>17 DEF ImageChanged

Placed(w, id, object) ==
    \A tag \in Tag : w.places[id][tag] # nil <=> tag \in w.fields[object].tags

IndexAgrees(w, id, object) ==
    w.index[id] = [bounds |-> w.fields[object].bounds,
                   tags |-> w.fields[object].tags \cap IndexedTag]

FreeAgrees(w, id, object) == id \in w.free <=> w.fields[object].destroyed

\* What tag makes of an entity, its listener's part included.
TagsTaken(w, v, X, id, object, tags) ==
    /\ Known(v, X, id, object) /\ Others(w, v, id, object)
    /\ v.entities = w.entities
    /\ Placed(v, id, object) /\ FreeAgrees(v, id, object)
    /\ IndexAgrees(w, id, object) => IndexAgrees(v, id, object)
    /\ v.fields[object] \in Fields
    /\ v.fields[object].destroyed = w.fields[object].destroyed
    /\ v.fields[object].tags = w.fields[object].tags \cup tags
    /\ v.fields[object].bounds = w.fields[object].bounds
    /\ v.fields[object].image = IF ResourceTag \in NewTags(w, id, tags) THEN "full"
                                ELSE w.fields[object].image

\* tag leaves the entity in exactly the arrays of its new tags.
LEMMA TaggedKeeps ==
    ASSUME NEW w, NEW X, NEW id \in EntityId, NEW object, Known(w, X, id, object),
           NEW tags \in SUBSET Tag,
           \A tag \in Tag : w.places[id][tag] # nil => tag \in w.fields[object].tags,
           \A tag \in w.fields[object].tags : w.places[id][tag] # nil \/ tag \in tags,
           FreeAgrees(w, id, object),
           w.fields[object].destroyed => tags = {},
           NEW v, v = Tagged(w, id, object, tags)
    PROVE  TagsTaken(w, v, X, id, object, tags)
<1> DEFINE added == NewTags(w, id, tags)
           u == WithTags(w, id, object, tags)
<1>1. /\ w \in World /\ object \in Object
      /\ w.fields[object] \in Fields /\ w.fields[object].tags \in SUBSET Tag
      /\ w.fields[object].destroyed \in BOOLEAN
      /\ w.index[id] \in Indexed
  BY WorldType DEF Known, Derived, Fields
<1>2. /\ added \in SUBSET Tag
      /\ \A tag \in added : w.places[id][tag] = nil
      /\ \A tag \in Tag : tag \in added <=> w.places[id][tag] = nil /\ tag \in tags
  BY DEF NewTags
<1>3. TagsAdded(w, u, id, object, added)
  BY <1>1, WithTagsFields
<1>4. v = IF ResourceTag \in added THEN Heard(u, id, "full") ELSE u
  BY DEF Tagged
<1>5. ResourceTag \in added => ResourceTag \in tags
  BY DEF NewTags
<1>6. \A tag \in w.fields[object].tags : w.places[id][tag] # nil \/ tag \in added
  BY <1>1, <1>2
<1> HIDE DEF added, u
<1>7. /\ Known(u, X, id, object) /\ Others(w, u, id, object)
      /\ TagsAddedEffect(w, u, id, object, added)
  BY <1>2, <1>3, TagsAddedKeeps
<1>8. w.fields[object].tags \cup added = w.fields[object].tags \cup tags
  BY <1>1, <1>2
<1>9. /\ u.entities = w.entities /\ u.free = w.free
      /\ u.fields[object] \in Fields
      /\ u.fields[object].destroyed = w.fields[object].destroyed
      /\ u.fields[object].tags = w.fields[object].tags \cup tags
      /\ u.fields[object].bounds = w.fields[object].bounds
      /\ u.fields[object].image = w.fields[object].image
  BY <1>7, <1>8 DEF TagsAddedEffect
<1>10. Placed(u, id, object)
  BY <1>2, <1>6, <1>7, <1>8, <1>9 DEF Placed, TagsAddedEffect
<1>11. FreeAgrees(u, id, object)
  BY <1>9 DEF FreeAgrees
<1>12. IndexAgrees(w, id, object) => IndexAgrees(u, id, object)
  <2>1. u.index[id] \in Indexed
    BY <1>7, WorldType DEF Known, Derived
  <2>2. u.index[id].bounds = w.index[id].bounds
        /\ u.index[id].tags = w.index[id].tags \cup (added \cap IndexedTag)
    BY <1>7 DEF TagsAddedEffect
  <2>3. SUFFICES ASSUME IndexAgrees(w, id, object) PROVE IndexAgrees(u, id, object)
    OBVIOUS
  <2>4. w.index[id].bounds = w.fields[object].bounds
        /\ w.index[id].tags = w.fields[object].tags \cap IndexedTag
    BY <2>3 DEF IndexAgrees
  <2>5. u.index[id].tags = u.fields[object].tags \cap IndexedTag
    BY <1>8, <1>9, <2>2, <2>4
  <2>6. QED
    BY <1>9, <2>1, <2>2, <2>4, <2>5 DEF IndexAgrees, Indexed
<1>13. CASE ResourceTag \in added
  <2>1. u.fields[object].destroyed = FALSE
    BY <1>1, <1>5, <1>9, <1>13
  <2>2. v = Heard(u, id, "full") /\ "full" \in Image
    BY <1>4, <1>13 DEF Image
  <2>3. /\ Known(v, X, id, object) /\ Others(u, v, id, object)
        /\ Agrees(v, id, object)
        /\ SameContents(u, v, object)
        /\ v.fields[object].image = "full"
        /\ v.entities = u.entities
    <3>1. ImageChanged(u, v, X, id, object, "full")
      BY <1>7, <2>1, <2>2, HeardKeeps
    <3>2. QED
      BY <3>1 DEF ImageChanged
  <2>4. Others(w, v, id, object)
    BY <1>7, <2>3, OthersCompose
  <2>5. Placed(v, id, object) /\ FreeAgrees(v, id, object) /\ IndexAgrees(v, id, object)
    BY <2>3 DEF Agrees, Placed, FreeAgrees, IndexAgrees
  <2>6. QED
    BY <1>9, <1>13, <2>3, <2>4, <2>5 DEF TagsTaken, SameContents, added
<1>14. CASE ResourceTag \notin added
  <2>1. v = u
    BY <1>4, <1>14
  <2>2. QED
    BY <1>7, <1>9, <1>10, <1>11, <1>12, <1>14, <2>1 DEF TagsTaken, added
<1>15. QED
  BY <1>13, <1>14

\* What untag makes of an entity, its listener's part included.
TagsGiven(w, v, X, id, object, tags) ==
    /\ Known(v, X, id, object) /\ Others(w, v, id, object)
    /\ v.entities = w.entities
    /\ \A tag \in Tag : v.places[id][tag] # nil => tag \in v.fields[object].tags
    /\ v.places[id][ResourceTag] # nil <=>
          w.places[id][ResourceTag] # nil /\ ResourceTag \notin tags
    /\ Placed(w, id, object) => Placed(v, id, object)
    /\ FreeAgrees(v, id, object)
    /\ IndexAgrees(w, id, object) => IndexAgrees(v, id, object)
    /\ v.fields[object] \in Fields
    /\ v.fields[object].destroyed = w.fields[object].destroyed
    /\ v.fields[object].tags = w.fields[object].tags \ OldTags(w, id, tags)
    /\ v.fields[object].bounds = w.fields[object].bounds
    /\ v.fields[object].image = IF ResourceTag \in OldTags(w, id, tags) THEN "empty"
                                ELSE w.fields[object].image

\* untag leaves the entity in exactly the arrays of the tags left.
LEMMA UntaggedKeeps ==
    ASSUME NEW w, NEW X, NEW id \in EntityId, NEW object, Known(w, X, id, object),
           NEW tags \in SUBSET Tag,
           \A tag \in Tag :
              w.places[id][tag] # nil => tag \in w.fields[object].tags \/ tag \in tags,
           FreeAgrees(w, id, object),
           ResourceTag \in OldTags(w, id, tags) => ~w.fields[object].destroyed,
           NEW v, v = Untagged(w, id, object, tags)
    PROVE  TagsGiven(w, v, X, id, object, tags)
<1> DEFINE removed == OldTags(w, id, tags)
           u == WithoutTags(w, id, object, tags)
<1>1. /\ w \in World /\ object \in Object
      /\ w.fields[object] \in Fields /\ w.fields[object].tags \in SUBSET Tag
      /\ w.fields[object].destroyed \in BOOLEAN
      /\ w.index[id] \in Indexed
  BY WorldType DEF Known, Derived, Fields
<1>2. /\ removed \in SUBSET Tag
      /\ \A tag \in removed : w.places[id][tag] # nil
      /\ \A tag \in Tag : tag \in removed <=> w.places[id][tag] # nil /\ tag \in tags
  BY DEF OldTags
<1>3. TagsRemoved(w, u, id, object, removed)
  BY <1>1, WithoutTagsFields
<1>4. v = IF ResourceTag \in removed THEN Heard(u, id, "empty") ELSE u
  BY DEF Untagged
<1>5. ResourceTag \in removed => ~w.fields[object].destroyed
  OBVIOUS
<1>6. ResourceTag \in Tag
  OBVIOUS
<1> HIDE DEF removed, u
<1>7. /\ Known(u, X, id, object) /\ Others(w, u, id, object)
      /\ TagsRemovedEffect(w, u, id, object, removed)
  BY <1>2, <1>3, TagsRemovedKeeps
<1>8. /\ u.entities = w.entities /\ u.free = w.free
      /\ u.fields[object] \in Fields
      /\ u.fields[object].destroyed = w.fields[object].destroyed
      /\ u.fields[object].tags = w.fields[object].tags \ removed
      /\ u.fields[object].bounds = w.fields[object].bounds
      /\ u.fields[object].image = w.fields[object].image
      /\ \A tag \in Tag :
            u.places[id][tag] # nil <=> w.places[id][tag] # nil /\ tag \notin removed
  BY <1>7 DEF TagsRemovedEffect
<1>9. \A tag \in Tag : u.places[id][tag] # nil => tag \in u.fields[object].tags
  BY <1>2, <1>8
<1>10. Placed(w, id, object) => Placed(u, id, object)
  BY <1>8 DEF Placed
<1>11. FreeAgrees(u, id, object)
  BY <1>8 DEF FreeAgrees
<1>12. IndexAgrees(w, id, object) => IndexAgrees(u, id, object)
  <2>1. u.index[id] \in Indexed
    BY <1>7, WorldType DEF Known, Derived
  <2>2. u.index[id].bounds = w.index[id].bounds
        /\ u.index[id].tags = w.index[id].tags \ removed
    BY <1>7 DEF TagsRemovedEffect
  <2>3. SUFFICES ASSUME IndexAgrees(w, id, object) PROVE IndexAgrees(u, id, object)
    OBVIOUS
  <2>4. w.index[id].bounds = w.fields[object].bounds
        /\ w.index[id].tags = w.fields[object].tags \cap IndexedTag
    BY <2>3 DEF IndexAgrees
  <2>5. u.index[id].tags = u.fields[object].tags \cap IndexedTag
    BY <1>8, <2>2, <2>4
  <2>6. QED
    BY <1>8, <2>1, <2>2, <2>4, <2>5 DEF IndexAgrees, Indexed
<1>13. u.places[id][ResourceTag] # nil <=>
           w.places[id][ResourceTag] # nil /\ ResourceTag \notin tags
  BY <1>2, <1>6, <1>8
<1>14. CASE ResourceTag \in removed
  <2>1. u.fields[object].destroyed = FALSE
    BY <1>1, <1>5, <1>8, <1>14
  <2>2. v = Heard(u, id, "empty") /\ "empty" \in Image
    BY <1>4, <1>14 DEF Image
  <2>3. /\ Known(v, X, id, object) /\ Others(u, v, id, object)
        /\ Agrees(v, id, object)
        /\ SameContents(u, v, object)
        /\ v.fields[object].image = "empty"
        /\ v.entities = u.entities
    <3>1. ImageChanged(u, v, X, id, object, "empty")
      BY <1>7, <2>1, <2>2, HeardKeeps
    <3>2. QED
      BY <3>1 DEF ImageChanged
  <2>4. Others(w, v, id, object)
    BY <1>7, <2>3, OthersCompose
  <2>5. Placed(v, id, object) /\ FreeAgrees(v, id, object) /\ IndexAgrees(v, id, object)
    BY <2>3 DEF Agrees, Placed, FreeAgrees, IndexAgrees
  <2>6. \A tag \in Tag : v.places[id][tag] # nil <=> tag \in v.fields[object].tags
    BY <2>5 DEF Placed
  <2>7. v.fields[object].tags = w.fields[object].tags \ removed
    BY <1>8, <2>3 DEF SameContents
  <2>8. v.places[id][ResourceTag] = nil /\ ResourceTag \in tags
    BY <1>2, <1>6, <1>14, <2>6, <2>7
  <2>9. QED
    BY <1>8, <1>14, <2>3, <2>4, <2>5, <2>6, <2>7, <2>8 DEF TagsGiven, SameContents, removed
<1>15. CASE ResourceTag \notin removed
  <2>1. v = u
    BY <1>4, <1>15
  <2>2. QED
    BY <1>7, <1>8, <1>9, <1>10, <1>11, <1>12, <1>13, <1>15, <2>1 DEF TagsGiven, removed
<1>16. QED
  BY <1>14, <1>15

\* A puddle or a tree looks full exactly while it has its resource.
ImageFollows(w, object) ==
    ResourceTag \in w.fields[object].tags <=> w.fields[object].image = "full"

\* What index makes of an entity.
EntityIndexed(w, v, X, id, object) ==
    /\ Derived(v, X) /\ Others(w, v, id, object)
    /\ Agrees(v, id, object)
    /\ SameContents(w, v, object)
    /\ ImageFollows(v, object)
    /\ Grown(w, v, id)

\* The image can be out of date only where index is about to tell a listener, and
\* a destroyed entity gives no listener a reason to act.
Indicated(w, id, object) ==
    /\ w.fields[object].destroyed =>
          w.fields[object].tags = {} /\ w.places[id][ResourceTag] = nil
    /\ ResourceTag \in w.fields[object].tags /\ w.places[id][ResourceTag] # nil =>
          w.fields[object].image = "full"
    /\ ResourceTag \notin w.fields[object].tags /\ w.places[id][ResourceTag] = nil =>
          w.fields[object].image # "full"

\* index makes its entity agree with its table, and touches no other.
LEMMA IndexKeeps ==
    ASSUME NEW w, NEW X, NEW id, NEW object, Indexable(w, X, id, object),
           Indicated(w, id, object),
           NEW v, v = Index(w, id, object)
    PROVE  EntityIndexed(w, v, X \cup {id}, id, object)
<1> DEFINE r == Registered(w, id, object)
           outdated == Outdated(r, id, object)
           u == Untagged(r, id, object, outdated)
           t == Tagged(u, id, object, u.fields[object].tags)
           Y == X \cup {id}
<1>1. v = Collided(t, id, object, u.fields[object].tags) /\ id \in EntityId
  BY DEF Index, Indexable
<1>2. /\ Known(r, Y, id, object) /\ Others(w, r, id, object)
      /\ id \in r.free <=> r.fields[object].destroyed
      /\ r.places = w.places
      /\ SameContents(w, r, object) /\ SameImage(w, r, object)
      /\ Grown(w, r, id)
  BY RegisteredEntity
<1>3. u = Untagged(r, id, object, outdated)
      /\ t = Tagged(u, id, object, u.fields[object].tags)
  OBVIOUS
<1>4. /\ outdated \in SUBSET Tag
      /\ \A tag \in Tag : tag \in outdated <=>
            r.places[id][tag] # nil /\ tag \notin r.fields[object].tags
  BY DEF Outdated, OldTags
<1> HIDE DEF r, outdated, u, t, Y
<1>5. /\ \A tag \in OldTags(r, id, outdated) : tag \in outdated
      /\ ResourceTag \in OldTags(r, id, outdated) <=>
            w.places[id][ResourceTag] # nil /\ ResourceTag \notin w.fields[object].tags
  <2>1. \A tag \in OldTags(r, id, outdated) : tag \in outdated
    BY DEF OldTags
  <2>2. ResourceTag \in OldTags(r, id, outdated) <=>
            r.places[id][ResourceTag] # nil /\ ResourceTag \in outdated
    BY DEF OldTags
  <2>3. r.fields[object].tags = w.fields[object].tags
    BY <1>2 DEF SameContents
  <2>4. ResourceTag \in Tag
    OBVIOUS
  <2>5. QED
    BY <1>2, <1>4, <2>1, <2>2, <2>3, <2>4
<1>6. TagsGiven(r, u, Y, id, object, outdated)
  <2>1. \A tag \in Tag :
            r.places[id][tag] # nil => tag \in r.fields[object].tags \/ tag \in outdated
    BY <1>4
  <2>2. FreeAgrees(r, id, object)
    BY <1>2 DEF FreeAgrees
  <2>3. ResourceTag \in OldTags(r, id, outdated) => ~r.fields[object].destroyed
    <3>1. r.fields[object].destroyed = w.fields[object].destroyed
      BY <1>2 DEF SameContents
    <3>2. w.fields[object].destroyed => w.places[id][ResourceTag] = nil
      BY DEF Indicated
    <3>3. QED
      BY <1>5, <3>1, <3>2
  <2>4. QED
    BY <1>1, <1>2, <1>3, <1>4, <2>1, <2>2, <2>3, UntaggedKeeps
<1>7. /\ Known(u, Y, id, object) /\ Others(r, u, id, object)
      /\ u.entities = r.entities
      /\ \A tag \in Tag : u.places[id][tag] # nil => tag \in u.fields[object].tags
      /\ u.places[id][ResourceTag] # nil <=>
            r.places[id][ResourceTag] # nil /\ ResourceTag \notin outdated
      /\ FreeAgrees(u, id, object)
      /\ u.fields[object] \in Fields
      /\ u.fields[object].destroyed = r.fields[object].destroyed
      /\ u.fields[object].tags = r.fields[object].tags \ OldTags(r, id, outdated)
      /\ u.fields[object].bounds = r.fields[object].bounds
      /\ u.fields[object].image = IF ResourceTag \in OldTags(r, id, outdated) THEN "empty"
                                  ELSE r.fields[object].image
  BY <1>6 DEF TagsGiven
<1>8. /\ SameContents(w, u, object)
      /\ u.fields[object].tags \in SUBSET Tag
      /\ u.fields[object].destroyed => u.fields[object].tags = {}
  <2>1. r.fields[object].tags \in SUBSET Tag
    BY <1>2 DEF SameContents, Fields
  <2>2. u.fields[object].tags = r.fields[object].tags
    BY <1>4, <1>5, <1>7, <2>1
  <2>3. SameContents(w, u, object)
    BY <1>2, <1>7, <2>2 DEF SameContents
  <2>4. QED
    BY <2>1, <2>2, <2>3 DEF SameContents, Indicated
<1>9. TagsTaken(u, t, Y, id, object, u.fields[object].tags)
  BY <1>1, <1>3, <1>7, <1>8, TaggedKeeps
<1>10. /\ Known(t, Y, id, object) /\ Others(u, t, id, object)
       /\ t.entities = u.entities
       /\ Placed(t, id, object) /\ FreeAgrees(t, id, object)
       /\ t.fields[object] \in Fields
       /\ t.fields[object].destroyed = u.fields[object].destroyed
       /\ t.fields[object].tags = u.fields[object].tags
       /\ t.fields[object].bounds = u.fields[object].bounds
       /\ t.fields[object].image =
             IF ResourceTag \in NewTags(u, id, u.fields[object].tags) THEN "full"
             ELSE u.fields[object].image
  BY <1>9 DEF TagsTaken
<1>11. SameContents(w, t, object)
  BY <1>8, <1>10 DEF SameContents
<1>12. ImageFollows(t, object)
  <2> DEFINE has == ResourceTag \in w.fields[object].tags
             had == w.places[id][ResourceTag] # nil
  <2>1. t.fields[object].tags = w.fields[object].tags
        /\ u.fields[object].tags = w.fields[object].tags
        /\ r.fields[object].tags = w.fields[object].tags
    BY <1>2, <1>8, <1>11 DEF SameContents
  <2>2. r.fields[object].image = w.fields[object].image
    BY <1>2 DEF SameImage
  <2>3. /\ has /\ had => w.fields[object].image = "full"
        /\ ~has /\ ~had => w.fields[object].image # "full"
    BY DEF Indicated
  <2>4. u.fields[object].image = IF had /\ ~has THEN "empty" ELSE w.fields[object].image
    BY <1>5, <1>7, <2>2
  <2>5. u.places[id][ResourceTag] # nil <=> had /\ has
    BY <1>2, <1>4, <1>7, <2>1
  <2>6. ResourceTag \in NewTags(u, id, u.fields[object].tags) <=> has /\ ~had
    BY <2>1, <2>5 DEF NewTags
  <2>7. t.fields[object].image = IF has /\ ~had THEN "full" ELSE u.fields[object].image
    BY <1>10, <2>6
  <2> HIDE DEF has, had
  <2>8. t.fields[object].image = "full" <=> has
    BY <2>3, <2>4, <2>7
  <2>9. QED
    BY <2>1, <2>8 DEF ImageFollows, has
<1>13. /\ Derived(v, Y) /\ Others(t, v, id, object)
       /\ Agrees(v, id, object)
       /\ SameContents(t, v, object) /\ SameImage(t, v, object)
       /\ v.entities = t.entities
  <2>1. \A tag \in Tag : t.places[id][tag] # nil <=> tag \in t.fields[object].tags
    BY <1>10 DEF Placed
  <2>2. id \in t.free <=> t.fields[object].destroyed
    BY <1>10 DEF FreeAgrees
  <2>3. t.fields[object].destroyed => t.fields[object].tags = {}
    BY <1>8, <1>10
  <2>4. v = Collided(t, id, object, t.fields[object].tags)
    BY <1>1, <1>10
  <2>5. QED
    BY <1>1, <1>10, <2>1, <2>2, <2>3, <2>4, CollidedAgrees
<1>14. Others(w, v, id, object)
  <2>1. Others(w, u, id, object)
    BY <1>2, <1>7, OthersCompose
  <2>2. Others(w, t, id, object)
    BY <1>10, <2>1, OthersCompose
  <2>3. QED
    BY <1>13, <2>2, OthersCompose
<1>15. SameContents(w, v, object) /\ ImageFollows(v, object)
  BY <1>11, <1>12, <1>13, ContentsCompose DEF SameImage, ImageFollows, SameContents
<1>16. Grown(w, v, id)
  BY <1>2, <1>7, <1>10, <1>13 DEF Grown
<1>17. QED
  BY <1>13, <1>14, <1>15, <1>16 DEF EntityIndexed, Y

-----------------------------------------------------------------------------
(***************************************************************************)
(* All entities.                                                           *)
(***************************************************************************)
Sane(w, object) ==
    /\ ImageFollows(w, object)
    /\ w.fields[object].destroyed => w.fields[object].tags = {}

\* The entities X are indexed and no others.
Consistent(w, X) ==
    /\ Derived(w, X)
    /\ \A i \in X : Agrees(w, i, w.entities[i])
    /\ w.free \subseteq X
    /\ \A i \in Ids(w) : Sane(w, w.entities[i])

LiveKept(w, v) ==
    \A i \in Ids(w) : Exists(w, i) => i \in Ids(v) /\ v.entities[i] = w.entities[i]

RestKept(w, v, X, id) ==
    \A i \in X \ {id} : /\ i \in Ids(v) /\ v.entities[i] = w.entities[i]
                        /\ v.fields[w.entities[i]] = w.fields[w.entities[i]]

\* A call changed one entity and left it consistent, so all are.
LEMMA OneChanged ==
    ASSUME NEW w, NEW X, Consistent(w, X), NEW id \in EntityId, NEW object \in Object,
           \A i \in Ids(w) : w.entities[i] = object => i = id,
           Exists(w, id) => w.entities[id] = object,
           NEW v, Others(w, v, id, object), Derived(v, X \cup {id}),
           Agrees(v, id, object), Sane(v, object), Grown(w, v, id)
    PROVE  Consistent(v, X \cup {id}) /\ LiveKept(w, v) /\ RestKept(w, v, X, id)
<1>1. /\ Derived(w, X) /\ w \in World /\ v \in World /\ X \subseteq Ids(w)
      /\ Len(w.entities) \in Nat /\ X \cup {id} \subseteq Ids(v)
  BY WorldType DEF Consistent, Derived
<1>2. v.entities[id] = object
  BY DEF Agrees
<1>3. \A i \in Ids(w) \ {id} : i \in Ids(v) /\ v.entities[i] = w.entities[i]
  BY DEF Others
<1>4. \A i \in Ids(v) \ {id} : i \in Ids(w)
  <2>1. id <= Len(v.entities) /\ id \in Nat
    BY <1>1 DEF Ids, EntityId
  <2>2. QED
    BY <1>1, <2>1 DEF Grown, Ids
<1>5. ASSUME NEW i \in Ids(w) \ {id}
      PROVE  /\ w.entities[i] \in Object \ {object} /\ i \in EntityId
             /\ v.fields[w.entities[i]] = w.fields[w.entities[i]]
             /\ v.id_of[w.entities[i]] = w.id_of[w.entities[i]]
  <2>1. w.entities[i] \in Object /\ i \in EntityId
    <3>1. w.entities \in Seq(Object) /\ Len(w.entities) <= MaxEntityId
      BY <1>1, WorldType DEF Derived
    <3>2. QED
      BY <1>1, <3>1 DEF Ids, EntityId
  <2>2. w.entities[i] # object
    OBVIOUS
  <2>3. QED
    BY <2>1, <2>2 DEF Others
<1>6. ASSUME NEW i \in X \cup {id} PROVE Agrees(v, i, v.entities[i])
  <2>1. CASE i = id
    BY <1>2, <2>1
  <2>2. CASE i # id
    <3> DEFINE o == w.entities[i]
    <3>1. i \in Ids(w) \ {id} /\ i \in X /\ Agrees(w, i, o)
      BY <1>1, <2>2 DEF Consistent
    <3>2. v.entities[i] = o
      BY <1>3, <3>1
    <3>3. i \in EntityId /\ v.fields[o] = w.fields[o] /\ v.id_of[o] = w.id_of[o]
      BY <1>5, <3>1
    <3> HIDE DEF o
    <3>4. /\ \A tag \in Tag : w.places[i][tag] = nil <=> v.places[i][tag] = nil
          /\ v.index[i] = w.index[i]
          /\ i \in v.free <=> i \in w.free
      BY <2>2, <3>3 DEF Others
    <3>5. QED
      BY <3>1, <3>2, <3>3, <3>4 DEF Agrees
  <2>3. QED
    BY <2>1, <2>2
<1>7. v.free \subseteq X \cup {id}
  <2>1. v.free \in SUBSET EntityId /\ w.free \subseteq X
    BY <1>1, WorldType DEF Consistent
  <2>2. \A i \in EntityId \ {id} : i \in v.free <=> i \in w.free
    BY DEF Others
  <2>3. QED
    BY <2>1, <2>2
<1>8. ASSUME NEW i \in Ids(v) PROVE Sane(v, v.entities[i])
  <2>1. CASE i = id
    BY <1>2, <2>1
  <2>2. CASE i # id
    <3> DEFINE o == w.entities[i]
    <3>1. i \in Ids(w) \ {id}
      BY <1>4, <2>2
    <3>2. Sane(w, o)
      BY <3>1 DEF Consistent
    <3>3. v.entities[i] = o /\ v.fields[o] = w.fields[o]
      BY <1>3, <1>5, <3>1
    <3> HIDE DEF o
    <3>4. QED
      BY <3>2, <3>3 DEF Sane, ImageFollows
  <2>3. QED
    BY <2>1, <2>2
<1>9. LiveKept(w, v)
  <2>1. ASSUME NEW i \in Ids(w), Exists(w, i)
        PROVE  i \in Ids(v) /\ v.entities[i] = w.entities[i]
    <3>1. CASE i = id
      BY <1>1, <1>2, <2>1, <3>1
    <3>2. CASE i # id
      BY <1>3, <3>2
    <3>3. QED
      BY <3>1, <3>2
  <2>2. QED
    BY <2>1 DEF LiveKept
<1>10. RestKept(w, v, X, id)
  BY <1>1, <1>3, <1>5 DEF RestKept
<1>11. QED
  BY <1>6, <1>7, <1>8, <1>9, <1>10 DEF Consistent

\* The contents of one table changed and the structures do not know yet.
ContentsChanged(w, v, X, f, id, object) ==
    /\ Derived(v, X) /\ Others(w, v, id, object)
    /\ v.fields = f
    /\ v.entities = w.entities /\ v.free = w.free /\ v.id_of = w.id_of
    /\ v.tagged = w.tagged /\ v.places = w.places /\ v.index = w.index

\* Writing the fields of one table leaves the structures alone.
LEMMA ContentsChangedKeeps ==
    ASSUME NEW w, NEW X, Derived(w, X), NEW id, NEW object,
           NEW f \in [Object -> Fields], \A o \in Object \ {object} : f[o] = w.fields[o],
           NEW v, v = [w EXCEPT !.fields = f]
    PROVE  ContentsChanged(w, v, X, f, id, object)
<1>1. w \in World
  BY DEF Derived
<1>2. /\ v.fields = f
      /\ v.entities = w.entities /\ v.free = w.free /\ v.id_of = w.id_of
      /\ v.tagged = w.tagged /\ v.places = w.places /\ v.index = w.index
      /\ v \in World
  BY <1>1 DEF World
<1>3. \A tag \in Tag : ArrayInverse(v, X, tag)
  BY <1>2, SameArrays DEF Derived
<1>4. Derived(v, X)
  BY <1>2, <1>3 DEF Derived, Ids
<1>5. Others(w, v, id, object)
  BY <1>2 DEF Others, Ids
<1>6. QED
  BY <1>2, <1>4, <1>5 DEF ContentsChanged

\* A call that ends with index leaves all entities consistent.
LEMMA OneIndexed ==
    ASSUME NEW w, NEW X, Consistent(w, X), NEW id \in EntityId, NEW object \in Object,
           \A i \in Ids(w) : w.entities[i] = object => i = id,
           Exists(w, id) => w.entities[id] = object,
           NEW u, Others(w, u, id, object), u.entities = w.entities,
           Indexable(u, X, id, object), Indicated(u, id, object),
           NEW v, v = Index(u, id, object)
    PROVE  /\ Consistent(v, X \cup {id}) /\ Grown(w, v, id)
           /\ LiveKept(w, v) /\ RestKept(w, v, X, id)
<1>1. EntityIndexed(u, v, X \cup {id}, id, object)
  BY IndexKeeps
<1>2. /\ Derived(v, X \cup {id}) /\ Others(u, v, id, object)
      /\ Agrees(v, id, object)
      /\ SameContents(u, v, object)
      /\ ImageFollows(v, object)
      /\ Grown(u, v, id)
  BY <1>1 DEF EntityIndexed
<1>3. Others(w, v, id, object)
  BY <1>2, OthersCompose
<1>4. Grown(w, v, id)
  BY <1>2 DEF Grown
<1>5. Sane(v, object)
  BY <1>2 DEF Sane, SameContents, Indicated
<1>6. QED
  BY <1>2, <1>3, <1>4, <1>5, OneChanged

\* A live entity is known, with its tags and its image.
Live(w, X, id, object) ==
    /\ Known(w, X, id, object) /\ id \in EntityId
    /\ w.fields[object] \in Fields
    /\ w.fields[object].destroyed = FALSE
    /\ Agrees(w, id, object) /\ Sane(w, object)
    /\ \A i \in Ids(w) : w.entities[i] = object => i = id

\* What is known of an entity that is indexed and not destroyed.
LEMMA LiveEntity ==
    ASSUME NEW w, NEW X, Consistent(w, X), NEW id \in X, Exists(w, id),
           NEW object, object = w.entities[id]
    PROVE  Live(w, X, id, object)
<1>1. /\ Derived(w, X) /\ w \in World /\ X \subseteq Ids(w)
      /\ w.entities \in Seq(Object) /\ Len(w.entities) <= MaxEntityId
      /\ w.fields \in [Object -> Fields]
      /\ Agrees(w, id, object) /\ Sane(w, object)
      /\ \A i, j \in Ids(w) : w.entities[i] = w.entities[j] => i = j
  BY WorldType DEF Consistent, Derived
<1>2. id \in Ids(w) /\ id \in EntityId /\ object \in Object
  BY <1>1 DEF Ids, EntityId
<1>3. w.fields[object] \in Fields /\ w.fields[object].destroyed = FALSE
  BY <1>1, <1>2 DEF Exists, Fields
<1>4. w.id_of[object] = id
  BY <1>1, <1>3 DEF Agrees
<1>5. QED
  BY <1>1, <1>2, <1>3, <1>4 DEF Known, Live

\* An id without a live entity that is indexed has no places and no table.
LEMMA DeadId ==
    ASSUME NEW w, NEW X, Consistent(w, X), NEW id \in EntityId,
           id \in X => ~Exists(w, id)
    PROVE  /\ \A tag \in Tag : w.places[id][tag] = nil
           /\ \A o \in Object : w.id_of[o] # id
<1>1. /\ Derived(w, X) /\ w \in World /\ X \subseteq Ids(w)
      /\ \A o \in Object : w.id_of[o] # nil => w.id_of[o] \in X /\ w.entities[w.id_of[o]] = o
      /\ id # nil
  BY DEF Consistent, Derived, EntityId, nil
<1>2. CASE id \notin X
  BY <1>1, <1>2 DEF Derived, ArrayInverse
<1>3. CASE id \in X
  <2> DEFINE o == w.entities[id]
  <2>1. id \in Ids(w) /\ Agrees(w, id, o) /\ Sane(w, o)
    BY <1>1, <1>3 DEF Consistent
  <2>2. w.fields[o].destroyed
    BY <1>3, <2>1 DEF Exists
  <2>3. w.fields[o].tags = {} /\ w.id_of[o] = nil
    BY <2>1, <2>2 DEF Sane, Agrees
  <2>4. \A tag \in Tag : w.places[id][tag] = nil
    BY <2>1, <2>3 DEF Agrees
  <2>5. QED
    BY <1>1, <2>3, <2>4
<1>4. QED
  BY <1>2, <1>3

-----------------------------------------------------------------------------
(***************************************************************************)
(* The inductive invariant: of the entities indexed so far everything      *)
(* agrees, and the tables of all of them are in order.                     *)
(***************************************************************************)
IInv ==
    /\ Consistent(world, IndexedIds)
    /\ indexing \in 1 .. MaxEntityId + 1

\* Between two calls, with the loading over, every id is indexed.
LEMMA AllIndexed ==
    ASSUME IInv, Ready
    PROVE  IndexedIds = Ids(world) /\ world \in World /\ Len(world.entities) \in Nat
           /\ Len(world.entities) <= MaxEntityId /\ indexing = Len(world.entities) + 1
<1>1. /\ world \in World /\ Len(world.entities) <= MaxEntityId
      /\ IndexedIds \subseteq Ids(world) /\ Len(world.entities) \in Nat
  BY WorldType DEF IInv, Consistent, Derived
<1>2. indexing \in Nat /\ indexing >= 1 /\ indexing > Len(world.entities)
  BY DEF IInv, Ready
<1>3. indexing - 1 <= Len(world.entities)
  <2>1. CASE indexing = 1
    BY <1>1, <2>1
  <2>2. CASE indexing > 1
    <3>1. indexing - 1 \in IndexedIds
      BY <1>2, <2>2 DEF IndexedIds
    <3>2. indexing - 1 \in Ids(world)
      BY <1>1, <3>1
    <3>3. QED
      BY <3>2 DEF Ids
  <2>3. QED
    BY <1>2, <2>1, <2>2
<1>4. indexing = Len(world.entities) + 1
  BY <1>1, <1>2, <1>3
<1>5. QED
  BY <1>1, <1>4 DEF IndexedIds, Ids

\* A step concerns one entity, or it forgets all.
OneStepped ==
    \/ IndexedIds' = {}
    \/ \E id \in EntityId :
          IndexedIds' = IndexedIds \cup {id} /\ RestKept(world, world', IndexedIds, id)

Kept == LiveKept(world, world') /\ OneStepped

\* After a call that leaves everything indexed.
LEMMA StillIndexed ==
    ASSUME IInv, Ready, NEW id \in EntityId, NEW v, Consistent(v, Ids(world) \cup {id}),
           Grown(world, v, id), indexing' = Len(v.entities) + 1, world' = v,
           LiveKept(world, v), RestKept(world, v, Ids(world), id)
    PROVE  IInv' /\ Kept
<1>1. Len(world.entities) \in Nat
  BY AllIndexed
<1>2. /\ Derived(v, Ids(world) \cup {id}) /\ Len(v.entities) <= MaxEntityId
      /\ Ids(world) \cup {id} \subseteq Ids(v) /\ Len(v.entities) \in Nat
  BY WorldType DEF Consistent, Derived
<1>3. Ids(v) = Ids(world) \cup {id}
  <2>1. id <= Len(v.entities) /\ id \in Nat \ {0}
    BY <1>2 DEF Ids, EntityId
  <2>2. QED
    BY <1>1, <1>2, <2>1 DEF Grown, Ids
<1>4. IndexedIds' = Ids(v)
  BY <1>2 DEF IndexedIds, Ids
<1>5. IInv'
  BY <1>2, <1>3, <1>4 DEF IInv
<1>6. IndexedIds = Ids(world)
  BY AllIndexed
<1>7. OneStepped
  BY <1>3, <1>4, <1>6 DEF OneStepped
<1>8. QED
  BY <1>5, <1>7 DEF Kept

\* Before the first id is indexed there is nothing to agree with.
LEMMA StartConsistent ==
    ASSUME NEW w, w \in World, Len(w.entities) <= MaxEntityId,
           \A i, j \in Ids(w) : w.entities[i] = w.entities[j] => i = j,
           \A i \in Ids(w) : Sane(w, w.entities[i])
    PROVE  Consistent(NothingIndexed(w.entities, w.fields), {})
<1> DEFINE v == NothingIndexed(w.entities, w.fields)
<1>1. w.entities \in Seq(Object) /\ w.fields \in [Object -> Fields]
  BY WorldType
<1>2. /\ v.entities = w.entities /\ v.fields = w.fields /\ v.free = {}
      /\ v.id_of = [object \in Object |-> nil]
      /\ v.tagged = [tag \in Tag |-> << >>]
      /\ v.places = [id \in EntityId |-> NoPlaces]
      /\ v.index = [id \in EntityId |-> Unindexed]
      /\ v = [entities |-> v.entities, fields |-> v.fields, free |-> v.free,
              id_of |-> v.id_of, tagged |-> v.tagged, places |-> v.places,
              index |-> v.index]
  BY DEF NothingIndexed
<1> HIDE DEF v
<1>3. v \in World
  <2>1. << >> \in Seq(Object)
    OBVIOUS
  <2>2. v.tagged \in [Tag -> Seq(Object)]
    BY <1>2, <2>1
  <2>3. v.places \in [EntityId -> [Tag -> {nil} \cup EntityId]]
    BY <1>2 DEF NoPlaces
  <2>4. v.index \in [EntityId -> Indexed]
    BY <1>2 DEF Unindexed, Indexed
  <2>5. v.id_of \in [Object -> {nil} \cup EntityId] /\ v.free \in SUBSET EntityId
    BY <1>2
  <2>6. QED
    BY <1>1, <1>2, <2>2, <2>3, <2>4, <2>5 DEF World
<1>4. ASSUME NEW tag \in Tag PROVE ArrayInverse(v, {}, tag)
  <2>1. \A i \in EntityId : v.places[i][tag] = nil
    BY <1>2 DEF NoPlaces
  <2>2. Len(v.tagged[tag]) = 0
    BY <1>2
  <2>3. QED
    BY <2>1, <2>2 DEF ArrayInverse
<1>5. \A o \in Object : v.id_of[o] = nil
  BY <1>2
<1>6. Derived(v, {})
  BY <1>2, <1>3, <1>4, <1>5 DEF Derived, Ids
<1>7. \A i \in Ids(v) : Sane(v, v.entities[i])
  BY <1>2 DEF Ids, Sane, ImageFollows
<1>8. Consistent(v, {})
  BY <1>2, <1>6, <1>7 DEF Consistent
<1>9. QED
  BY <1>8 DEF v

-----------------------------------------------------------------------------
(***************************************************************************)
(* Every call keeps the invariant and the ids of the live entities.        *)
(***************************************************************************)
\* add, whichever free id it takes.
LEMMA AddKeeps ==
    ASSUME IInv, NEW object \in Object, NEW tags \in SUBSET Tag, NEW bounds \in Bounds,
           Add(object, tags, bounds)
    PROVE  IInv' /\ Kept
<1> DEFINE X == Ids(world)
           f == [world.fields EXCEPT ![object] = Contents(tags, bounds)]
           u == [world EXCEPT !.fields[object] = Contents(tags, bounds)]
<1>1. /\ Ready /\ Consistent(world, X) /\ world \in World /\ X = IndexedIds
      /\ Len(world.entities) \in Nat
  BY AllIndexed DEF Add, IInv
<1>2. PICK id \in NextIds \cap EntityId : world' = Index(u, id, object)
  BY DEF Add
<1>3. /\ \A i \in X : world.entities[i] # object
      /\ world.id_of[object] = nil
  BY DEF Add, IsFresh
<1>4. u = [world EXCEPT !.fields = f]
  BY <1>1 DEF World
<1>5. f \in [Object -> Fields] /\ (\A o \in Object \ {object} : f[o] = world.fields[o])
      /\ f[object] = Contents(tags, bounds)
  <2>1. world.fields \in [Object -> Fields]
    BY <1>1, WorldType
  <2>2. Contents(tags, bounds) \in Fields
    BY DEF Contents, Fields, Image
  <2>3. QED
    BY <2>1, <2>2
<1> HIDE DEF u, f, X
<1>6. ContentsChanged(world, u, X, f, id, object)
  BY <1>1, <1>4, <1>5, ContentsChangedKeeps DEF Consistent
<1>7. /\ Derived(u, X) /\ Others(world, u, id, object)
      /\ u.fields[object] = Contents(tags, bounds)
      /\ u.entities = world.entities /\ u.id_of = world.id_of /\ u.places = world.places
  BY <1>5, <1>6 DEF ContentsChanged
<1>8. id \in EntityId /\ id <= Len(world.entities) + 1 /\ ~Exists(world, id)
  <2>1. CASE world.free # {}
    <3>1. id \in world.free /\ id \in X
      BY <1>1, <2>1 DEF NextIds, Consistent
    <3>2. world.fields[world.entities[id]].destroyed
      BY <1>1, <3>1 DEF Consistent, Agrees
    <3>3. id <= Len(world.entities)
      BY <3>1 DEF X, Ids
    <3>4. QED
      BY <1>1, <3>2, <3>3 DEF Exists, EntityId
  <2>2. CASE world.free = {}
    <3>1. id = Len(world.entities) + 1
      BY <2>2 DEF NextIds
    <3>2. id \notin Ids(world)
      BY <1>1, <3>1 DEF Ids
    <3>3. QED
      BY <1>1, <3>1, <3>2 DEF Exists
  <2>3. QED
    BY <2>1, <2>2
<1>9. /\ \A tag \in Tag : world.places[id][tag] = nil
      /\ \A o \in Object : world.id_of[o] # id
  BY <1>1, <1>8, DeadId
<1>10. Indexable(u, X, id, object)
  BY <1>3, <1>7, <1>8, <1>9 DEF Indexable, Ids, X
<1>11. Indicated(u, id, object)
  BY <1>7, <1>9 DEF Indicated, Contents
<1>12. /\ Consistent(world', X \cup {id}) /\ Grown(world, world', id)
       /\ LiveKept(world, world') /\ RestKept(world, world', X, id)
  <2>1. \A i \in Ids(world) : world.entities[i] = object => i = id
    BY <1>3 DEF X
  <2>2. QED
    BY <1>1, <1>2, <1>7, <1>8, <1>10, <1>11, <2>1, OneIndexed
<1>13. indexing' = Len(world'.entities) + 1
  BY DEF Add
<1>14. QED
  BY <1>1, <1>12, <1>13, StillIndexed DEF X

\* A call on a live entity that changes its table and ends with index.
LEMMA LiveIndexed ==
    ASSUME IInv, Ready, NEW id \in EntityId, Exists(world, id),
           NEW object, object = world.entities[id],
           NEW f \in [Object -> Fields], \A o \in Object \ {object} : f[o] = world.fields[o],
           NEW u, u = [world EXCEPT !.fields = f], Indicated(u, id, object),
           world' = Index(u, id, object), UNCHANGED indexing
    PROVE  IInv' /\ Kept
<1> DEFINE X == Ids(world)
<1>1. /\ Consistent(world, X) /\ id \in X
      /\ indexing = Len(world.entities) + 1 /\ Len(world.entities) \in Nat
  BY AllIndexed DEF IInv, Exists
<1> HIDE DEF X
<1>2. /\ Known(world, X, id, object)
      /\ \A i \in Ids(world) : world.entities[i] = object => i = id
  <2>1. Live(world, X, id, object)
    BY <1>1, LiveEntity
  <2>2. QED
    BY <2>1 DEF Live
<1>3. /\ Derived(world, X) /\ object \in Object /\ world.id_of[object] = id
      /\ world.entities[id] = object
  BY <1>2 DEF Known
<1>4. ContentsChanged(world, u, X, f, id, object)
  BY <1>3, ContentsChangedKeeps
<1>5. /\ Derived(u, X) /\ Others(world, u, id, object)
      /\ u.entities = world.entities /\ u.id_of = world.id_of
  BY <1>4 DEF ContentsChanged
<1>6. Indexable(u, X, id, object)
  BY <1>1, <1>3, <1>5 DEF Indexable
<1>7. /\ Consistent(world', X \cup {id}) /\ Grown(world, world', id)
      /\ LiveKept(world, world') /\ RestKept(world, world', X, id)
  BY <1>1, <1>2, <1>3, <1>5, <1>6, OneIndexed
<1>8. indexing' = Len(world'.entities) + 1
  <2>1. Len(world'.entities) = Len(world.entities)
    BY <1>1, <1>7 DEF Grown, X, Ids
  <2>2. QED
    BY <1>1, <2>1
<1>9. QED
  BY <1>7, <1>8, StillIndexed DEF X

\* The facts about the table of a live entity that the calls below start from.
LEMMA LiveTable ==
    ASSUME IInv, Ready, NEW id \in EntityId, Exists(world, id),
           NEW object, object = world.entities[id]
    PROVE  /\ world \in World /\ Consistent(world, Ids(world)) /\ id \in Ids(world)
           /\ Known(world, Ids(world), id, object)
           /\ object \in Object
           /\ world.fields \in [Object -> Fields] /\ world.fields[object] \in Fields
           /\ world.fields[object].destroyed = FALSE
           /\ Agrees(world, id, object) /\ Sane(world, object)
           /\ \A i \in Ids(world) : world.entities[i] = object => i = id
<1> DEFINE X == Ids(world)
<1>1. /\ Consistent(world, X) /\ id \in X /\ world \in World
  BY AllIndexed DEF IInv, Exists
<1> HIDE DEF X
<1>2. /\ Known(world, X, id, object)
      /\ world.fields[object] \in Fields
      /\ world.fields[object].destroyed = FALSE
      /\ Agrees(world, id, object) /\ Sane(world, object)
      /\ \A i \in Ids(world) : world.entities[i] = object => i = id
  <2>1. Live(world, X, id, object)
    BY <1>1, LiveEntity
  <2>2. QED
    BY <2>1 DEF Live
<1>3. object \in Object /\ world.fields \in [Object -> Fields]
  BY <1>1, <1>2, WorldType DEF Known
<1>4. QED
  BY <1>1, <1>2, <1>3 DEF X

\* set.
LEMMA SetKeeps ==
    ASSUME IInv, NEW id \in EntityId, NEW tags \in SUBSET Tag, NEW bounds \in Bounds,
           Set(id, tags, bounds)
    PROVE  IInv' /\ Kept
<1> DEFINE object == world.entities[id]
           g == [world.fields[object] EXCEPT !.tags = tags, !.bounds = bounds]
           f == [world.fields EXCEPT ![object] = g]
           u == [world EXCEPT !.fields[object].tags = tags, !.fields[object].bounds = bounds]
<1>1. Ready /\ Exists(world, id) /\ world' = Index(u, id, object) /\ UNCHANGED indexing
  BY DEF Set
<1>2. /\ world \in World /\ object \in Object
      /\ world.fields \in [Object -> Fields] /\ world.fields[object] \in Fields
      /\ world.fields[object].destroyed = FALSE
      /\ Agrees(world, id, object) /\ Sane(world, object)
  BY <1>1, LiveTable
<1>3. /\ f \in [Object -> Fields] /\ \A o \in Object \ {object} : f[o] = world.fields[o]
      /\ f[object] = g
      /\ g.destroyed = FALSE /\ g.tags = tags /\ g.image = world.fields[object].image
  <2>1. g \in Fields /\ g.destroyed = FALSE /\ g.tags = tags
        /\ g.image = world.fields[object].image
    BY <1>2 DEF Fields
  <2> HIDE DEF g, object
  <2>2. QED
    BY <1>2, <2>1
<1>4. u = [world EXCEPT !.fields = f]
  BY <1>2 DEF World
<1> HIDE DEF u, g, f
<1>5. u.fields[object] = g /\ u.places = world.places
  BY <1>2, <1>3, <1>4 DEF World
<1>6. Indicated(u, id, object)
  <2>1. ResourceTag \in Tag
    OBVIOUS
  <2>2. world.places[id][ResourceTag] # nil <=> ResourceTag \in world.fields[object].tags
    BY <1>2, <2>1 DEF Agrees
  <2>3. ResourceTag \in world.fields[object].tags <=> world.fields[object].image = "full"
    BY <1>2 DEF Sane, ImageFollows
  <2>4. QED
    BY <1>3, <1>5, <2>2, <2>3 DEF Indicated
<1> HIDE DEF object
<1>7. object = world.entities[id]
  BY DEF object
<1>8. QED
  BY <1>1, <1>3, <1>4, <1>6, <1>7, LiveIndexed

\* destroy.
LEMMA DestroyKeeps ==
    ASSUME IInv, NEW id \in EntityId, Destroy(id)
    PROVE  IInv' /\ Kept
<1> DEFINE object == world.entities[id]
           f == [world.fields EXCEPT ![object] = Destroyed]
           u == [world EXCEPT !.fields[object] = Destroyed]
<1>1. /\ Ready /\ Exists(world, id) /\ world' = Index(u, id, object) /\ UNCHANGED indexing
      /\ ResourceTag \notin world.fields[object].tags
  BY DEF Destroy
<1>2. /\ world \in World /\ object \in Object
      /\ world.fields \in [Object -> Fields]
      /\ Agrees(world, id, object)
  BY <1>1, LiveTable
<1>3. /\ f \in [Object -> Fields] /\ \A o \in Object \ {object} : f[o] = world.fields[o]
      /\ f[object] = Destroyed
  <2>1. Destroyed \in Fields
    BY DEF Destroyed, Fields, Image
  <2> HIDE DEF object
  <2>2. QED
    BY <1>2, <2>1
<1>4. u = [world EXCEPT !.fields = f]
  BY <1>2 DEF World
<1> HIDE DEF u, f
<1>5. u.fields[object] = Destroyed /\ u.places = world.places
  BY <1>2, <1>3, <1>4 DEF World
<1>6. Indicated(u, id, object)
  <2>1. ResourceTag \in Tag
    OBVIOUS
  <2>2. world.places[id][ResourceTag] = nil
    BY <1>1, <1>2, <2>1 DEF Agrees
  <2>3. Destroyed.tags = {} /\ Destroyed.image = "none"
    BY DEF Destroyed
  <2>4. QED
    BY <1>5, <2>2, <2>3 DEF Indicated
<1> HIDE DEF object
<1>7. object = world.entities[id]
  BY DEF object
<1>8. QED
  BY <1>1, <1>3, <1>4, <1>6, <1>7, LiveIndexed

\* index of one entity, live or destroyed.
LEMMA ReindexKeeps ==
    ASSUME IInv, NEW id \in EntityId, Reindex(id)
    PROVE  IInv' /\ Kept
<1> DEFINE X == Ids(world)
           object == world.entities[id]
<1>1. /\ Ready /\ id \in X /\ world' = Index(world, id, object) /\ UNCHANGED indexing
  BY DEF Reindex
<1>2. /\ Consistent(world, X) /\ world \in World
      /\ indexing = Len(world.entities) + 1 /\ Len(world.entities) \in Nat
  BY <1>1, AllIndexed DEF IInv
<1>3. /\ object \in Object
      /\ world.entities \in Seq(Object)
      /\ \A i \in Ids(world) : world.entities[i] = object => i = id
      /\ Agrees(world, id, object) /\ Sane(world, object)
      /\ Derived(world, X)
  <2>1. world.entities \in Seq(Object)
    BY <1>2, WorldType
  <2>2. object \in Object
    BY <1>1, <2>1 DEF Ids
  <2>3. QED
    BY <1>1, <1>2, <2>1, <2>2 DEF Consistent, Derived
<1>4. Indexable(world, X, id, object)
  <2>1. CASE world.fields[object].destroyed
    <3>1. ~Exists(world, id)
      BY <2>1 DEF Exists
    <3>2. \A tag \in Tag : world.places[id][tag] = nil
      BY <1>2, <3>1, DeadId
    <3>3. \A o \in Object : world.id_of[o] # id
      BY <1>2, <3>1, DeadId
    <3>4. world.id_of[object] = nil
      BY <1>3, <2>1 DEF Agrees
    <3>5. id <= Len(world.entities) + 1
      BY <1>1, <1>2 DEF Ids
    <3>6. QED
      BY <1>3, <3>2, <3>3, <3>4, <3>5 DEF Indexable
  <2>2. CASE ~world.fields[object].destroyed
    <3>1. world.id_of[object] = id
      BY <1>3, <2>2 DEF Agrees
    <3>2. QED
      BY <1>1, <1>3, <3>1 DEF Indexable
  <2>3. QED
    BY <2>1, <2>2
<1>5. Indicated(world, id, object)
  <2>1. ResourceTag \in Tag
    OBVIOUS
  <2>2. world.places[id][ResourceTag] # nil <=> ResourceTag \in world.fields[object].tags
    BY <1>3, <2>1 DEF Agrees
  <2>3. QED
    BY <1>3, <2>2 DEF Indicated, Sane, ImageFollows
<1>6. Others(world, world, id, object)
  BY OthersSame
<1>7. Exists(world, id) => world.entities[id] = object
  OBVIOUS
<1> HIDE DEF X, object
<1>8. /\ Consistent(world', X \cup {id}) /\ Grown(world, world', id)
      /\ LiveKept(world, world') /\ RestKept(world, world', X, id)
  BY <1>1, <1>2, <1>3, <1>4, <1>5, <1>6, <1>7, OneIndexed
<1>9. indexing' = Len(world'.entities) + 1
  <2>1. Len(world'.entities) = Len(world.entities)
    BY <1>1, <1>2, <1>8 DEF Grown, X, Ids
  <2>2. QED
    BY <1>1, <1>2, <2>1
<1>10. QED
  BY <1>1, <1>8, <1>9, StillIndexed DEF X

\* One turn of index_all.
LEMMA IndexNextKeeps ==
    ASSUME IInv, IndexNext
    PROVE  IInv' /\ Kept
<1> DEFINE id == indexing
           X == IndexedIds
           object == world.entities[id]
<1>1. /\ indexing <= Len(world.entities)
      /\ Consistent(world, X) /\ world \in World
      /\ Len(world.entities) \in Nat /\ Len(world.entities) <= MaxEntityId
      /\ indexing \in 1 .. MaxEntityId + 1
      /\ X = 1 .. indexing - 1
  <2>1. /\ Consistent(world, X) /\ world \in World
        /\ Len(world.entities) \in Nat /\ Len(world.entities) <= MaxEntityId
        /\ indexing \in 1 .. MaxEntityId + 1
    BY WorldType DEF IInv, Consistent, Derived
  <2>2. QED
    BY <2>1 DEF IndexNext, Ready, IndexedIds
<1>2. world' = Index(world, id, object) /\ indexing' = id + 1
  BY DEF IndexNext
<1>3. id \in EntityId /\ id \notin X /\ id \in Ids(world)
  BY <1>1 DEF EntityId, Ids
<1>4. /\ object \in Object
      /\ \A i \in Ids(world) : world.entities[i] = object => i = id
      /\ Sane(world, object)
      /\ Derived(world, X)
  <2>1. world.entities \in Seq(Object)
    BY <1>1, WorldType
  <2>2. object \in Object
    BY <1>3, <2>1 DEF Ids
  <2>3. QED
    BY <1>1, <1>3, <2>2 DEF Consistent, Derived
<1>5. /\ \A tag \in Tag : world.places[id][tag] = nil
      /\ \A o \in Object : world.id_of[o] # id
  BY <1>1, <1>3, DeadId
<1>6. world.id_of[object] = nil
  <2>1. world.id_of[object] # nil =>
            world.id_of[object] \in X /\ world.entities[world.id_of[object]] = object
    BY <1>4 DEF Derived
  <2>2. X \subseteq Ids(world)
    BY <1>4 DEF Derived
  <2>3. QED
    BY <1>3, <1>4, <2>1, <2>2
<1>7. Indexable(world, X, id, object)
  <2>1. id <= Len(world.entities) + 1
    BY <1>1
  <2>2. QED
    BY <1>3, <1>4, <1>5, <1>6, <2>1 DEF Indexable
<1>8. Indicated(world, id, object)
  BY <1>4, <1>5 DEF Indicated, Sane, ImageFollows
<1>9. Others(world, world, id, object)
  BY OthersSame
<1>10. Exists(world, id) => world.entities[id] = object
  OBVIOUS
<1>11. X \cup {id} = 1 .. id
  BY <1>1
<1> HIDE DEF X, object, id
<1>12. /\ Consistent(world', X \cup {id}) /\ Grown(world, world', id)
       /\ LiveKept(world, world') /\ RestKept(world, world', X, id)
  BY <1>1, <1>2, <1>3, <1>4, <1>7, <1>8, <1>9, <1>10, OneIndexed
<1>13. IndexedIds' = 1 .. id
  <2>1. indexing' - 1 = id
    BY <1>1, <1>2 DEF id
  <2>2. QED
    BY <2>1 DEF IndexedIds
<1>14. indexing' \in 1 .. MaxEntityId + 1
  BY <1>1, <1>2 DEF id
<1>15. IInv'
  BY <1>11, <1>12, <1>13, <1>14 DEF IInv
<1>16. OneStepped
  BY <1>3, <1>11, <1>12, <1>13 DEF OneStepped, X
<1>17. QED
  BY <1>12, <1>15, <1>16 DEF Kept

\* A world started on the entities of a state.
LEMMA StartKeeps ==
    ASSUME IInv, Start
    PROVE  IInv' /\ Kept
<1>1. world' = NothingIndexed(world.entities, world.fields) /\ indexing' = 1
  BY DEF Start
<1>2. Consistent(world', {})
  <2>1. /\ world \in World /\ Len(world.entities) <= MaxEntityId
        /\ \A i, j \in Ids(world) : world.entities[i] = world.entities[j] => i = j
        /\ \A i \in Ids(world) : Sane(world, world.entities[i])
    BY DEF IInv, Consistent, Derived
  <2>2. QED
    BY <1>1, <2>1, StartConsistent
<1>3. IndexedIds' = {}
  BY <1>1 DEF IndexedIds
<1>4. LiveKept(world, world')
  BY <1>1 DEF LiveKept, NothingIndexed, Ids, Exists
<1>5. QED
  BY <1>1, <1>2, <1>3, <1>4 DEF IInv, Kept, OneStepped

\* A call on a live entity that does not end with index.
LEMMA LiveChanged ==
    ASSUME IInv, Ready, NEW id \in EntityId, Exists(world, id),
           NEW object, object = world.entities[id],
           NEW v, Known(v, Ids(world), id, object), Others(world, v, id, object),
           v.entities = world.entities,
           Placed(v, id, object), IndexAgrees(v, id, object), FreeAgrees(v, id, object),
           v.fields[object].destroyed = FALSE, ImageFollows(v, object),
           world' = v, UNCHANGED indexing
    PROVE  IInv' /\ Kept
<1> DEFINE X == Ids(world)
<1>1. /\ Consistent(world, X) /\ id \in X /\ object \in Object
      /\ \A i \in Ids(world) : world.entities[i] = object => i = id
      /\ Len(world.entities) \in Nat /\ indexing = Len(world.entities) + 1
  BY LiveTable, AllIndexed
<1>2. X \cup {id} = X
  BY <1>1
<1>3. /\ Derived(v, X) /\ v.entities[id] = object /\ v.id_of[object] = id
  BY DEF Known
<1>4. Agrees(v, id, object) /\ Sane(v, object)
  BY <1>3 DEF Agrees, Sane, Placed, IndexAgrees, FreeAgrees
<1>5. Grown(world, v, id)
  BY <1>1 DEF Grown, Ids
<1> HIDE DEF X
<1>6. Exists(world, id) => world.entities[id] = object
  OBVIOUS
<1>7. /\ Consistent(v, X \cup {id})
      /\ LiveKept(world, v) /\ RestKept(world, v, X, id)
  <2>1. Derived(v, X \cup {id})
    BY <1>2, <1>3
  <2>2. QED
    BY <1>1, <1>4, <1>5, <1>6, <2>1, OneChanged
<1>8. indexing' = Len(v.entities) + 1
  BY <1>1
<1>9. QED
  BY <1>5, <1>7, <1>8, StillIndexed DEF X

\* tag.
LEMMA TagEntityKeeps ==
    ASSUME IInv, NEW id \in EntityId, NEW tags \in SUBSET Tag, TagEntity(id, tags)
    PROVE  IInv' /\ Kept
<1> DEFINE X == Ids(world)
           object == world.entities[id]
<1>1. /\ Ready /\ Exists(world, id) /\ UNCHANGED indexing
      /\ world' = Tagged(world, id, object, tags)
  BY DEF TagEntity
<1>2. /\ Known(world, X, id, object)
      /\ world.fields[object] \in Fields /\ world.fields[object].destroyed = FALSE
      /\ Agrees(world, id, object) /\ Sane(world, object)
  BY <1>1, LiveTable
<1>3. /\ \A tag \in Tag : world.places[id][tag] # nil => tag \in world.fields[object].tags
      /\ \A tag \in world.fields[object].tags : world.places[id][tag] # nil \/ tag \in tags
      /\ FreeAgrees(world, id, object) /\ IndexAgrees(world, id, object)
      /\ world.fields[object].destroyed => tags = {}
  <2>1. world.fields[object].tags \in SUBSET Tag
    BY <1>2 DEF Fields
  <2>2. QED
    BY <1>2, <2>1 DEF Agrees, FreeAgrees, IndexAgrees
<1> HIDE DEF X, object
<1>4. TagsTaken(world, world', X, id, object, tags)
  BY <1>1, <1>2, <1>3, TaggedKeeps
<1>5. /\ Known(world', X, id, object) /\ Others(world, world', id, object)
      /\ world'.entities = world.entities
      /\ Placed(world', id, object) /\ FreeAgrees(world', id, object)
      /\ IndexAgrees(world', id, object)
      /\ world'.fields[object].destroyed = FALSE
      /\ world'.fields[object].tags = world.fields[object].tags \cup tags
      /\ world'.fields[object].image =
            IF ResourceTag \in NewTags(world, id, tags) THEN "full"
            ELSE world.fields[object].image
  BY <1>2, <1>3, <1>4 DEF TagsTaken
<1>6. ImageFollows(world', object)
  <2>1. ResourceTag \in NewTags(world, id, tags) <=>
            ResourceTag \in tags /\ world.places[id][ResourceTag] = nil
    BY DEF NewTags
  <2>2. ResourceTag \in Tag
    OBVIOUS
  <2>3. world.places[id][ResourceTag] # nil <=> ResourceTag \in world.fields[object].tags
    BY <1>2, <2>2 DEF Agrees
  <2>4. ResourceTag \in world.fields[object].tags <=> world.fields[object].image = "full"
    BY <1>2 DEF Sane, ImageFollows
  <2>5. QED
    BY <1>5, <2>1, <2>3, <2>4 DEF ImageFollows
<1>7. QED
  BY <1>1, <1>5, <1>6, LiveChanged DEF X, object

\* untag.
LEMMA UntagEntityKeeps ==
    ASSUME IInv, NEW id \in EntityId, NEW tags \in SUBSET Tag, UntagEntity(id, tags)
    PROVE  IInv' /\ Kept
<1> DEFINE X == Ids(world)
           object == world.entities[id]
<1>1. /\ Ready /\ Exists(world, id) /\ UNCHANGED indexing
      /\ world' = Untagged(world, id, object, tags)
  BY DEF UntagEntity
<1>2. /\ Known(world, X, id, object)
      /\ world.fields[object] \in Fields /\ world.fields[object].destroyed = FALSE
      /\ Agrees(world, id, object) /\ Sane(world, object)
  BY <1>1, LiveTable
<1>3. /\ \A tag \in Tag :
            world.places[id][tag] # nil => tag \in world.fields[object].tags \/ tag \in tags
      /\ Placed(world, id, object)
      /\ FreeAgrees(world, id, object) /\ IndexAgrees(world, id, object)
      /\ ResourceTag \in OldTags(world, id, tags) => ~world.fields[object].destroyed
  BY <1>2 DEF Agrees, FreeAgrees, IndexAgrees, Placed
<1> HIDE DEF X, object
<1>4. TagsGiven(world, world', X, id, object, tags)
  BY <1>1, <1>2, <1>3, UntaggedKeeps
<1>5. /\ Known(world', X, id, object) /\ Others(world, world', id, object)
      /\ world'.entities = world.entities
      /\ Placed(world', id, object) /\ FreeAgrees(world', id, object)
      /\ IndexAgrees(world', id, object)
      /\ world'.fields[object].destroyed = FALSE
      /\ world'.fields[object].tags = world.fields[object].tags \ OldTags(world, id, tags)
      /\ world'.fields[object].image =
            IF ResourceTag \in OldTags(world, id, tags) THEN "empty"
            ELSE world.fields[object].image
  BY <1>2, <1>3, <1>4 DEF TagsGiven
<1>6. ImageFollows(world', object)
  <2>1. ResourceTag \in world.fields[object].tags <=> world.fields[object].image = "full"
    BY <1>2 DEF Sane, ImageFollows
  <2>2. QED
    BY <1>5, <2>1 DEF ImageFollows
<1>7. QED
  BY <1>1, <1>5, <1>6, LiveChanged DEF X, object

\* set_bounds, set_pos and set_size.
LEMMA SetBoundsKeeps ==
    ASSUME IInv, NEW id \in EntityId, NEW bounds \in Bounds, SetBounds(id, bounds)
    PROVE  IInv' /\ Kept
<1> DEFINE X == Ids(world)
           object == world.entities[id]
           f == [world.fields EXCEPT ![object].bounds = bounds]
           index == [world.index EXCEPT ![id].bounds = bounds]
           v == world'
<1>1. /\ Ready /\ Exists(world, id) /\ UNCHANGED indexing
      /\ v = [world EXCEPT !.fields[object].bounds = bounds, !.index[id].bounds = bounds]
  BY DEF SetBounds
<1>2. /\ Known(world, X, id, object) /\ object \in Object /\ world \in World
      /\ world.fields \in [Object -> Fields]
      /\ world.fields[object] \in Fields /\ world.fields[object].destroyed = FALSE
      /\ Agrees(world, id, object) /\ Sane(world, object)
  BY <1>1, LiveTable
<1>3. world.index \in [EntityId -> Indexed] /\ world.index[id] \in Indexed
  BY <1>2, WorldType
<1>4. /\ v.entities = world.entities /\ v.free = world.free /\ v.id_of = world.id_of
      /\ v.tagged = world.tagged /\ v.places = world.places
      /\ v.fields = f /\ v.index = index
      /\ v = [world EXCEPT !.fields = v.fields, !.index = v.index]
  BY <1>1, <1>2 DEF World
<1>5. /\ f \in [Object -> Fields] /\ \A o \in Object \ {object} : f[o] = world.fields[o]
      /\ f[object].destroyed = FALSE /\ f[object].tags = world.fields[object].tags
      /\ f[object].image = world.fields[object].image /\ f[object].bounds = bounds
  <2> HIDE DEF object
  <2>1. [world.fields[object] EXCEPT !.bounds = bounds] \in Fields
    BY <1>2 DEF Fields
  <2>2. f[object] = [world.fields[object] EXCEPT !.bounds = bounds]
    BY <1>2
  <2>3. f \in [Object -> Fields] /\ \A o \in Object \ {object} : f[o] = world.fields[o]
    BY <1>2, <2>1
  <2>4. QED
    BY <1>2, <2>2, <2>3 DEF Fields
<1>6. /\ index \in [EntityId -> Indexed] /\ \A i \in EntityId \ {id} : index[i] = world.index[i]
      /\ index[id].bounds = bounds /\ index[id].tags = world.index[id].tags
      /\ index[id] \in Indexed
  <2>1. [world.index[id] EXCEPT !.bounds = bounds] \in Indexed
    BY <1>3 DEF Indexed
  <2>2. index[id] = [world.index[id] EXCEPT !.bounds = bounds]
    BY <1>3
  <2>3. index \in [EntityId -> Indexed] /\ \A i \in EntityId \ {id} : index[i] = world.index[i]
    BY <1>3, <2>1
  <2>4. QED
    BY <1>3, <2>1, <2>2, <2>3 DEF Indexed
<1> HIDE DEF f, index, object, v
<1>7. v \in World
  BY <1>2, <1>4, <1>5, <1>6 DEF World
<1>8. \A tag \in Tag : ArrayInverse(v, X, tag)
  BY <1>2, <1>4, SameArrays DEF Known, Derived
<1>9. Known(v, X, id, object)
  BY <1>2, <1>4, <1>7, <1>8 DEF Known, Derived, Ids
<1>10. Others(world, v, id, object)
  BY <1>4, <1>5, <1>6 DEF Others, Ids
<1>11. Placed(v, id, object) /\ FreeAgrees(v, id, object) /\ ImageFollows(v, object)
       /\ v.fields[object].destroyed = FALSE
  BY <1>2, <1>4, <1>5 DEF Agrees, Placed, FreeAgrees, ImageFollows, Sane
<1>12. IndexAgrees(v, id, object)
  <2>1. world.index[id].tags = world.fields[object].tags \cap IndexedTag
    BY <1>2 DEF Agrees
  <2>2. v.index[id] = [bounds |-> bounds, tags |-> world.fields[object].tags \cap IndexedTag]
    BY <1>4, <1>6, <2>1 DEF Indexed
  <2>3. QED
    BY <1>4, <1>5, <2>2 DEF IndexAgrees
<1>13. world' = v /\ object = world.entities[id]
  BY DEF v, object
<1>14. Ready /\ Exists(world, id) /\ UNCHANGED indexing /\ v.entities = world.entities
       /\ v.fields[object].destroyed = FALSE
  BY <1>1, <1>4, <1>11
<1>15. QED
  BY <1>14, <1>9, <1>10, <1>11, <1>12, <1>13, LiveChanged DEF X

-----------------------------------------------------------------------------
\* Whatever calls are made, in the events of whatever systems, everything indexed
\* agrees with the tables.
LEMMA InitHolds == Init => IInv
<1> SUFFICES ASSUME Init PROVE IInv
  OBVIOUS
<1> DEFINE fields == [object \in Object |-> Destroyed]
<1>1. world = NothingIndexed(<< >>, fields) /\ indexing = 1
  BY DEF Init
<1>2. fields \in [Object -> Fields]
  BY DEF Destroyed, Fields, Image
<1> HIDE DEF fields
<1>3. world.entities = << >> /\ world.fields = fields /\ Len(<< >>) = 0
  BY <1>1 DEF NothingIndexed
<1>4. world \in World
  <2>1. << >> \in Seq(Object)
    OBVIOUS
  <2>2. [tag \in Tag |-> << >>] \in [Tag -> Seq(Object)]
    BY <2>1
  <2>3. [id \in EntityId |-> NoPlaces] \in [EntityId -> [Tag -> {nil} \cup EntityId]]
    BY DEF NoPlaces
  <2>4. [id \in EntityId |-> Unindexed] \in [EntityId -> Indexed]
    BY DEF Unindexed, Indexed
  <2>5. [object \in Object |-> nil] \in [Object -> {nil} \cup EntityId]
    OBVIOUS
  <2>6. QED
    BY <1>1, <1>2, <2>1, <2>2, <2>3, <2>4, <2>5 DEF World, NothingIndexed
<1>5. Consistent(NothingIndexed(world.entities, world.fields), {})
  BY <1>3, <1>4, StartConsistent DEF Ids
<1>6. IndexedIds = {}
  BY <1>1 DEF IndexedIds
<1>7. QED
  BY <1>1, <1>3, <1>5, <1>6 DEF IInv

\* A step of the world keeps the invariant, and keeps live entities live.
LEMMA StepKeeps ==
    ASSUME IInv, [Next]_vars
    PROVE  IInv' /\ LiveKept(world, world') /\ (Kept \/ UNCHANGED vars)
<1>1. ASSUME NEW object \in Object, NEW tags \in SUBSET Tag, NEW bounds \in Bounds,
             Add(object, tags, bounds)
      PROVE  IInv' /\ Kept
  BY <1>1, AddKeeps
<1>2. ASSUME NEW id \in EntityId, NEW tags \in SUBSET Tag, NEW bounds \in Bounds,
             Set(id, tags, bounds)
      PROVE  IInv' /\ Kept
  BY <1>2, SetKeeps
<1>3. ASSUME NEW id \in EntityId, Destroy(id) PROVE IInv' /\ Kept
  BY <1>3, DestroyKeeps
<1>4. ASSUME NEW id \in EntityId, NEW tags \in SUBSET Tag, TagEntity(id, tags)
      PROVE  IInv' /\ Kept
  BY <1>4, TagEntityKeeps
<1>5. ASSUME NEW id \in EntityId, NEW tags \in SUBSET Tag, UntagEntity(id, tags)
      PROVE  IInv' /\ Kept
  BY <1>5, UntagEntityKeeps
<1>6. ASSUME NEW id \in EntityId, NEW bounds \in Bounds, SetBounds(id, bounds)
      PROVE  IInv' /\ Kept
  BY <1>6, SetBoundsKeeps
<1>7. ASSUME NEW id \in EntityId, Reindex(id) PROVE IInv' /\ Kept
  BY <1>7, ReindexKeeps
<1>8. ASSUME Start PROVE IInv' /\ Kept
  BY <1>8, StartKeeps
<1>9. ASSUME IndexNext PROVE IInv' /\ Kept
  BY <1>9, IndexNextKeeps
<1>10. CASE UNCHANGED vars
  <2>1. UNCHANGED <<world, indexing>>
    BY <1>10 DEF vars
  <2>2. IInv'
    BY <2>1 DEF IInv, IndexedIds
  <2>3. LiveKept(world, world')
    BY <2>1 DEF LiveKept, Ids
  <2>4. QED
    BY <1>10, <2>2, <2>3
<1>11. CASE Next
  <2>1. IInv' /\ Kept
    BY <1>1, <1>2, <1>3, <1>4, <1>5, <1>6, <1>7, <1>8, <1>9, <1>11 DEF Next
  <2>2. QED
    BY <2>1 DEF Kept
<1>12. QED
  BY <1>10, <1>11

\* The inductive invariant holds in every reachable state.
THEOREM Invariance == Spec => []IInv
<1>1. Init => IInv
  BY InitHolds
<1>2. IInv /\ [Next]_vars => IInv'
  BY StepKeeps
<1>3. QED
  BY <1>1, <1>2, PTL DEF Spec

\* No call of entity.lua leaves a structure with a value of another kind, an id
\* out of range or more entities than ids.
THEOREM TypeCorrect == Spec => []TypeOK
<1>1. IInv => TypeOK
  BY DEF IInv, Consistent, Derived, TypeOK
<1>2. QED
  BY <1>1, Invariance, PTL

\* The indexed entities and their tables, as the properties below use them.
LEMMA IndexedEntity ==
    ASSUME IInv, NEW id \in IndexedIds
    PROVE  /\ id \in Ids(world) /\ id \in EntityId
           /\ world.entities[id] \in Object
           /\ Agrees(world, id, world.entities[id])
           /\ Sane(world, world.entities[id])
<1>1. /\ world \in World /\ IndexedIds \subseteq Ids(world)
      /\ world.entities \in Seq(Object) /\ Len(world.entities) <= MaxEntityId
      /\ \A i \in IndexedIds : Agrees(world, i, world.entities[i])
      /\ \A i \in Ids(world) : Sane(world, world.entities[i])
  BY WorldType DEF IInv, Consistent, Derived
<1>2. id \in Ids(world) /\ id \in EntityId
  BY <1>1 DEF Ids, EntityId
<1>3. world.entities[id] \in Object
  BY <1>1, <1>2 DEF Ids
<1>4. QED
  BY <1>1, <1>2, <1>3

\* The arrays of the tags and the places in them stay inverse to each other, so
\* that untag always takes out the table it is asked to.
THEOREM PlacesAreInverse == Spec => []PlacesInverse
<1>1. IInv => PlacesInverse
  <2> SUFFICES ASSUME IInv, NEW tag \in Tag
               PROVE  /\ \A id \in EntityId :
                            LET k == world.places[id][tag]
                            IN  k # nil => /\ id \in IndexedIds
                                           /\ k <= Len(world.tagged[tag])
                                           /\ world.tagged[tag][k] = world.entities[id]
                      /\ \A k \in 1 .. Len(world.tagged[tag]) :
                            LET id == world.id_of[world.tagged[tag][k]]
                            IN  id # nil /\ world.places[id][tag] = k
    BY DEF PlacesInverse
  <2>1. ArrayInverse(world, IndexedIds, tag)
    BY DEF IInv, Consistent, Derived
  <2>2. QED
    BY <2>1 DEF ArrayInverse
<1>2. QED
  BY <1>1, Invariance, PTL

\* The invariant implies that the arrays of tags are exact.
LEMMA ExactArrays == IInv => TagArraysExact
<1> SUFFICES ASSUME IInv, NEW tag \in Tag
             PROVE  LET array == world.tagged[tag]
                    IN  /\ {array[k] : k \in 1 .. Len(array)} = ObjectsTagged(tag)
                        /\ \A j, k \in 1 .. Len(array) : array[j] = array[k] => j = k
  BY DEF TagArraysExact
<1> DEFINE a == world.tagged[tag]
           n == Len(a)
<1>1. /\ \A i \in EntityId : world.places[i][tag] # nil =>
            /\ i \in IndexedIds /\ world.places[i][tag] \in 1 .. n
            /\ a[world.places[i][tag]] = world.entities[i]
      /\ \A k \in 1 .. n :
            /\ world.id_of[a[k]] # nil
            /\ world.places[world.id_of[a[k]]][tag] = k
  BY DEF IInv, Consistent, Derived, ArrayInverse
<1>2. \A k \in 1 .. n : a[k] \in Object /\ k # nil
  <2>1. a \in Seq(Object)
    BY WorldType DEF IInv, Consistent, Derived
  <2>2. QED
    BY <2>1 DEF nil
<1>3. \A o \in Object : world.id_of[o] # nil =>
          world.id_of[o] \in IndexedIds /\ world.entities[world.id_of[o]] = o
  BY DEF IInv, Consistent, Derived
<1> HIDE DEF a, n
<1>4. ASSUME NEW k \in 1 .. n PROVE a[k] \in ObjectsTagged(tag)
  <2> DEFINE i == world.id_of[a[k]]
  <2>1. i \in IndexedIds /\ world.entities[i] = a[k] /\ world.places[i][tag] = k
    BY <1>1, <1>2, <1>3
  <2>2. tag \in world.fields[world.entities[i]].tags
    BY <1>2, <2>1, IndexedEntity DEF Agrees
  <2> HIDE DEF i
  <2>3. QED
    BY <2>1, <2>2 DEF ObjectsTagged
<1>5. ASSUME NEW o \in ObjectsTagged(tag) PROVE o \in {a[k] : k \in 1 .. n}
  <2>1. PICK i \in IndexedIds :
           o = world.entities[i] /\ tag \in world.fields[world.entities[i]].tags
    BY DEF ObjectsTagged
  <2>2. i \in EntityId /\ world.places[i][tag] # nil
    BY <2>1, IndexedEntity DEF Agrees
  <2>3. QED
    BY <1>1, <2>1, <2>2
<1>6. \A j, k \in 1 .. n : a[j] = a[k] => j = k
  BY <1>1
<1>7. {a[k] : k \in 1 .. n} = ObjectsTagged(tag)
  BY <1>4, <1>5
<1>8. QED
  BY <1>6, <1>7 DEF a, n

\* get_all_tagged lists exactly the entities with the tag, each once.
THEOREM TagArraysAreExact == Spec => []TagArraysExact
BY ExactArrays, Invariance, PTL

\* The invariant implies that the ids agree.
LEMMA AgreeingIds == IInv => IdsAgree
<1> SUFFICES ASSUME IInv PROVE IdsAgree
  OBVIOUS
<1>1. /\ \A i, j \in Ids(world) : world.entities[i] = world.entities[j] => i = j
      /\ \A o \in Object : world.id_of[o] # nil =>
            world.id_of[o] \in IndexedIds /\ world.entities[world.id_of[o]] = o
      /\ world.free \subseteq IndexedIds
  BY DEF IInv, Consistent, Derived
<1>2. ASSUME NEW o \in Object, NEW id \in EntityId
      PROVE  world.id_of[o] = id <=>
                id \in IndexedIds /\ Exists(world, id) /\ world.entities[id] = o
  <2>1. id # nil
    BY DEF EntityId, nil
  <2>2. ASSUME world.id_of[o] = id
        PROVE  id \in IndexedIds /\ Exists(world, id) /\ world.entities[id] = o
    <3>1. id \in IndexedIds /\ world.entities[id] = o
      BY <1>1, <2>1, <2>2
    <3>2. id \in Ids(world) /\ ~world.fields[o].destroyed
      <4>1. id \in Ids(world) /\ Agrees(world, id, o)
        BY <3>1, IndexedEntity
      <4>2. QED
        BY <2>1, <2>2, <4>1 DEF Agrees
    <3>3. QED
      BY <3>1, <3>2 DEF Exists
  <2>3. ASSUME id \in IndexedIds, Exists(world, id), world.entities[id] = o
        PROVE  world.id_of[o] = id
    BY <2>3, IndexedEntity DEF Agrees, Exists
  <2>4. QED
    BY <2>2, <2>3
<1>3. ASSUME NEW id \in IndexedIds
      PROVE  id \in world.free <=> ~Exists(world, id)
  BY IndexedEntity DEF Agrees, Exists
<1>4. world.free = {id \in IndexedIds : ~Exists(world, id)}
  BY <1>1, <1>3
<1>5. QED
  BY <1>1, <1>2, <1>4 DEF IdsAgree

\* No table has two ids, find_id finds what find finds, and exactly the ids of
\* destroyed entities are free.
THEOREM IdsDoAgree == Spec => []IdsAgree
BY AgreeingIds, Invariance, PTL

\* The spatial index, read by id, has the bounds and tags that find sees.
THEOREM IndexDoesFollow == Spec => []IndexFollowsEntities
<1>1. IInv => IndexFollowsEntities
  BY IndexedEntity DEF IndexFollowsEntities, Agrees
<1>2. QED
  BY <1>1, Invariance, PTL

\* A puddle or a tree looks full exactly while it has its resource.
THEOREM ImagesDoFollow == Spec => []ImagesFollowTags
<1>1. IInv => ImagesFollowTags
  BY IndexedEntity DEF ImagesFollowTags, Sane, ImageFollows
<1>2. QED
  BY <1>1, Invariance, PTL

\* No call gives the id of a live entity to another table.
THEOREM LiveEntitiesDoStay == Spec => LiveEntitiesStay
<1>1. IInv /\ [Next]_vars =>
        [\A id \in Ids(world) : Exists(world, id) =>
            id \in Ids(world') /\ world'.entities[id] = world.entities[id]]_vars
  BY StepKeeps DEF Kept, LiveKept
<1>2. QED
  BY <1>1, Invariance, PTL DEF Spec, LiveEntitiesStay

-----------------------------------------------------------------------------
(***************************************************************************)
(* The world implements the table of EntityTable.                          *)
(***************************************************************************)
\* What is seen of the entities X, read off their Lua tables.
RowOf(w, id) == [tags |-> w.fields[w.entities[id]].tags,
                 bounds |-> w.fields[w.entities[id]].bounds]
Seen(w, X) == [id \in {i \in X : Exists(w, i)} |-> RowOf(w, id)]

\* The structures show what is in the Lua tables.
LEMMA TableSeen == IInv => Table = Seen(world, IndexedIds)
<1> SUFFICES ASSUME IInv PROVE Table = Seen(world, IndexedIds)
  OBVIOUS
<1>1. \A id \in EntityId, o \in Object : world.id_of[o] = id <=>
          id \in IndexedIds /\ Exists(world, id) /\ world.entities[id] = o
  BY AgreeingIds DEF IdsAgree
<1>2. {i \in EntityId : \E o \in Object : world.id_of[o] = i}
        = {i \in IndexedIds : Exists(world, i)}
  <2>1. \A i \in IndexedIds : i \in EntityId /\ world.entities[i] \in Object
    BY IndexedEntity
  <2>2. QED
    BY <1>1, <2>1
<1>3. ASSUME NEW id \in IndexedIds, Exists(world, id)
      PROVE  [tags |-> {tag \in Tag : \E k \in 1 .. Len(world.tagged[tag]) :
                                         world.tagged[tag][k] = world.entities[id]},
              bounds |-> world.index[id].bounds] = RowOf(world, id)
  <2> DEFINE o == world.entities[id]
  <2>1. /\ id \in Ids(world) /\ id \in EntityId /\ o \in Object
        /\ Agrees(world, id, o)
        /\ world.fields[o].tags \in SUBSET Tag
    <3>1. world.fields \in [Object -> Fields]
      BY WorldType DEF IInv, Consistent, Derived
    <3>2. QED
      BY <3>1, IndexedEntity DEF Fields
  <2>2. world.index[id].bounds = world.fields[o].bounds
    BY <2>1 DEF Agrees
  <2>3. ASSUME NEW tag \in Tag
        PROVE  (\E k \in 1 .. Len(world.tagged[tag]) : world.tagged[tag][k] = o)
                  <=> tag \in world.fields[o].tags
    <3>1. {world.tagged[tag][k] : k \in 1 .. Len(world.tagged[tag])} = ObjectsTagged(tag)
      BY ExactArrays DEF TagArraysExact
    <3>2. o \in ObjectsTagged(tag) <=> tag \in world.fields[o].tags
      BY DEF ObjectsTagged
    <3>3. QED
      BY <3>1, <3>2
  <2>4. {tag \in Tag : \E k \in 1 .. Len(world.tagged[tag]) : world.tagged[tag][k] = o}
          = world.fields[o].tags
    BY <2>1, <2>3
  <2>5. QED
    BY <2>2, <2>4 DEF RowOf
<1>4. QED
  BY <1>2, <1>3 DEF Table, Seen

\* What the index shows of an entity is a row of the abstract table.
LEMMA SeenType ==
    ASSUME NEW w, NEW X, Consistent(w, X)
    PROVE  \A i \in X : i \in EntityId /\ i \in Ids(w) /\ RowOf(w, i) \in Row
<1>1. /\ w.entities \in Seq(Object) /\ Len(w.entities) <= MaxEntityId
      /\ w.fields \in [Object -> Fields] /\ X \subseteq Ids(w)
  BY WorldType DEF Consistent, Derived
<1>2. \A i \in X : i \in EntityId /\ i \in Ids(w) /\ w.entities[i] \in Object
  BY <1>1 DEF Ids, EntityId
<1>3. \A o \in Object : w.fields[o].tags \in SUBSET Tag /\ w.fields[o].bounds \in Bounds
  BY <1>1 DEF Fields
<1>4. QED
  BY <1>2, <1>3 DEF RowOf, Row

\* A step that concerns one entity puts its row or drops it.
LEMMA OneRowChanged ==
    ASSUME NEW w, NEW X, Consistent(w, X), NEW id \in EntityId,
           NEW v, Consistent(v, X \cup {id}), RestKept(w, v, X, id)
    PROVE  \/ /\ Seen(v, X \cup {id}) = [i \in DOMAIN Seen(w, X) \cup {id} |->
                     IF i = id THEN RowOf(v, id) ELSE Seen(w, X)[i]]
              /\ RowOf(v, id) \in Row
           \/ Seen(v, X \cup {id}) = [i \in DOMAIN Seen(w, X) \ {id} |-> Seen(w, X)[i]]
<1> DEFINE S == {i \in X : Exists(w, i)}
           T == {i \in X \cup {id} : Exists(v, i)}
           s == Seen(w, X)
<1>1. Seen(v, X \cup {id}) = [i \in T |-> RowOf(v, i)]
  BY DEF Seen
<1>2. s = [i \in S |-> RowOf(w, i)]
  BY DEF Seen
<1>3. \A i \in X \ {id} : i \in Ids(w)
  BY SeenType
<1>4. \A i \in X \ {id} : RowOf(v, i) = RowOf(w, i) /\ (Exists(v, i) <=> Exists(w, i))
  BY <1>3 DEF RestKept, RowOf, Exists
<1>5. RowOf(v, id) \in Row
  BY SeenType
<1>6. CASE Exists(v, id)
  <2>1. T = S \cup {id}
    BY <1>4, <1>6
  <2>2. \A i \in T : RowOf(v, i) = IF i = id THEN RowOf(v, id) ELSE s[i]
    BY <1>2, <1>4
  <2> HIDE DEF S, T, s
  <2>3. Seen(v, X \cup {id}) = [i \in T |-> IF i = id THEN RowOf(v, id) ELSE s[i]]
    BY <1>1, <2>2
  <2>4. DOMAIN s = S
    BY <1>2
  <2>5. QED
    BY <1>5, <2>1, <2>3, <2>4 DEF s
<1>7. CASE ~Exists(v, id)
  <2>1. T = S \ {id}
    BY <1>4, <1>7
  <2>2. \A i \in T : RowOf(v, i) = s[i]
    BY <1>2, <1>4, <1>7
  <2> HIDE DEF S, T, s
  <2>3. Seen(v, X \cup {id}) = [i \in T |-> s[i]]
    BY <1>1, <2>2
  <2>4. DOMAIN s = S
    BY <1>2
  <2>5. QED
    BY <2>1, <2>3, <2>4 DEF s
<1>8. QED
  BY <1>6, <1>7

\* A step of the world is a step of the table, or is not seen.
LEMMA TableSteps ==
    ASSUME IInv, [Next]_vars,
           Table = Seen(world, IndexedIds), Table' = Seen(world', IndexedIds')
    PROVE  [EntityTable!TableNext]_Table
<1>1. CASE UNCHANGED vars
  BY <1>1 DEF vars, IndexedIds
<1>2. CASE IndexedIds' = {}
  <2>1. Seen(world', {}) = [i \in {} |-> i]
    BY DEF Seen
  <2>2. EntityTable!Forget
    BY <1>2, <2>1 DEF EntityTable!Forget
  <2>3. QED
    BY <2>2 DEF EntityTable!TableNext
<1>3. ASSUME NEW id \in EntityId, IndexedIds' = IndexedIds \cup {id},
             RestKept(world, world', IndexedIds, id)
      PROVE  EntityTable!TableNext
  <2>1. Consistent(world, IndexedIds)
    BY DEF IInv
  <2>2. Consistent(world', IndexedIds \cup {id})
    <3>1. IInv'
      BY StepKeeps
    <3>2. QED
      BY <1>3, <3>1 DEF IInv
  <2>3. \/ /\ Table' = [i \in DOMAIN Table \cup {id} |->
                     IF i = id THEN RowOf(world', id) ELSE Table[i]]
           /\ RowOf(world', id) \in Row
        \/ Table' = [i \in DOMAIN Table \ {id} |-> Table[i]]
    BY <1>3, <2>1, <2>2, OneRowChanged
  <2>4. (\E row \in Row : EntityTable!Put(id, row)) \/ EntityTable!Drop(id)
    BY <2>3 DEF EntityTable!Put, EntityTable!Drop
  <2>5. QED
    BY <2>4 DEF EntityTable!TableNext
<1>4. CASE OneStepped
  BY <1>2, <1>3, <1>4 DEF OneStepped, EntityTable!TableNext
<1>5. QED
  BY <1>1, <1>4, StepKeeps DEF Kept

\* Every call, with the nested calls of its listeners, changes what is seen of one
\* entity only, or the world starts anew.
THEOREM WorldImplementsTable == Spec => ImplementsTable
<1>1. Init => EntityTable!TableInit
  <2> SUFFICES ASSUME Init PROVE EntityTable!TableInit
    OBVIOUS
  <2>1. Table = Seen(world, IndexedIds)
    BY InitHolds, TableSeen
  <2>2. IndexedIds = {}
    BY DEF Init, IndexedIds
  <2>3. Seen(world, {}) = [i \in {} |-> i]
    BY DEF Seen
  <2>4. QED
    BY <2>1, <2>2, <2>3 DEF EntityTable!TableInit
<1>2. IInv /\ [Next]_vars /\ Table = Seen(world, IndexedIds)
         /\ (Table = Seen(world, IndexedIds))' => [EntityTable!TableNext]_Table
  BY TableSteps
<1>3. QED
  BY <1>1, <1>2, TableSeen, Invariance, PTL DEF Spec, ImplementsTable, EntityTable!TableSpec

-----------------------------------------------------------------------------
(***************************************************************************)
(* index changes nothing where nothing changed.                            *)
(***************************************************************************)
LEMMA NoTagsRemoved ==
    ASSUME NEW w \in World, NEW id \in EntityId, NEW object \in Object,
           NEW tags, OldTags(w, id, tags) = {}
    PROVE  WithoutTags(w, id, object, tags) = w
<1> DEFINE v == WithoutTags(w, id, object, tags)
<1>1. TagsRemoved(w, v, id, object, {})
  BY WithoutTagsFields
<1> HIDE DEF v
<1>2. v.tagged = w.tagged
  <2>1. v.tagged = [tag \in Tag |-> w.tagged[tag]]
    BY <1>1 DEF TagsRemoved
  <2>2. QED
    BY <2>1, WorldType
<1>3. v.places = w.places
  <2>1. v.places = [i \in EntityId |-> [tag \in Tag |-> w.places[i][tag]]]
    BY <1>1 DEF TagsRemoved, Replaced
  <2>2. w.places \in [EntityId -> [Tag -> {nil} \cup EntityId]]
    BY WorldType
  <2>3. \A i \in EntityId : w.places[i] = [tag \in Tag |-> w.places[i][tag]]
    BY <2>2
  <2>4. QED
    BY <2>1, <2>2, <2>3
<1>4. v.fields = w.fields
  <2>1. w.fields \in [Object -> Fields] /\ w.fields[object] \in Fields
    BY WorldType
  <2>2. [w.fields[object] EXCEPT !.tags = @ \ {}] = w.fields[object]
    BY <2>1 DEF Fields
  <2>3. v.fields = [w.fields EXCEPT ![object] = [w.fields[object] EXCEPT !.tags = @ \ {}]]
    BY <1>1 DEF TagsRemoved
  <2>4. QED
    BY <2>1, <2>2, <2>3
<1>5. v.index = w.index
  <2>1. w.index \in [EntityId -> Indexed] /\ w.index[id] \in Indexed
    BY WorldType
  <2>2. [w.index[id] EXCEPT !.tags = @ \ {}] = w.index[id]
    BY <2>1 DEF Indexed
  <2>3. v.index = [w.index EXCEPT ![id] = [w.index[id] EXCEPT !.tags = @ \ {}]]
    BY <1>1 DEF TagsRemoved
  <2>4. QED
    BY <2>1, <2>2, <2>3
<1>6. v = w
  BY <1>1, <1>2, <1>3, <1>4, <1>5 DEF TagsRemoved, World
<1>7. QED
  BY <1>6 DEF v

\* WithTags with no new tag changes nothing.
LEMMA NoTagsAdded ==
    ASSUME NEW w \in World, NEW id \in EntityId, NEW object \in Object,
           NEW tags, NewTags(w, id, tags) = {}
    PROVE  WithTags(w, id, object, tags) = w
<1> DEFINE v == WithTags(w, id, object, tags)
<1>1. TagsAdded(w, v, id, object, {})
  BY WithTagsFields
<1> HIDE DEF v
<1>2. v.tagged = w.tagged
  <2>1. v.tagged = [tag \in Tag |-> w.tagged[tag]]
    BY <1>1 DEF TagsAdded
  <2>2. QED
    BY <2>1, WorldType
<1>3. v.places = w.places
  <2>1. v.places = [w.places EXCEPT ![id] = [tag \in Tag |-> w.places[id][tag]]]
    BY <1>1 DEF TagsAdded
  <2>2. w.places \in [EntityId -> [Tag -> {nil} \cup EntityId]]
    BY WorldType
  <2>3. w.places[id] = [tag \in Tag |-> w.places[id][tag]]
    BY <2>2
  <2>4. QED
    BY <2>1, <2>2, <2>3
<1>4. v.fields = w.fields
  <2>1. w.fields \in [Object -> Fields] /\ w.fields[object] \in Fields
    BY WorldType
  <2>2. [w.fields[object] EXCEPT !.tags = @ \cup {}] = w.fields[object]
    BY <2>1 DEF Fields
  <2>3. v.fields = [w.fields EXCEPT ![object] = [w.fields[object] EXCEPT !.tags = @ \cup {}]]
    BY <1>1 DEF TagsAdded
  <2>4. QED
    BY <2>1, <2>2, <2>3
<1>5. v.index = w.index
  <2>1. w.index \in [EntityId -> Indexed] /\ w.index[id] \in Indexed
    BY WorldType
  <2>2. [w.index[id] EXCEPT !.tags = @ \cup ({} \cap IndexedTag)] = w.index[id]
    BY <2>1 DEF Indexed
  <2>3. v.index = [w.index EXCEPT ![id] =
                      [w.index[id] EXCEPT !.tags = @ \cup ({} \cap IndexedTag)]]
    BY <1>1 DEF TagsAdded
  <2>4. QED
    BY <2>1, <2>2, <2>3
<1>6. v = w
  BY <1>1, <1>2, <1>3, <1>4, <1>5 DEF TagsAdded, World
<1>7. QED
  BY <1>6 DEF v

\* Indexing an entity that agrees with its table changes nothing.
LEMMA IndexIdentity ==
    ASSUME NEW w \in World, NEW id \in EntityId, NEW object \in Object,
           id <= Len(w.entities), Agrees(w, id, object), Sane(w, object)
    PROVE  Index(w, id, object) = w
<1> DEFINE r == Registered(w, id, object)
           tags == w.fields[object].tags
           destroyed == w.fields[object].destroyed
<1>1. /\ w.entities \in Seq(Object) /\ w.fields \in [Object -> Fields]
      /\ w.id_of \in [Object -> {nil} \cup EntityId] /\ w.free \in SUBSET EntityId
      /\ w.places \in [EntityId -> [Tag -> {nil} \cup EntityId]]
      /\ w.index \in [EntityId -> Indexed]
      /\ w = [entities |-> w.entities, fields |-> w.fields, free |-> w.free,
              id_of |-> w.id_of, tagged |-> w.tagged, places |-> w.places,
              index |-> w.index]
  BY WorldType DEF World
<1>2. tags \in SUBSET Tag /\ destroyed \in BOOLEAN
  BY <1>1 DEF Fields
<1>3. /\ w.entities[id] = object
      /\ \A tag \in Tag : w.places[id][tag] # nil <=> tag \in tags
      /\ w.index[id] = [bounds |-> w.fields[object].bounds, tags |-> tags \cap IndexedTag]
      /\ id \in w.free <=> destroyed
      /\ w.id_of[object] = IF destroyed THEN nil ELSE id
      /\ destroyed => tags = {}
  BY DEF Agrees, Sane
<1>4. r = [w EXCEPT !.id_of = [w.id_of EXCEPT ![object] = id]]
  <2>1. [w.entities EXCEPT ![id] = object] = w.entities
    BY <1>1, <1>3
  <2>2. (IF destroyed THEN w.free \cup {id} ELSE w.free \ {id}) = w.free
    BY <1>3
  <2>3. r = [w EXCEPT !.entities = [w.entities EXCEPT ![id] = object],
                      !.id_of = [w.id_of EXCEPT ![object] = id],
                      !.free = IF destroyed THEN w.free \cup {id} ELSE w.free \ {id}]
    BY <1>1 DEF Registered
  <2>4. QED
    BY <1>1, <2>1, <2>2, <2>3
<1>5. /\ r.entities = w.entities /\ r.fields = w.fields /\ r.free = w.free
      /\ r.tagged = w.tagged /\ r.places = w.places /\ r.index = w.index
      /\ r.id_of = [w.id_of EXCEPT ![object] = id]
      /\ r \in World
  <2> DEFINE ids == [w.id_of EXCEPT ![object] = id]
  <2>1. ids \in [Object -> {nil} \cup EntityId]
    BY <1>1
  <2> HIDE DEF ids, r
  <2>2. r = [w EXCEPT !.id_of = ids]
    BY <1>4 DEF ids
  <2>3. /\ r.entities = w.entities /\ r.fields = w.fields /\ r.free = w.free
        /\ r.tagged = w.tagged /\ r.places = w.places /\ r.index = w.index
        /\ r.id_of = ids /\ r \in World
    BY <1>1, <2>1, <2>2 DEF World
  <2>4. QED
    BY <2>3 DEF ids
<1>6. Outdated(r, id, object) = {}
  BY <1>3, <1>5 DEF Outdated, OldTags
<1>7. OldTags(r, id, {}) = {} /\ NewTags(r, id, tags) = {}
  BY <1>2, <1>3, <1>5 DEF OldTags, NewTags
<1>8. /\ Untagged(r, id, object, {}) = WithoutTags(r, id, object, {})
      /\ Tagged(r, id, object, tags) = WithTags(r, id, object, tags)
  BY <1>7 DEF Untagged, Tagged
<1>9. /\ WithoutTags(r, id, object, {}) = r
      /\ WithTags(r, id, object, tags) = r
  <2> HIDE DEF r, tags
  <2>1. QED
    BY <1>5, <1>7, NoTagsRemoved, NoTagsAdded
<1>10. Index(w, id, object) = Collided(r, id, object, tags)
  <2>1. r.fields[object].tags = tags
    BY <1>5
  <2>2. Untagged(r, id, object, Outdated(r, id, object)) = r
    BY <1>6, <1>8, <1>9
  <2>3. Index(w, id, object) =
            Collided(Tagged(r, id, object, r.fields[object].tags), id, object,
                     r.fields[object].tags)
    BY <2>2 DEF Index
  <2>4. QED
    BY <1>8, <1>9, <2>1, <2>3
<1>11. Collided(r, id, object, tags) = w
  <2>1. [r.index EXCEPT ![id] = [bounds |-> r.fields[object].bounds,
                                 tags |-> tags \cap IndexedTag]] = w.index
    BY <1>1, <1>3, <1>5
  <2>2. [r.id_of EXCEPT ![object] = IF r.fields[object].destroyed THEN nil ELSE @] = w.id_of
    <3> DEFINE before == w.id_of[object]
    <3>1. (IF r.fields[object].destroyed THEN nil ELSE r.id_of[object]) = before
      BY <1>1, <1>3, <1>5
    <3>2. [r.id_of EXCEPT ![object] = IF r.fields[object].destroyed THEN nil ELSE @]
            = [r.id_of EXCEPT ![object] = before]
      BY <3>1
    <3>3. r.id_of = [w.id_of EXCEPT ![object] = id] /\ before = w.id_of[object]
      BY <1>5
    <3> HIDE DEF before
    <3>4. [[w.id_of EXCEPT ![object] = id] EXCEPT ![object] = before] = w.id_of
      BY <1>1, <3>3
    <3>5. QED
      BY <3>2, <3>3, <3>4
  <2>3. [r.places EXCEPT ![id] = IF r.fields[object].destroyed THEN NoPlaces ELSE @]
          = w.places
    <3>1. destroyed => w.places[id] = NoPlaces
      BY <1>1, <1>3 DEF NoPlaces
    <3>2. QED
      BY <1>1, <1>5, <3>1
  <2>4. Collided(r, id, object, tags) =
            [r EXCEPT !.index = w.index, !.id_of = w.id_of, !.places = w.places]
    BY <1>1, <1>5, <2>1, <2>2, <2>3 DEF Collided
  <2>5. QED
    BY <1>1, <1>4, <1>5, <2>4
<1>12. QED
  BY <1>10, <1>11

\* WorldSys:index may be called from anywhere, for any entity.
THEOREM ReindexDoesNothing == Spec => ReindexChangesNothing
<1>1. ASSUME IInv, NEW id \in EntityId, Reindex(id) PROVE UNCHANGED world
  <2> DEFINE object == world.entities[id]
  <2>1. Ready /\ id \in Ids(world) /\ world' = Index(world, id, object)
    BY <1>1 DEF Reindex
  <2>2. /\ IndexedIds = Ids(world) /\ world \in World /\ Len(world.entities) \in Nat
    BY <1>1, <2>1, AllIndexed
  <2>3. object \in Object /\ Agrees(world, id, object) /\ Sane(world, object)
    BY <1>1, <2>1, <2>2, IndexedEntity
  <2>4. id <= Len(world.entities)
    BY <2>1, <2>2 DEF Ids
  <2> HIDE DEF object
  <2>5. QED
    BY <2>1, <2>2, <2>3, <2>4, IndexIdentity
<1>2. IInv => ((\E id \in EntityId : Reindex(id)) => UNCHANGED world)
  BY <1>1
<1>3. QED
  BY <1>2, Invariance, PTL DEF ReindexChangesNothing
=============================================================================
