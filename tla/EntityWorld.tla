---------------------------- MODULE EntityWorld ----------------------------
(***************************************************************************)
(* The entities of a world, engine/engine/entity.lua: Lua tables listed by *)
(* id, and five structures derived from them that every call keeps up to   *)
(* date: the free ids, the id of a table, the tables of each tag, where in *)
(* those a table stands, and the spatial index, here the plain store that  *)
(* EntityIndex was shown to implement.                                     *)
(*                                                                         *)
(* Tagging and untagging broadcast events, and the systems that hear them  *)
(* (ld50/entities/puddle.lua and tree.lua) set the entity again in the     *)
(* middle of the call.  So an operation is a function from the structures  *)
(* before to those after, and Heard is what the listeners do.              *)
(***************************************************************************)
EXTENDS Integers, Sequences, Arrays

CONSTANTS
    MaxEntityId,  \* bound on the ids: the code has none
    Object,       \* Lua tables, by identity
    Tag,          \* tags of entities
    IndexedTag,   \* those given to tag_bounds_index_add
    ResourceTag,  \* the tag puddle.lua or tree.lua listens for
    Bounds,       \* what x, y, width and height can be
    NoBounds      \* those of an entity that sets none of them

ASSUME MaxEntityIdAssumption == MaxEntityId \in Nat \ {0}
ASSUME TagAssumption == IndexedTag \subseteq Tag /\ ResourceTag \in Tag
ASSUME BoundsAssumption == NoBounds \in Bounds

EntityId == 1 .. MaxEntityId

\* A mapping without the key: ids and array positions start at 1.
nil == 0

Image == {"none", "full", "empty"}
Fields == [destroyed : BOOLEAN, tags : SUBSET Tag, bounds : Bounds, image : Image]
Indexed == [bounds : Bounds, tags : SUBSET IndexedTag]

Destroyed == [destroyed |-> TRUE, tags |-> {}, bounds |-> NoBounds, image |-> "none"]

VARIABLES
    world,    \* the entity system of the world
    indexing  \* the id index_all is about to index, past the last when it is done

vars == <<world, indexing>>

World == [
    entities : Seq(Object),                \* state.entities
    fields   : [Object -> Fields],         \* the contents of the tables
    free     : SUBSET EntityId,            \* _entity_ids_free
    id_of    : [Object -> {nil} \cup EntityId],            \* _entity_to_entity_id
    tagged   : [Tag -> Seq(Object)],                       \* _tag_to_entities
    places   : [EntityId -> [Tag -> {nil} \cup EntityId]], \* _entity_id_to_tag_indices
    index    : [EntityId -> Indexed]]                      \* _entity_index

TypeOK ==
    /\ world \in World
    /\ Len(world.entities) <= MaxEntityId
    /\ indexing \in 1 .. MaxEntityId + 1

-----------------------------------------------------------------------------
NoPlaces == [tag \in Tag |-> nil]
Unindexed == [bounds |-> NoBounds, tags |-> {}]

NewTags(w, id, tags) == {tag \in tags : w.places[id][tag] = nil}
OldTags(w, id, tags) == {tag \in tags : w.places[id][tag] # nil}

\* WorldSys:tag up to its broadcast of the tags that were added.
WithTags(w, id, object, tags) ==
    LET added == NewTags(w, id, tags)
    IN  [w EXCEPT
            !.tagged = [tag \in Tag |->
                IF tag \in added THEN Append(w.tagged[tag], object) ELSE w.tagged[tag]],
            !.places[id] = [tag \in Tag |->
                IF tag \in added THEN Len(w.tagged[tag]) + 1 ELSE w.places[id][tag]],
            !.fields[object].tags = @ \cup added,
            !.index[id].tags = @ \cup (added \cap IndexedTag)]

\* Replaced that forgets the table that moved (a mutated form).
Vacated(w, id, removed) ==
    [w.places EXCEPT ![id] = [tag \in Tag |-> IF tag \in removed THEN nil ELSE @[tag]]]

\* The places after untag, where the last table of a tag has the place given up.
Replaced(w, id, removed) ==
    LET moved(tag) == w.id_of[w.tagged[tag][Len(w.tagged[tag])]]
    IN  [i \in EntityId |-> [tag \in Tag |->
            IF tag \notin removed THEN w.places[i][tag]
            ELSE IF i = id THEN nil
            ELSE IF i = moved(tag) THEN w.places[id][tag]
            ELSE w.places[i][tag]]]

\* WorldSys:untag up to its broadcast of the tags that were removed.
WithoutTags(w, id, object, tags) ==
    LET removed == OldTags(w, id, tags)
    IN  [w EXCEPT
            !.tagged = [tag \in Tag |->
                IF tag \in removed THEN SwapPop(w.tagged[tag], w.places[id][tag])
                ELSE w.tagged[tag]],
            !.places = Replaced(w, id, removed),
            !.fields[object].tags = @ \ removed,
            !.index[id].tags = @ \ removed]

\* Registered that leaves a reused id free (a mutated form).
RegisteredStillFree(w, id, object) == [w EXCEPT
    !.entities = IF id <= Len(w.entities) THEN [w.entities EXCEPT ![id] = object]
                 ELSE Append(w.entities, object),
    !.id_of[object] = id,
    !.free = IF w.fields[object].destroyed THEN w.free \cup {id} ELSE w.free]

\* Registered that adds a table again (a mutated form).
RegisteredAgain(w, id, object) ==
    [w EXCEPT !.entities = Append(w.entities, object), !.id_of[object] = id]

\* The part of WorldSys:index before the tags.
Registered(w, id, object) == [w EXCEPT
    !.entities = IF id <= Len(w.entities) THEN [w.entities EXCEPT ![id] = object]
                 ELSE Append(w.entities, object),
    !.id_of[object] = id,
    !.free = IF w.fields[object].destroyed THEN w.free \cup {id} ELSE w.free \ {id}]

\* Collided that keeps the id of a destroyed entity (a mutated form).
CollidedKeepingId(w, id, object, tags) == [w EXCEPT
    !.index[id] = [bounds |-> w.fields[object].bounds, tags |-> tags \cap IndexedTag],
    !.places[id] = IF w.fields[object].destroyed THEN NoPlaces ELSE @]

\* Collided that leaves out the tags (a mutated form).
CollidedUntagged(w, id, object, tags) == [w EXCEPT
    !.index[id] = [bounds |-> w.fields[object].bounds, tags |-> {}],
    !.id_of[object] = IF w.fields[object].destroyed THEN nil ELSE @,
    !.places[id] = IF w.fields[object].destroyed THEN NoPlaces ELSE @]

\* The part after them: the collider is set, a destroyed entity forgotten.
Collided(w, id, object, tags) == [w EXCEPT
    !.index[id] = [bounds |-> w.fields[object].bounds, tags |-> tags \cap IndexedTag],
    !.id_of[object] = IF w.fields[object].destroyed THEN nil ELSE @,
    !.places[id] = IF w.fields[object].destroyed THEN NoPlaces ELSE @]

\* The tags WorldSys:index finds removed from the table of the entity.
Outdated(w, id, object) == OldTags(w, id, Tag) \ w.fields[object].tags

\* WorldSys:index of an entity whose resource tag does not change, so that no
\* listener acts.
Refreshed(w, id, object) ==
    LET registered == Registered(w, id, object)
        untagged == WithoutTags(registered, id, object, Outdated(registered, id, object))
        tags == untagged.fields[object].tags
    IN  Collided(WithTags(untagged, id, object, tags), id, object, tags)

\* Heard that hears only of added tags (a mutated form).
HeardOfAdded(w, id, image) ==
    IF image = "full"
      THEN Refreshed([w EXCEPT !.fields[w.entities[id]].image = image], id, w.entities[id])
      ELSE w

\* What the listeners of puddle.lua and tree.lua do: they set the image, and
\* WorldSys:set indexes the entity again.
Heard(w, id, image) ==
    Refreshed([w EXCEPT !.fields[w.entities[id]].image = image], id, w.entities[id])

\* WorldSys:tag, with what on_entity_tag makes the listeners do.
Tagged(w, id, object, tags) ==
    IF ResourceTag \in NewTags(w, id, tags)
      THEN Heard(WithTags(w, id, object, tags), id, "full")
      ELSE WithTags(w, id, object, tags)

\* WorldSys:untag, with what on_entity_untag makes them do.
Untagged(w, id, object, tags) ==
    IF ResourceTag \in OldTags(w, id, tags)
      THEN Heard(WithoutTags(w, id, object, tags), id, "empty")
      ELSE WithoutTags(w, id, object, tags)

\* WorldSys:index.  The tags to add and to index are computed after the listeners
\* heard of the removed ones.
Index(w, id, object) ==
    LET registered == Registered(w, id, object)
        untagged == Untagged(registered, id, object, Outdated(registered, id, object))
        tags == untagged.fields[object].tags
    IN  Collided(Tagged(untagged, id, object, tags), id, object, tags)

-----------------------------------------------------------------------------
(***************************************************************************)
(* The calls.  Systems make them from their own events, one at a time, and *)
(* none while index_all is under way.                                      *)
(***************************************************************************)
Ids(w) == 1 .. Len(w.entities)

\* WorldSys:find returns something.
Exists(w, id) == id \in Ids(w) /\ ~w.fields[w.entities[id]].destroyed

Ready == indexing > Len(world.entities)

\* A table nobody refers to any more, or a new one.
IsFresh(object) ==
    /\ \A id \in Ids(world) : world.entities[id] # object
    /\ world.id_of[object] = nil

\* next(_entity_ids_free) is any of the free ids.
NextIds == IF world.free # {} THEN world.free ELSE {Len(world.entities) + 1}

Contents(tags, bounds) ==
    [destroyed |-> FALSE, tags |-> tags, bounds |-> bounds, image |-> "none"]

Add(object, tags, bounds) ==
    /\ Ready
    /\ IsFresh(object)
    /\ \E id \in NextIds \cap EntityId :
          world' = Index([world EXCEPT !.fields[object] = Contents(tags, bounds)],
                         id, object)
    /\ indexing' = Len(world'.entities) + 1

\* WorldSys:set, by the tags and bounds that Container.update leaves.
Set(id, tags, bounds) ==
    LET object == world.entities[id]
    IN  /\ Ready /\ Exists(world, id)
        /\ world' = Index([world EXCEPT !.fields[object].tags = tags,
                                        !.fields[object].bounds = bounds],
                          id, object)
        /\ UNCHANGED indexing

\* WorldSys:destroy, as player.lua and fire.lua call it: for shelters and fires.
\* Destroying an entity with the resource tag would make the listener set an entity
\* that find no longer returns, an error.
Destroy(id) ==
    LET object == world.entities[id]
    IN  /\ Ready /\ Exists(world, id)
        /\ ResourceTag \notin world.fields[object].tags
        /\ world' = Index([world EXCEPT !.fields[object] = Destroyed],
                          id, object)
        /\ UNCHANGED indexing

TagEntity(id, tags) ==
    /\ Ready /\ Exists(world, id)
    /\ world' = Tagged(world, id, world.entities[id], tags)
    /\ UNCHANGED indexing

UntagEntity(id, tags) ==
    /\ Ready /\ Exists(world, id)
    /\ world' = Untagged(world, id, world.entities[id], tags)
    /\ UNCHANGED indexing

\* SetBounds without the index (a mutated form).
SetBoundsOnly(id, bounds) ==
    /\ Ready /\ Exists(world, id)
    /\ world' = [world EXCEPT !.fields[world.entities[id]].bounds = bounds]
    /\ UNCHANGED indexing

\* set_bounds, set_pos and set_size.
SetBounds(id, bounds) ==
    /\ Ready /\ Exists(world, id)
    /\ world' = [world EXCEPT !.fields[world.entities[id]].bounds = bounds,
                              !.index[id].bounds = bounds]
    /\ UNCHANGED indexing

\* WorldSys:index(id), of a destroyed entity too.
Reindex(id) ==
    /\ Ready /\ id \in Ids(world)
    /\ world' = Index(world, id, world.entities[id])
    /\ UNCHANGED indexing

-----------------------------------------------------------------------------
(***************************************************************************)
(* A world is started on a state that holds entities: all is derived anew, *)
(* id by id.                                                               *)
(***************************************************************************)
NothingIndexed(entities, fields) == [
    entities |-> entities,
    fields |-> fields,
    free |-> {},
    id_of |-> [object \in Object |-> nil],
    tagged |-> [tag \in Tag |-> << >>],
    places |-> [id \in EntityId |-> NoPlaces],
    index |-> [id \in EntityId |-> Unindexed]]

Start ==
    /\ Ready
    /\ world' = NothingIndexed(world.entities, world.fields)
    /\ indexing' = 1

\* One turn of the loop in WorldSys:index_all.
IndexNext ==
    /\ ~Ready
    /\ world' = Index(world, indexing, world.entities[indexing])
    /\ indexing' = indexing + 1

Init ==
    /\ world = NothingIndexed(<< >>, [object \in Object |-> Destroyed])
    /\ indexing = 1

Next ==
    \/ \E object \in Object, tags \in SUBSET Tag, bounds \in Bounds :
          Add(object, tags, bounds)
    \/ \E id \in EntityId, tags \in SUBSET Tag, bounds \in Bounds : Set(id, tags, bounds)
    \/ \E id \in EntityId : Destroy(id)
    \/ \E id \in EntityId, tags \in SUBSET Tag : TagEntity(id, tags)
    \/ \E id \in EntityId, tags \in SUBSET Tag : UntagEntity(id, tags)
    \/ \E id \in EntityId, bounds \in Bounds : SetBounds(id, bounds)
    \/ \E id \in EntityId : Reindex(id)
    \/ Start
    \/ IndexNext

Spec == Init /\ [][Next]_vars
-----------------------------------------------------------------------------
(***************************************************************************)
(* What the structures say of the entities indexed so far.                 *)
(***************************************************************************)
IndexedIds == 1 .. indexing - 1

ObjectsTagged(tag) ==
    {world.entities[id] : id \in
        {i \in IndexedIds : tag \in world.fields[world.entities[i]].tags}}

\* get_all_tagged lists every live entity with the tag, once, and nothing else,
\* however untag shuffled the array.
TagArraysExact ==
    \A tag \in Tag :
        LET array == world.tagged[tag]
        IN  /\ {array[k] : k \in 1 .. Len(array)} = ObjectsTagged(tag)
            /\ \A j, k \in 1 .. Len(array) : array[j] = array[k] => j = k

\* The places are the inverse of the arrays: untag, which trusts both maps, takes
\* out the right table and notes the new place of the right one.
PlacesInverse ==
    \A tag \in Tag :
        /\ \A id \in EntityId :
              LET k == world.places[id][tag]
              IN  k # nil => /\ id \in IndexedIds
                             /\ k <= Len(world.tagged[tag])
                             /\ world.tagged[tag][k] = world.entities[id]
        /\ \A k \in 1 .. Len(world.tagged[tag]) :
              LET id == world.id_of[world.tagged[tag][k]]
              IN  id # nil /\ world.places[id][tag] = k

\* No table has two ids, find_id and find agree, and exactly the destroyed ids are
\* free, so that add never takes the id of a live entity.
IdsAgree ==
    /\ \A i, j \in Ids(world) : world.entities[i] = world.entities[j] => i = j
    /\ \A object \in Object, id \in EntityId :
          world.id_of[object] = id <=>
              id \in IndexedIds /\ Exists(world, id) /\ world.entities[id] = object
    /\ world.free = {id \in IndexedIds : ~Exists(world, id)}

\* The spatial index has the bounds of every entity and its indexed tags, in the
\* calls that go round WorldSys:index too.  The table: its chunks may hold copies of
\* earlier rows as well (SearchReportsOnlyMatches of EntitySearch).
IndexFollowsEntities ==
    \A id \in IndexedIds :
        LET fields == world.fields[world.entities[id]]
        IN  world.index[id] = [bounds |-> fields.bounds, tags |-> fields.tags \cap IndexedTag]

\* A puddle or a tree looks full exactly while it has its resource, whichever call
\* gave or took the tag.
ImagesFollowTags ==
    \A id \in IndexedIds :
        LET fields == world.fields[world.entities[id]]
        IN  ResourceTag \in fields.tags <=> fields.image = "full"

\* No call gives the id of a live entity to another table.
LiveEntitiesStay ==
    [][\A id \in Ids(world) : Exists(world, id) =>
            id \in Ids(world') /\ world'.entities[id] = world.entities[id]]_vars

\* Indexing an entity that nothing changed changes nothing: index may be called
\* from anywhere, a listener included.
ReindexChangesNothing == [][(\E id \in EntityId : Reindex(id)) => UNCHANGED world]_vars

Row == [tags : SUBSET Tag, bounds : Bounds]

\* The table a user sees: ids from find_id, tags from the arrays, bounds from the
\* spatial index.
Table ==
    [id \in {i \in EntityId : \E object \in Object : world.id_of[object] = i} |->
        [tags |-> {tag \in Tag : \E k \in 1 .. Len(world.tagged[tag]) :
                                    world.tagged[tag][k] = world.entities[id]},
         bounds |-> world.index[id].bounds]]

EntityTable == INSTANCE EntityTable WITH table <- Table

\* Every call, the nested calls of its listeners included, changes what is seen of
\* one entity only.
ImplementsTable == EntityTable!TableSpec
=============================================================================
