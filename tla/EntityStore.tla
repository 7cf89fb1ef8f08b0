---------------------------- MODULE EntityStore ----------------------------
(***************************************************************************)
(* What the entity index promises its callers about the entities it holds, *)
(* with no chunks: a table from ids to entities in which every write takes *)
(* effect whole and at once, ids below a written id exist, and no internal *)
(* check ever fails.                                                       *)
(***************************************************************************)
EXTENDS Integers

CONSTANTS
    EntityId,    \* the ids, an initial segment of the naturals
    Entity,      \* what an id can hold
    Default(_)   \* what an id holds before its first write

VARIABLES
    store,  \* the entities written or created so far
    ok      \* no internal check has failed

Fresh(id) == DOMAIN store \cup 0 .. id

Put(id, entity) ==
    /\ store' = [i \in Fresh(id) |->
                    IF i = id THEN entity
                    ELSE IF i \in DOMAIN store THEN store[i]
                    ELSE Default(i)]
    /\ UNCHANGED ok

Touch(id) ==
    /\ store' = [i \in Fresh(id) |-> IF i \in DOMAIN store THEN store[i] ELSE Default(i)]
    /\ UNCHANGED ok

Clear ==
    /\ store' = [i \in {} |-> Default(i)]
    /\ UNCHANGED ok

StoreInit ==
    /\ store = [i \in {} |-> Default(i)]
    /\ ok = TRUE

StoreNext ==
    \/ \E id \in EntityId, entity \in Entity : Put(id, entity)
    \/ \E id \in EntityId : Touch(id)
    \/ Clear

StoreSpec == StoreInit /\ [][StoreNext]_<<store, ok>>
=============================================================================
