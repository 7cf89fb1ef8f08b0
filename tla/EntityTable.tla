---------------------------- MODULE EntityTable ----------------------------
(***************************************************************************)
(* What the entity system of a world promises the systems that use it: a   *)
(* table from the ids of live entities to what queries say of them, where  *)
(* a call changes one entity.                                              *)
(***************************************************************************)
CONSTANTS
    EntityId,  \* the ids
    Row        \* what queries say of an entity

VARIABLE table

Put(id, row) ==
    table' = [i \in DOMAIN table \cup {id} |-> IF i = id THEN row ELSE table[i]]

Drop(id) == table' = [i \in DOMAIN table \ {id} |-> table[i]]

\* A world starts on a saved state, with nothing indexed yet.
Forget == table' = [i \in {} |-> i]

TableInit == table = [i \in {} |-> i]

TableNext ==
    \/ \E id \in EntityId, row \in Row : Put(id, row)
    \/ \E id \in EntityId : Drop(id)
    \/ Forget

TableSpec == TableInit /\ [][TableNext]_table
=============================================================================
