---------------------------- MODULE PictureTable ----------------------------
(***************************************************************************)
(* What a texture atlas promises: a table from region ids to pictures, in  *)
(* which setting or resetting one region leaves every other as it was.     *)
(***************************************************************************)
EXTENDS Integers

CONSTANTS
    RegionId,    \* the ids, an initial segment of the naturals
    Shown,       \* what a region that holds a picture can show
    None         \* what a region shows that holds none

VARIABLE table

Fresh(id) == DOMAIN table \cup 0 .. id

Put(id, shown) ==
    table' = [i \in Fresh(id) |->
                 IF i = id THEN shown ELSE IF i \in DOMAIN table THEN table[i] ELSE None]

TableInit == table = [i \in {} |-> None]

TableNext ==
    \/ \E id \in RegionId, shown \in Shown \cup {None} : Put(id, shown)
    \/ table' = [i \in {} |-> None]

TableSpec == TableInit /\ [][TableNext]_table
=============================================================================
