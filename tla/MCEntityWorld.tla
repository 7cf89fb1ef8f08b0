--------------------------- MODULE MCEntityWorld ---------------------------
(***************************************************************************)
(* EntityWorld with few ids, tables and tags.  One table more than ids is  *)
(* enough: a table is given up when its id is taken again.                 *)
(***************************************************************************)
EXTENDS EntityWorld, TLC

TableSymmetry == Permutations(Object)
=============================================================================
