----------------------------- MODULE MCSurvival -----------------------------
(***************************************************************************)
(* Survival with days of four turns, two of them night, and a player whom  *)
(* three small hurts kill, or two. Rain falls twice, on three fires.       *)
(***************************************************************************)
EXTENDS Survival

HealOrHurt == {1, -1, -2}
=============================================================================
