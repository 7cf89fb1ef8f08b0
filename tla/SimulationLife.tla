--------------------------- MODULE SimulationLife ---------------------------
(***************************************************************************)
(* What the life of simulations promises (engine/engine/sim.lua): each is  *)
(* made, started once and finalized once, and of the worlds of a game only *)
(* one is started at a time.  A world whose making failed was never there. *)
(***************************************************************************)
CONSTANTS Simulation, World

VARIABLE life

LifeInit == life \in [Simulation -> {"unmade", "new"}]

Make(s) == life[s] = "unmade" /\ life' = [life EXCEPT ![s] = "new"]

Forget(s) == life[s] = "new" /\ life' = [life EXCEPT ![s] = "unmade"]

Start(s) ==
    /\ life[s] = "new"
    /\ s \in World => \A w \in World : life[w] # "started"
    /\ life' = [life EXCEPT ![s] = "started"]

Finalize(s) == life[s] = "started" /\ life' = [life EXCEPT ![s] = "finalized"]

LifeNext == \E s \in Simulation : Make(s) \/ Forget(s) \/ Start(s) \/ Finalize(s)

LifeSpec == LifeInit /\ [][LifeNext]_life
=============================================================================
