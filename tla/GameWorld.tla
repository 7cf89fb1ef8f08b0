----------------------------- MODULE GameWorld -----------------------------
(***************************************************************************)
(* A game, the worlds it makes and the systems of both: the simulations of *)
(* engine/engine/sim.lua, with the listeners that world.lua, client.lua,   *)
(* controller.lua and debug.lua give the game.                             *)
(*                                                                         *)
(* All of it is one thread of calls inside calls: the step of the game     *)
(* calls a listener, which makes a world, which requires systems, whose    *)
(* on_init require others; or which steps the world, whose listeners stop  *)
(* it, stop the game or raise an error.  So the state has the stack of the *)
(* calls under way, and a step is one call up to the next one it makes.    *)
(* An error drops the calls above the listener that broadcast_pcall calls. *)
(***************************************************************************)
EXTENDS Arrays

CONSTANTS
    MaxWorlds,    \* bound on the worlds made in one run of the game
    MaxErrors,    \* bound on the errors raised in it
    MaxInputs,    \* bound on the inputs found changed at once
    WorldSystem,  \* systems of a world
    Roots,        \* those new_world requires, in order
    Requirements, \* what the on_init of each may require, in order
    Handles       \* the systems that handle an event

GameSystem == {"World", "Client", "Controller", "Debug"}
System == WorldSystem \cup GameSystem
Event == {"on_start_begin", "on_start", "on_step_begin", "on_step", "on_step_end",
          "on_draw", "on_world_start", "on_input_set"}

ASSUME BoundsAssumption == MaxWorlds \in Nat \ {0} /\ MaxErrors \in Nat /\ MaxInputs \in Nat
ASSUME SystemsAssumption == WorldSystem \cap GameSystem = {}
ASSUME RootsAssumption == Roots \in Seq(WorldSystem)
ASSUME RequirementsAssumption == Requirements \subseteq [WorldSystem -> Seq(WorldSystem)]
ASSUME HandlesAssumption == Handles \in [Event -> SUBSET System]

Game == 0
WorldId == 1 .. MaxWorlds
SimId == {Game} \cup WorldId
nil == -1

VARIABLES
    requires, \* what the on_init of each system requires
    sims,     \* the game and its worlds
    world,    \* GameSys.world, the world the game steps
    calls,    \* the calls under way, the innermost first
    errors    \* how many were raised

vars == <<requires, sims, world, calls, errors>>

Sim == [status    : {"unmade", "new", "started", "finalized"},
        stopping  : BOOLEAN,
        systems   : SUBSET System,  \* _systems
        listeners : Seq(System)]    \* _event_listeners_ordered

\* A broadcast has the listeners it has yet to call in rest, a requirement and an
\* on_init their system.
Call == [call  : {"run", "start", "step", "finalize", "broadcast",
                  "require", "on_init", "set", "step_world"},
         sim   : SimId,
         event : Event \cup {"none"},
         rest  : Seq(System)]

TypeOK ==
    /\ requires \in Requirements
    /\ sims \in [SimId -> Sim]
    /\ world \in {nil} \cup WorldId
    /\ calls \in Seq(Call)
    /\ errors \in 0 .. MaxErrors

-----------------------------------------------------------------------------
Unmade == [status |-> "unmade", stopping |-> FALSE, systems |-> {}, listeners |-> << >>]
Made == [Unmade EXCEPT !.status = "new"]

Of(call, s) == [call |-> call, sim |-> s, event |-> "none", rest |-> << >>]
With(call, s, system) == [Of(call, s) EXCEPT !.rest = <<system>>]

\* _cache_systems_for_event.  The simulation itself is a listener too, of
\* on_step_begin, where it counts its steps.
Listeners(s, event) ==
    LET systems == sims[s].listeners
    IN  Selected(systems, {k \in 1 .. Len(systems) : systems[k] \in Handles[event]})

Broadcast(s, event) ==
    [call |-> "broadcast", sim |-> s, event |-> event, rest |-> Listeners(s, event)]

Top == Head(calls)
Return == Tail(calls)

\* The call at the top is a broadcast that has a listener left, Listener.
Calling(s, event) == calls # << >> /\ Top.call = "broadcast" /\ Top.sim = s
                     /\ Top.event = event /\ Top.rest # << >>
Listener == Head(Top.rest)

\* The calls once the listener returns.
Heard == <<[Top EXCEPT !.rest = Tail(@)]>> \o Return

At(call) == calls # << >> /\ Top.call = call

\* Catches in the last part of a step only, and nowhere (mutated forms).
CatchesAtEnd(call) == call.call = "broadcast" /\ call.event = "on_step_end"
CatchesNothing(call) == FALSE

\* The events sent with broadcast_pcall, which alone catches: by step and by the
\* controller.  start, set and the drawing use broadcast.
CaughtEvent == {"on_step_begin", "on_step", "on_step_end", "on_input_set"}
Catches(call) == call.call = "broadcast" /\ call.event \in CaughtEvent

\* The calls an error leaves.  The broadcast at the top has not advanced yet.
Unwound ==
    LET stack == IF Top.call = "broadcast" THEN Heard ELSE calls
        catching == {k \in 1 .. Len(stack) : Catches(stack[k])}
    IN  IF catching = {} THEN << >>
        ELSE LET k == CHOOSE k \in catching : \A j \in catching : k <= j
             IN  SubSeq(stack, k, Len(stack))
-----------------------------------------------------------------------------
(***************************************************************************)
(* The life of a simulation, sim.lua.                                      *)
(***************************************************************************)
\* Running that forgets the request (a mutated form).
RunningOn(s) == sims[s].status = "started"

Running(s) == sims[s].status = "started" /\ ~sims[s].stopping

\* Sim:start.  No system handles on_start_end, nor the events of Sim:finalize.
Start ==
    /\ At("start")
    /\ sims' = [sims EXCEPT ![Top.sim].status = "started"]
    /\ calls' = IF sims[Top.sim].status = "new"
                  THEN <<Broadcast(Top.sim, "on_start_begin"),
                         Broadcast(Top.sim, "on_start")>> \o Return
                  ELSE Return
    /\ UNCHANGED <<requires, world, errors>>

\* The loop of Sim:run, which only the game has.
Run ==
    /\ At("run")
    /\ calls' = IF Running(Game) THEN <<Of("step", Game)>> \o calls
                ELSE <<Of("finalize", Game)>> \o Return
    /\ UNCHANGED <<requires, sims, world, errors>>

Step ==
    /\ At("step")
    /\ calls' = <<Broadcast(Top.sim, "on_step_begin"), Broadcast(Top.sim, "on_step"),
                  Broadcast(Top.sim, "on_step_end")>> \o Return
    /\ UNCHANGED <<requires, sims, world, errors>>

Finalize ==
    /\ At("finalize")
    /\ sims' = [sims EXCEPT ![Top.sim].status = "finalized"]
    /\ calls' = Return
    /\ UNCHANGED <<requires, world, errors>>

\* The end of Sim:broadcast and Sim:broadcast_pcall.
EndBroadcast ==
    /\ At("broadcast") /\ Top.rest = << >>
    /\ calls' = Return
    /\ UNCHANGED <<requires, sims, world, errors>>

Requiring(s, systems) == [k \in DOMAIN systems |-> With("require", s, systems[k])]

\* Require that leaves what a system requires for after its on_init (a mutated form).
RequireEagerly ==
    LET system == Head(Top.rest)
    IN  /\ At("require")
        /\ IF system \in sims[Top.sim].systems
             THEN calls' = Return /\ UNCHANGED sims
             ELSE /\ sims' = [sims EXCEPT ![Top.sim].systems = @ \cup {system}]
                  /\ calls' = <<With("on_init", Top.sim, system)>>
                                \o Requiring(Top.sim, requires[system]) \o Return
        /\ UNCHANGED <<requires, world, errors>>

\* Sim:require up to the on_init it calls: the name is registered first.
Require ==
    LET system == Head(Top.rest)
    IN  /\ At("require")
        /\ IF system \in sims[Top.sim].systems
             THEN calls' = Return /\ UNCHANGED sims
             ELSE /\ sims' = [sims EXCEPT ![Top.sim].systems = @ \cup {system}]
                  /\ calls' = Requiring(Top.sim, requires[system])
                                \o <<With("on_init", Top.sim, system)>> \o Return
        /\ UNCHANGED <<requires, world, errors>>

\* Sim:require from there: a listener only now, so dependencies come first.
OnInit ==
    /\ At("on_init")
    /\ sims' = [sims EXCEPT ![Top.sim].listeners = @ \o Top.rest]
    /\ calls' = Return
    /\ UNCHANGED <<requires, world, errors>>
-----------------------------------------------------------------------------
(***************************************************************************)
(* The listeners of the game: world.lua, client.lua, controller.lua and    *)
(* debug.lua.                                                              *)
(***************************************************************************)
Fresh == {w \in WorldId : sims[w].status = "unmade"}

\* GameSys:new_world, and GameSys:set of what it makes.
Build(after) ==
    \E w \in Fresh :
        /\ \A other \in Fresh : w <= other
        /\ sims' = [sims EXCEPT ![w] = Made]
        /\ calls' = Requiring(w, Roots) \o <<Of("set", w)>> \o after

\* Starting that tells the game of the world first (a mutated form).
StartingLast(w) == <<Broadcast(Game, "on_world_start"), Of("start", w)>>

\* world:start and what follows it in set.
Starting(w) == <<Of("start", w), Broadcast(Game, "on_world_start")>>

\* Set that resets last (a mutated form).
SetAndReset ==
    /\ At("set")
    /\ sims' = IF world = nil THEN sims
               ELSE [sims EXCEPT ![world].status = "finalized"]
    /\ world' = nil
    /\ calls' = Starting(Top.sim) \o Return
    /\ UNCHANGED <<requires, errors>>

\* Set without the reset (a mutated form).
SetOnly ==
    /\ At("set")
    /\ world' = Top.sim
    /\ calls' = Starting(Top.sim) \o Return
    /\ UNCHANGED <<requires, sims, errors>>

\* GameSys:set up to world:start, with the reset in it.  No system handles
\* on_world_finalize and on_world_set, nor the events of Sim:finalize; on_world_start,
\* after world:start, is for the controller.
Set ==
    /\ At("set")
    /\ sims' = IF world = nil THEN sims
               ELSE [sims EXCEPT ![world].status = "finalized"]
    /\ world' = Top.sim
    /\ calls' = Starting(Top.sim) \o Return
    /\ UNCHANGED <<requires, errors>>

WorldStarts ==
    /\ Calling(Game, "on_start_begin") /\ Listener = "World"
    /\ Build(Heard)
    /\ UNCHANGED <<requires, world, errors>>

\* Replaceable that overlooks the request (a mutated form).
ReplaceableIfOver == world = nil \/ sims[world].status = "finalized"

Replaceable == world = nil \/ sims[world].stopping \/ sims[world].status = "finalized"

\* GameSys:on_step.
WorldSteps ==
    /\ Calling(Game, "on_step") /\ Listener = "World"
    /\ LET after == <<Of("step_world", Game)>> \o Heard
       IN  IF Replaceable THEN Build(after)
           ELSE calls' = after /\ UNCHANGED sims
    /\ UNCHANGED <<requires, world, errors>>

\* Its last line, which reads self.world again.
StepWorld ==
    /\ At("step_world")
    /\ calls' = <<Of("step", world)>> \o Return
    /\ UNCHANGED <<requires, sims, world, errors>>

\* Client.GameSys:on_step: the window is closed, or the world is drawn.
ClientSteps ==
    /\ Calling(Game, "on_step") /\ Listener = "Client"
    /\ \/ /\ sims' = [sims EXCEPT ![Game].stopping = TRUE]
          /\ calls' = Heard
       \/ /\ calls' = IF world = nil THEN Heard
                      ELSE <<Broadcast(world, "on_draw")>> \o Heard
          /\ UNCHANGED sims
    /\ UNCHANGED <<requires, world, errors>>

\* Debug.GameSys:on_step: nothing, or a world is loaded.
DebugSteps ==
    /\ Calling(Game, "on_step") /\ Listener = "Debug"
    /\ Build(Heard) \/ (calls' = Heard /\ UNCHANGED sims)
    /\ UNCHANGED <<requires, world, errors>>

\* Controller.GameSys:handle_input_changes, at the start of a world and at the
\* beginning of a step of the game: it reads the world of the game once, be it asked
\* to stop or not, and tells it of each input that changed.
ControllerReads ==
    /\ \E event \in {"on_world_start", "on_step_begin"} : Calling(Game, event)
    /\ Listener = "Controller"
    /\ IF world = nil THEN calls' = Heard
       ELSE \E changes \in 0 .. MaxInputs :
                calls' = [k \in 1 .. changes |-> Broadcast(world, "on_input_set")] \o Heard
    /\ UNCHANGED <<requires, sims, world, errors>>
-----------------------------------------------------------------------------
(***************************************************************************)
(* The listeners of a world, as far as the simulations are concerned.      *)
(***************************************************************************)
HeardInWorld == \E w \in WorldId, event \in Event : Calling(w, event)

Quiet ==
    /\ HeardInWorld
    /\ calls' = Heard
    /\ UNCHANGED <<requires, sims, world, errors>>

\* Sim:stop, by "try again".  There must be a world left to replace this one.
StopWorld ==
    /\ Calling(world, "on_step") /\ Fresh # {}
    /\ sims' = [sims EXCEPT ![world].stopping = TRUE]
    /\ calls' = Heard
    /\ UNCHANGED <<requires, world, errors>>

\* Sim:stop of the game, by "quit".
StopGame ==
    /\ Calling(world, "on_step")
    /\ sims' = [sims EXCEPT ![Game].stopping = TRUE]
    /\ calls' = Heard
    /\ UNCHANGED <<requires, world, errors>>

\* An error in a listener of a world, in an on_init, or of a save file that does not
\* parse.  A world it was raised in the making of is garbage.
Raise ==
    /\ errors < MaxErrors
    /\ HeardInWorld \/ At("on_init") \/ (Calling(Game, "on_step") /\ Listener = "Debug")
    /\ errors' = errors + 1
    /\ calls' = Unwound
    /\ sims' = [s \in SimId |->
                    IF sims[s].status = "new" /\ s # world /\ s # Game THEN Unmade ELSE sims[s]]
    /\ UNCHANGED <<requires, world>>
-----------------------------------------------------------------------------
\* main.lua: the systems of the game come in an order pairs leaves open, but for
\* World, which all others require.
GameOrders ==
    {order \in [1 .. 4 -> GameSystem] :
        order[1] = "World" /\ \A j, k \in 1 .. 4 : order[j] = order[k] => j = k}

Init ==
    /\ requires \in Requirements
    /\ \E order \in GameOrders :
          sims = [s \in SimId |->
                    IF s = Game THEN [Made EXCEPT !.systems = GameSystem, !.listeners = order]
                    ELSE Unmade]
    /\ world = nil
    /\ calls = <<Of("start", Game), Of("run", Game)>>
    /\ errors = 0

Next ==
    \/ Start \/ Run \/ Step \/ Finalize \/ EndBroadcast \/ Require \/ OnInit
    \/ Set \/ WorldStarts \/ WorldSteps \/ StepWorld \/ ClientSteps \/ DebugSteps
    \/ ControllerReads \/ Quiet \/ StopWorld \/ StopGame \/ Raise

Spec == Init /\ [][Next]_vars

\* The program runs on while it has something to do; each call returns or raises.
FairSpec == Spec /\ WF_vars(Next)
-----------------------------------------------------------------------------
\* What the functions assert in a build with debug checks, where it would raise an
\* error: sim.lua:117, 188, 213, 240, 241, 263, 264; world.lua:94, 119, 144, 145.
\* Whatever listeners do, none of it happens.
Asserted(call) ==
    CASE call.call = "start" -> sims[call.sim].status # "finalized" /\ ~sims[call.sim].stopping
      [] call.call = "step" -> Running(call.sim)
      [] call.call = "broadcast" -> sims[call.sim].status = "started"
      [] call.call = "require" -> sims[call.sim].status = "new"
      [] call.call = "set" -> /\ sims[Game].status = "started"
                              /\ sims[call.sim].status = "new"
                              /\ world # nil => sims[world].status # "new"
      [] OTHER -> TRUE

AssertionsHold == calls # << >> => Asserted(Top)

\* Whatever a listener does, those after it hear the event in a world that is still
\* the world of the game and was started: none is stepped, drawn or told of an input
\* before its start or after it was replaced.
EventsReachLiveWorlds ==
    \A k \in 1 .. Len(calls) :
        calls[k].call = "broadcast" /\ calls[k].sim # Game =>
            calls[k].sim = world /\ sims[world].status = "started"

\* A set of systems whose requirements are all in it; what a system leads to by
\* requiring, itself included.
Closed(systems) ==
    \A system \in systems : \A k \in 1 .. Len(requires[system]) :
        requires[system][k] \in systems
LeadsTo(a, b) ==
    \A systems \in SUBSET WorldSystem : a \in systems /\ Closed(systems) => b \in systems

\* In a world that started, every system that was required listens, once, and after
\* all it requires, but for those that require it in turn: "register order after init,
\* so dependencies receive messages first".
DependenciesFirst ==
    \A w \in WorldId : sims[w].status = "started" =>
        LET order == sims[w].listeners
        IN  /\ sims[w].systems = {order[k] : k \in 1 .. Len(order)}
            /\ \A j, k \in 1 .. Len(order) :
                  /\ order[j] = order[k] => j = k
                  /\ \/ j < k
                     \/ LeadsTo(order[j], order[k])
                     \/ \A n \in 1 .. Len(requires[order[k]]) : requires[order[k]][n] # order[j]

\* An error in a step costs the listener that raised it its call and no other: what
\* the game and the world have yet to call in the step, they still call, and an error
\* about one input costs none of the others.
ErrorsStayLocal ==
    [][errors' # errors =>
          \A k \in 1 .. Len(calls) :
              calls[k].call = "broadcast" /\ calls[k].event \in CaughtEvent =>
                  LET j == Len(calls') - (Len(calls) - k)
                  IN  /\ j \in 1 .. Len(calls')
                      /\ calls'[j] = IF k = 1 THEN [Top EXCEPT !.rest = Tail(@)]
                                     ELSE calls[k]]_vars

\* A game asked to stop, by its window or by the player, is finalized, whatever raises
\* errors or stops on the way.
GameEnds == sims[Game].stopping ~> sims[Game].status = "finalized"

\* A world asked to stop is finalized and another takes its place, unless the game
\* itself ends; an error while the new one is made only delays it.
StoppedWorldIsReplaced ==
    \A w \in WorldId :
        sims[w].stopping ~> (sims[w].status = "finalized" \/ sims[Game].status = "finalized")

SimulationLife == INSTANCE SimulationLife WITH
    Simulation <- SimId, World <- WorldId, life <- [s \in SimId |-> sims[s].status]

\* Every simulation is started once and finalized once at most, the worlds one after
\* the other.
ImplementsLife == SimulationLife!LifeSpec
=============================================================================
