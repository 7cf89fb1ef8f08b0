------------------------------ MODULE Survival ------------------------------
(***************************************************************************)
(* The player, the weather and the fires of LD50: ld50/entities/player.lua,*)
(* weather.lua and fire.lua.  In each step of the world the player's       *)
(* on_step answers a dialog, walks or acts, and the fires' on_step puts    *)
(* out those that are due.  What the player does takes turns; each turn    *)
(* costs or gives health and is broadcast to the weather and the fires,    *)
(* whose answer, rain, is broadcast back within it.                        *)
(*                                                                         *)
(* What is near, what the player carries, and hunger, thirst and           *)
(* temperature decide which answers are offered and what a turn does to    *)
(* the health; here either may be anything.                                *)
(***************************************************************************)
EXTENDS Integers, Sequences, Arrays

CONSTANTS
    TurnsPerDay,  \* turns_per_day
    NightAfter,   \* the part of them that is not night
    FirstRain,    \* rain_start of a new world
    RainLength,   \* rain_length
    RainWait,     \* rain_wait_length
    BurnLength,   \* fire_burn_length
    MaxHealth,    \* level_threshold_max
    LowHealth,    \* level_threshold_low
    Offsets,      \* what a turn may add to the health
    WorkTurns,    \* the turns of work, 5
    BuildTurns,   \* those of building a shelter, 10
    MaxTurn,      \* bound on the turn in which the player begins anything
    MaxDialogs    \* bound on the dialogs one upon the other

ASSUME CalendarAssumption ==
    /\ TurnsPerDay \in Nat \ {0}
    /\ NightAfter \in Nat
    /\ FirstRain \in Nat \ {0} /\ RainWait \in Nat \ {0}
    /\ RainLength \in Nat
    /\ BurnLength \in Nat
ASSUME HealthAssumption ==
    MaxHealth \in Nat \ {0} /\ LowHealth \in 0 .. MaxHealth /\ Offsets \subseteq Int
ASSUME EffortAssumption == WorkTurns \in Nat \ {0} /\ BuildTurns \in Nat \ {0}
ASSUME LimitsAssumption == MaxTurn \in Nat /\ MaxDialogs \in Nat \ {0, 1}

VARIABLES
    turn,         \* turn_id
    health,
    dead,
    dialogs,      \* dialog_stack, the top last
    is_nighttime,
    is_raining,   \* of the weather; player and fires copy it in its broadcast
    rain_start,
    fires,        \* the entities tagged fire, each as the turn it was made in
    phase,        \* where the step is
    turns_left,   \* of the end_turn under way
    recovering,   \* the loop end_turn was called from
    burning,      \* the position of the loop over the fires
    outcome       \* what the player asked of the simulations

vars == <<turn, health, dead, dialogs, is_nighttime, is_raining, rain_start, fires,
          phase, turns_left, recovering, burning, outcome>>

\* "say" stands for all dialogs without choices.
Dialog == {"say", "root", "interact", "make", "again"}

TypeOK ==
    /\ turn \in Nat
    /\ health \in 0 .. MaxHealth
    /\ dead \in BOOLEAN
    /\ dialogs \in Seq(Dialog)
    /\ is_nighttime \in BOOLEAN /\ is_raining \in BOOLEAN
    /\ rain_start \in Nat
    /\ fires \in Seq(Nat)
    /\ phase \in {"choose", "turn", "recover", "fires"}
    /\ turns_left \in Nat
    /\ recovering \in {"none", "rest", "cool_off", "warm_up"}
    /\ burning \in Nat \ {0}
    /\ outcome \in {"playing", "restart", "quit"}

-----------------------------------------------------------------------------
NightAt(t) == t % TurnsPerDay > NightAfter

RainAt(t, start) == start <= t /\ t < start + RainLength

\* push_dialog.  A message beyond the bound is lost.
Pushed(stack, dialog) == IF Len(stack) < MaxDialogs THEN Append(stack, dialog) ELSE stack

PushedIf(condition, stack) == IF condition THEN Pushed(stack, "say") ELSE stack

\* pop_dialog
Popped(stack) == IF stack = << >> THEN stack ELSE SubSeq(stack, 1, Len(stack) - 1)

\* clamped_attr_add without the clamp (a mutated form).
AttrAdd(value, amount) == value + amount

ClampedAttrAdd(value, amount) ==
    IF value + amount < 0 THEN 0
    ELSE IF value + amount > MaxHealth THEN MaxHealth
    ELSE value + amount

\* Dying that leaves the dialogs there are (a mutated form).
DeathOverDialogs(stack) == stack \o <<"again", "say">>

\* What offset_health leaves to answer once it is 0.
DeathDialogs(stack) == <<"again", "say">>

OffsetHealth(stack, after) ==
    IF after = 0 THEN DeathDialogs(stack)
    ELSE PushedIf(health >= LowHealth /\ after < LowHealth, stack)

\* RainStartAfter that moves on at either end of the rain (a mutated form).
RainStartMoved(t, rains) == IF rains # is_raining THEN t + RainWait ELSE rain_start

\* Weather:on_player_end_turn.
RainStartAfter(t, rains) == IF is_raining /\ ~rains THEN t + RainWait ELSE rain_start

\* check_day_night_cycle that only notices the night (a mutated form).
NightFalls(t) == is_nighttime \/ NightAt(t)

NightAfterTurn(t) == NightAt(t)
-----------------------------------------------------------------------------
(***************************************************************************)
(* Player:on_step.                                                         *)
(***************************************************************************)
Choosing == phase = "choose" /\ outcome = "playing"

\* The loop over the fires, from the second one (a mutated form).
SecondFire == 2

FirstFire == 1

\* on_step ends without a turn.
Rests(stack) ==
    /\ dialogs' = stack
    /\ phase' = "fires" /\ burning' = FirstFire
    /\ UNCHANGED <<turn, health, dead, is_nighttime, is_raining, rain_start, fires,
                   turns_left, recovering, outcome>>

\* It calls end_turn.
Acts(count, stack) ==
    /\ turn <= MaxTurn
    /\ dialogs' = stack
    /\ phase' = "turn" /\ turns_left' = count
    /\ UNCHANGED <<turn, health, dead, is_nighttime, is_raining, rain_start,
                   recovering, burning, outcome>>

\* It enters a loop that does.
Recovers(kind) ==
    /\ turn <= MaxTurn
    /\ dialogs' = << >>
    /\ phase' = "recover" /\ recovering' = kind
    /\ UNCHANGED <<turn, health, dead, is_nighttime, is_raining, rain_start, fires,
                   turns_left, burning, outcome>>

\* No key, or one that changes the choice.
Wait == Choosing /\ Rests(dialogs)

Answers(dialog) == Choosing /\ dialogs # << >> /\ dialogs[Len(dialogs)] = dialog

AnswerSay == Answers("say") /\ Rests(Popped(dialogs))

AnswerRoot ==
    /\ Answers("root")
    /\ \E stack \in {Pushed(dialogs, "interact"), Pushed(dialogs, "make"), Popped(dialogs)} :
          Rests(stack)

\* "back", a refusal, wood and rock, or work: water, fruit and scrapping a shelter.
Interact ==
    /\ Answers("interact")
    /\ \/ Rests(Popped(dialogs))
       \/ Rests(Pushed(dialogs, "say"))
       \/ Acts(1, << >>) /\ UNCHANGED fires
       \/ \E stack \in {<< >>, <<"say">>} : Acts(WorkTurns, stack) /\ UNCHANGED fires

\* fire_make, or any refusal of "make".
Make ==
    /\ Answers("make")
    /\ \/ Rests(Popped(dialogs))
       \/ Rests(Pushed(dialogs, "say"))
       \/ /\ Acts(WorkTurns, IF is_raining THEN <<"say", "say">> ELSE <<"say">>)
          /\ fires' = Append(fires, turn)
       \/ Acts(BuildTurns, <<"say">>) /\ UNCHANGED fires

\* rest, cool_off and warm_up where there is shelter.
BeginRecovery ==
    /\ Answers("interact")
    /\ \E kind \in {"rest", "cool_off", "warm_up"} :
          /\ NightAt(turn) <=> kind # "cool_off"
          /\ Recovers(kind)

\* restart and quit.  Neither closes the dialog.
AnswerAgain ==
    /\ Answers("again")
    /\ outcome' \in {"restart", "quit"}
    /\ phase' = "fires" /\ burning' = FirstFire
    /\ UNCHANGED <<turn, health, dead, dialogs, is_nighttime, is_raining, rain_start,
                   fires, turns_left, recovering>>

\* Dismiss that the dead may do too (a mutated form).
DismissAlways ==
    /\ Choosing /\ dialogs # << >>
    /\ \/ Rests(Popped(dialogs))
       \/ Acts(1, Popped(dialogs)) /\ UNCHANGED fires

\* The second button closes a dialog and the player may walk in the same step.
Dismiss ==
    /\ Choosing /\ dialogs # << >> /\ ~dead
    /\ \/ Rests(Popped(dialogs))
       \/ Acts(1, Popped(dialogs)) /\ UNCHANGED fires

\* Without a dialog the player walks, asks for the actions, or both.
Walk ==
    /\ Choosing /\ dialogs = << >>
    /\ \/ Rests(<<"root">>)
       \/ \E stack \in {<< >>, <<"root">>} : Acts(1, stack) /\ UNCHANGED fires
-----------------------------------------------------------------------------
(***************************************************************************)
(* Player:end_turn, a turn at a time.                                      *)
(***************************************************************************)
LastTurn == turns_left = 1

Turn ==
    LET t == turn + 1
        rains == RainAt(t, rain_start)
        night == IF LastTurn THEN NightAfterTurn(t) ELSE is_nighttime
    IN  /\ phase = "turn"
        /\ turn < MaxTurn + BuildTurns + WorkTurns + TurnsPerDay
        /\ turn' = t
        /\ turns_left' = turns_left - 1
        /\ \E offset \in Offsets, warned \in BOOLEAN :
              LET after == ClampedAttrAdd(health, offset)
                  suffered == OffsetHealth(PushedIf(warned, dialogs), after)
                  told == PushedIf(rains # is_raining, suffered)
              IN  /\ health' = after
                  /\ dead' = (dead \/ after = 0)
                  /\ dialogs' = PushedIf(night # is_nighttime, told)
        /\ is_raining' = rains
        /\ rain_start' = RainStartAfter(t, rains)
        /\ is_nighttime' = night
        /\ phase' = IF ~LastTurn THEN "turn"
                    ELSE IF recovering = "none" THEN "fires" ELSE "recover"
        /\ burning' = FirstFire
        /\ UNCHANGED <<fires, recovering, outcome>>

\* The condition of the loop of rest, cool_off and warm_up.  It may get cool or warm
\* enough at any time.
MayGoOn ==
    CASE recovering = "rest" -> is_nighttime
      [] recovering = "cool_off" -> ~NightAt(turn)
      [] OTHER -> NightAt(turn)

Recover ==
    /\ phase = "recover"
    /\ \/ /\ MayGoOn
          /\ phase' = "turn" /\ turns_left' = 1
          /\ UNCHANGED <<recovering, burning>>
       \/ /\ recovering = "rest" => ~MayGoOn
          /\ phase' = "fires" /\ burning' = FirstFire
          /\ recovering' = "none"
          /\ UNCHANGED turns_left
    /\ UNCHANGED <<turn, health, dead, dialogs, is_nighttime, is_raining, rain_start,
                   fires, outcome>>
-----------------------------------------------------------------------------
(***************************************************************************)
(* Fire:on_step, and the end of the step.                                  *)
(***************************************************************************)
Due(made) == is_raining \/ turn - made >= BurnLength

\* A turn of the loop.  Destroying a fire untags it, which moves the last one into
\* its place in the array the loop goes over.
Burn ==
    /\ phase = "fires" /\ burning <= Len(fires)
    /\ fires' = IF Due(fires[burning]) THEN SwapPop(fires, burning) ELSE fires
    /\ burning' = burning + 1
    /\ UNCHANGED <<turn, health, dead, dialogs, is_nighttime, is_raining, rain_start,
                   phase, turns_left, recovering, outcome>>

EndStep ==
    /\ phase = "fires" /\ burning > Len(fires)
    /\ phase' = "choose"
    /\ UNCHANGED <<turn, health, dead, dialogs, is_nighttime, is_raining, rain_start,
                   fires, turns_left, recovering, burning, outcome>>

\* The game replaces a world that was asked to stop.
NewWorld ==
    /\ phase = "choose" /\ outcome = "restart"
    /\ turn' = 0 /\ health' = MaxHealth /\ dead' = FALSE
    /\ dialogs' = <<"say">>
    /\ is_nighttime' = FALSE /\ is_raining' = FALSE /\ rain_start' = FirstRain
    /\ fires' = << >>
    /\ outcome' = "playing"
    /\ UNCHANGED <<phase, turns_left, recovering, burning>>

Init ==
    /\ turn = 0 /\ health = MaxHealth /\ dead = FALSE
    /\ dialogs = <<"say">>
    /\ is_nighttime = FALSE /\ is_raining = FALSE /\ rain_start = FirstRain
    /\ fires = << >>
    /\ phase = "choose" /\ turns_left = 0 /\ recovering = "none" /\ burning = FirstFire
    /\ outcome = "playing"

Next ==
    \/ Wait \/ AnswerSay \/ AnswerRoot \/ Interact \/ Make \/ BeginRecovery
    \/ AnswerAgain \/ Dismiss \/ Walk \/ Turn \/ Recover \/ Burn \/ EndStep \/ NewWorld

Spec == Init /\ [][Next]_vars

\* The game steps the world as long as neither is asked to stop.
FairSpec == Spec /\ WF_vars(Next)
-----------------------------------------------------------------------------
\* Whoever died is asked whether to try again, and nothing else, although the turns
\* still being counted go on to heal, to kill again and to tell of rain and night.
TheDeadAreAsked ==
    dead => /\ Len(dialogs) >= 1
            /\ dialogs[1] = "again"
            /\ \A k \in 2 .. Len(dialogs) : dialogs[k] = "say"

\* Night and rain are those of the turn it is, however many turns an action took and
\* whichever broadcast told of them; the night at the end of end_turn, where the
\* loops that wait for it look.
SkyFollowsTurns ==
    /\ phase # "turn" => (is_nighttime <=> NightAt(turn))
    /\ is_raining <=> RainAt(turn, rain_start)

\* Resting, cooling off and warming up come to an end, dead or alive.
RecoveryEnds == phase = "recover" ~> phase = "fires"

Lit(made) == \E k \in 1 .. Len(fires) : fires[k] = made

\* Every fire in the rain, or older than a fire burns, goes out, although a step does
\* not look at those moved into the places of others; unless the rain or the game ends.
DueFiresGoOut ==
    \A made \in 0 .. MaxTurn :
        (Lit(made) /\ Due(made)) ~> (~Lit(made) \/ ~Due(made) \/ outcome = "quit")
=============================================================================
