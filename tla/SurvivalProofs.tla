--------------------------- MODULE SurvivalProofs ---------------------------
(***************************************************************************)
(* The player, the weather and the fires, for every calendar, length of    *)
(* rain, threshold and effort.                                             *)
(***************************************************************************)
EXTENDS Survival, ArrayLemmas

USE CalendarAssumption, HealthAssumption, EffortAssumption, LimitsAssumption

-----------------------------------------------------------------------------
(***************************************************************************)
(* Dialogs and attributes.                                                 *)
(***************************************************************************)
\* A stack of dialogs that asks whoever died.
Asks(stack) ==
    /\ Len(stack) >= 1
    /\ stack[1] = "again"
    /\ \A k \in 2 .. Len(stack) : stack[k] = "say"

\* The stacks the actions begin.
LEMMA FirstDialogs ==
    /\ << >> \in Seq(Dialog) /\ <<"say">> \in Seq(Dialog) /\ <<"root">> \in Seq(Dialog)
    /\ <<"say", "say">> \in Seq(Dialog)
<1>1. "say" \in Dialog /\ "root" \in Dialog
  BY DEF Dialog
<1>2. QED
  BY <1>1

\* push_dialog, told or not, leaves a stack of dialogs.
LEMMA PushedType ==
    ASSUME NEW stack \in Seq(Dialog), NEW dialog \in Dialog, NEW condition \in BOOLEAN
    PROVE  Pushed(stack, dialog) \in Seq(Dialog) /\ PushedIf(condition, stack) \in Seq(Dialog)
BY DEF Pushed, PushedIf, Dialog

\* pop_dialog leaves a stack of dialogs, the same but for the top.
LEMMA PoppedType ==
    ASSUME NEW stack \in Seq(Dialog)
    PROVE  /\ Popped(stack) \in Seq(Dialog)
           /\ stack # << >> => /\ Len(Popped(stack)) = Len(stack) - 1
                               /\ \A k \in 1 .. Len(stack) - 1 : Popped(stack)[k] = stack[k]
<1>1. CASE stack = << >>
  BY <1>1 DEF Popped
<1>2. CASE stack # << >>
  <2>1. Len(stack) \in Nat /\ Len(stack) >= 1
    BY <1>2
  <2> DEFINE n == Len(stack) - 1
  <2>2. n \in Nat
    BY <2>1
  <2>3. \A k \in 1 .. n : stack[k] \in Dialog
    OBVIOUS
  <2> HIDE DEF n
  <2> DEFINE popped == SubSeq(stack, 1, n)
  <2>4. /\ popped \in Seq(Dialog)
        /\ Len(popped) = IF 1 <= n THEN n - 1 + 1 ELSE 0
        /\ \A k \in 1 .. n - 1 + 1 : popped[k] = stack[1 + k - 1]
    BY <2>2, <2>3, SubSeqProperties
  <2> HIDE DEF popped
  <2>5. Len(popped) = n /\ \A k \in 1 .. n : popped[k] = stack[k]
    BY <2>2, <2>4
  <2>6. Popped(stack) = popped
    BY <1>2 DEF Popped, popped, n
  <2>7. QED
    BY <2>4, <2>5, <2>6 DEF n
<1>3. QED
  BY <1>1, <1>2

\* A message on top of the question leaves it the question.
LEMMA PushedIfAsks ==
    ASSUME NEW stack \in Seq(Dialog), NEW condition \in BOOLEAN, Asks(stack)
    PROVE  Asks(PushedIf(condition, stack))
<1>1. CASE condition /\ Len(stack) < MaxDialogs
  <2>1. PushedIf(condition, stack) = Append(stack, "say")
    BY <1>1 DEF PushedIf, Pushed
  <2>2. /\ Len(Append(stack, "say")) = Len(stack) + 1
        /\ \A k \in 1 .. Len(stack) + 1 :
              Append(stack, "say")[k] = IF k = Len(stack) + 1 THEN "say" ELSE stack[k]
    BY AppendElements DEF Dialog
  <2>3. QED
    BY <2>1, <2>2 DEF Asks
<1>2. CASE ~(condition /\ Len(stack) < MaxDialogs)
  BY <1>2 DEF PushedIf, Pushed
<1>3. QED
  BY <1>1, <1>2

\* Closing a message above the question leaves it the question.
LEMMA PoppedAsks ==
    ASSUME NEW stack \in Seq(Dialog), Asks(stack), stack[Len(stack)] = "say"
    PROVE  Asks(Popped(stack))
<1>1. Len(stack) \in Nat /\ Len(stack) > 1 /\ stack # << >>
  BY DEF Asks
<1>2. /\ Len(Popped(stack)) = Len(stack) - 1
      /\ \A k \in 1 .. Len(stack) - 1 : Popped(stack)[k] = stack[k]
  BY <1>1, PoppedType
<1>3. QED
  BY <1>1, <1>2 DEF Asks

\* Death asks.
LEMMA DeathAsks ==
    ASSUME NEW stack
    PROVE  DeathDialogs(stack) \in Seq(Dialog) /\ Asks(DeathDialogs(stack))
BY DEF DeathDialogs, Asks, Dialog

\* clamped_attr_add stays in range.
LEMMA ClampedInRange ==
    ASSUME NEW value \in 0 .. MaxHealth, NEW amount \in Int
    PROVE  ClampedAttrAdd(value, amount) \in 0 .. MaxHealth
BY DEF ClampedAttrAdd
-----------------------------------------------------------------------------
(***************************************************************************)
(* One turn of end_turn, conjunct by conjunct of what it leaves.           *)
(***************************************************************************)
\* A turn counts on, clamps the health, and leaves dialogs that ask whoever is dead.
LEMMA TurnKeeps ==
    ASSUME TypeOK, TheDeadAreAsked, phase = "turn" => turns_left >= 1, Turn
    PROVE  /\ turn' = turn + 1 /\ turns_left' = turns_left - 1
           /\ turns_left >= 1
           /\ health' \in 0 .. MaxHealth
           /\ dead' \in BOOLEAN
           /\ dialogs' \in Seq(Dialog)
           /\ dead' => Asks(dialogs')
<1> DEFINE rains == RainAt(turn + 1, rain_start)
           night == IF LastTurn THEN NightAfterTurn(turn + 1) ELSE is_nighttime
<1>1. PICK offset \in Offsets, warned \in BOOLEAN :
        LET after == ClampedAttrAdd(health, offset)
            suffered == OffsetHealth(PushedIf(warned, dialogs), after)
            told == PushedIf(rains # is_raining, suffered)
        IN  /\ health' = after
            /\ dead' = (dead \/ after = 0)
            /\ dialogs' = PushedIf(night # is_nighttime, told)
  BY DEF Turn
<1> DEFINE after == ClampedAttrAdd(health, offset)
           told0 == PushedIf(warned, dialogs)
           hurt == health >= LowHealth /\ after < LowHealth
           suffered == OffsetHealth(told0, after)
           told == PushedIf(rains # is_raining, suffered)
<1>2. after \in 0 .. MaxHealth
  BY ClampedInRange DEF TypeOK
<1>3. health' = after /\ dead' = (dead \/ after = 0)
      /\ dialogs' = PushedIf(night # is_nighttime, told)
  BY <1>1
<1> HIDE DEF after, rains, night
<1>4. told0 \in Seq(Dialog) /\ (dead => Asks(told0))
  BY PushedType, PushedIfAsks DEF TypeOK, TheDeadAreAsked, Asks, Dialog
<1> HIDE DEF told0
<1>5. suffered \in Seq(Dialog) /\ (dead \/ after = 0 => Asks(suffered))
  <2>1. CASE after = 0
    BY <2>1, DeathAsks DEF OffsetHealth
  <2>2. CASE after # 0
    <3>1. suffered = PushedIf(hurt, told0)
      BY <2>2 DEF OffsetHealth
    <3>2. hurt \in BOOLEAN /\ "say" \in Dialog
      BY DEF Dialog
    <3>3. QED
      BY <1>4, <2>2, <3>1, <3>2, PushedType, PushedIfAsks
  <2>3. QED
    BY <2>1, <2>2
<1> HIDE DEF suffered
<1>6. told \in Seq(Dialog) /\ (dead \/ after = 0 => Asks(told))
  <2>1. (rains # is_raining) \in BOOLEAN /\ "say" \in Dialog
    BY DEF Dialog
  <2>2. QED
    BY <1>5, <2>1, PushedType, PushedIfAsks
<1> HIDE DEF told
<1>7. dialogs' \in Seq(Dialog) /\ (dead' => Asks(dialogs'))
  <2>1. (night # is_nighttime) \in BOOLEAN /\ "say" \in Dialog
    BY DEF Dialog
  <2>2. QED
    BY <1>3, <1>6, <2>1, PushedType, PushedIfAsks
<1>8. turn' = turn + 1 /\ turns_left' = turns_left - 1 /\ turns_left >= 1
  BY DEF Turn
<1>9. QED
  BY <1>2, <1>3, <1>7, <1>8 DEF TypeOK
-----------------------------------------------------------------------------
(***************************************************************************)
(* The inductive invariant.  Turns are counted down from a positive number *)
(* and the count is looked at after each: that is what keeps it a number.  *)
(***************************************************************************)
TurnsAreCounted == phase = "turn" => turns_left >= 1

IInv == TypeOK /\ TheDeadAreAsked /\ SkyFollowsTurns /\ TurnsAreCounted

\* A step without a turn that leaves the dead their question.
LEMMA RestsKeeps ==
    ASSUME IInv, phase = "choose", NEW stack \in Seq(Dialog), dead => Asks(stack), Rests(stack)
    PROVE  IInv'
<1>1. TypeOK'
  BY DEF IInv, TypeOK, Rests, FirstFire
<1>2. TheDeadAreAsked'
  BY DEF Rests, TheDeadAreAsked, Asks
<1>3. SkyFollowsTurns' /\ TurnsAreCounted'
  BY DEF IInv, Rests, SkyFollowsTurns, TurnsAreCounted, RainAt, NightAt
<1>4. QED
  BY <1>1, <1>2, <1>3 DEF IInv

\* A step of the living that takes turns.
LEMMA ActsKeeps ==
    ASSUME IInv, phase = "choose", ~dead, NEW stack \in Seq(Dialog), NEW count \in Nat \ {0},
           Acts(count, stack), fires' \in Seq(Nat)
    PROVE  IInv'
<1>1. TypeOK'
  BY DEF IInv, TypeOK, Acts
<1>2. TheDeadAreAsked'
  BY DEF Acts, TheDeadAreAsked
<1>3. SkyFollowsTurns' /\ TurnsAreCounted'
  BY DEF IInv, Acts, SkyFollowsTurns, TurnsAreCounted, RainAt
<1>4. QED
  BY <1>1, <1>2, <1>3 DEF IInv

\* A turn.
LEMMA TurnKeepsIInv ==
    ASSUME IInv, Turn
    PROVE  IInv'
<1> DEFINE rains == RainAt(turn + 1, rain_start)
<1>1. /\ turn' = turn + 1 /\ turns_left' = turns_left - 1 /\ turns_left >= 1
      /\ health' \in 0 .. MaxHealth /\ dead' \in BOOLEAN
      /\ dialogs' \in Seq(Dialog) /\ (dead' => Asks(dialogs'))
  BY TurnKeeps DEF IInv, TurnsAreCounted
<1>2. /\ is_raining' = rains
      /\ rain_start' = IF is_raining /\ ~rains THEN turn + 1 + RainWait ELSE rain_start
      /\ is_nighttime' = IF LastTurn THEN NightAt(turn + 1) ELSE is_nighttime
      /\ phase' = IF ~LastTurn THEN "turn"
                  ELSE IF recovering = "none" THEN "fires" ELSE "recover"
      /\ burning' = FirstFire
      /\ UNCHANGED <<fires, recovering, outcome>>
  BY DEF Turn, RainStartAfter, NightAfterTurn
<1>3. rains \in BOOLEAN /\ NightAt(turn + 1) \in BOOLEAN
  BY DEF RainAt, NightAt
<1>4. TypeOK'
  BY <1>1, <1>2, <1>3 DEF IInv, TypeOK, FirstFire
<1>5. TheDeadAreAsked'
  BY <1>1 DEF TheDeadAreAsked, Asks
<1>6. (is_raining <=> RainAt(turn, rain_start))'
  <2>1. CASE is_raining /\ ~rains
    <3>1. ~RainAt(turn + 1, turn + 1 + RainWait)
      BY DEF RainAt, IInv, TypeOK
    <3>2. turn' = turn + 1 /\ rain_start' = turn + 1 + RainWait /\ ~is_raining'
      BY <1>1, <1>2, <2>1
    <3>3. QED
      BY <3>1, <3>2
  <2>2. CASE ~(is_raining /\ ~rains)
    BY <1>1, <1>2, <2>2
  <2>3. QED
    BY <2>1, <2>2
<1>7. (phase # "turn" => (is_nighttime <=> NightAt(turn)))'
  BY <1>1, <1>2 DEF IInv, TypeOK
<1>8. TurnsAreCounted'
  BY <1>1, <1>2 DEF IInv, TypeOK, TurnsAreCounted, LastTurn
<1>9. QED
  BY <1>4, <1>5, <1>6, <1>7, <1>8 DEF IInv, SkyFollowsTurns

\* Day and dry weather in the first turn.
LEMMA Morning == ~NightAt(0) /\ ~RainAt(0, FirstRain)
<1>1. 0 % TurnsPerDay = 0
  OBVIOUS
<1>2. QED
  BY <1>1 DEF NightAt, RainAt

\* A new world satisfies the invariant.
LEMMA Initially == Init => IInv
<1> SUFFICES ASSUME Init PROVE IInv
  OBVIOUS
<1>1. TypeOK
  <2>1. << >> \in Seq(Nat) /\ MaxHealth \in 0 .. MaxHealth
    OBVIOUS
  <2>2. dialogs \in Seq(Dialog)
    BY FirstDialogs DEF Init
  <2>3. /\ turn = 0 /\ health = MaxHealth /\ rain_start = FirstRain /\ turns_left = 0
        /\ dead = FALSE /\ is_nighttime = FALSE /\ is_raining = FALSE
        /\ fires = << >> /\ burning = 1
        /\ phase = "choose" /\ recovering = "none" /\ outcome = "playing"
    BY DEF Init, FirstFire
  <2>4. turn \in Nat /\ health \in 0 .. MaxHealth /\ rain_start \in Nat /\ turns_left \in Nat
    BY <2>3
  <2>5. dead \in BOOLEAN /\ is_nighttime \in BOOLEAN /\ is_raining \in BOOLEAN
    BY <2>3
  <2>6. fires \in Seq(Nat) /\ burning \in Nat \ {0}
    BY <2>1, <2>3
  <2>7. QED
    BY <2>2, <2>3, <2>4, <2>5, <2>6 DEF TypeOK
<1>2. TheDeadAreAsked /\ TurnsAreCounted
  BY DEF Init, TheDeadAreAsked, TurnsAreCounted
<1>3. SkyFollowsTurns
  BY Morning DEF Init, SkyFollowsTurns
<1>4. QED
  BY <1>1, <1>2, <1>3 DEF IInv

\* The dialog answered is on top; that of the dead is the question or a message.
LEMMA AnswerOnTop ==
    ASSUME IInv, NEW dialog \in Dialog, Answers(dialog)
    PROVE  /\ phase = "choose"
           /\ dialogs \in Seq(Dialog) /\ dialogs # << >>
           /\ dialogs[Len(dialogs)] = dialog
           /\ dead => Asks(dialogs) /\ dialog \in {"again", "say"}
<1>1. phase = "choose" /\ dialogs # << >> /\ dialogs[Len(dialogs)] = dialog
  BY DEF Answers, Choosing
<1>2. dialogs \in Seq(Dialog) /\ (dead => Asks(dialogs))
  BY DEF IInv, TypeOK, TheDeadAreAsked, Asks
<1>3. dead => dialog \in {"again", "say"}
  <2>1. ASSUME dead PROVE dialog \in {"again", "say"}
    <3>1. Len(dialogs) \in Nat /\ Len(dialogs) >= 1
      BY <1>2, <2>1 DEF Asks
    <3>2. CASE Len(dialogs) = 1
      BY <1>1, <1>2, <2>1, <3>2 DEF Asks
    <3>3. CASE Len(dialogs) # 1
      <4> DEFINE n == Len(dialogs)
      <4>1. n \in Nat /\ n >= 1 /\ n # 1
        BY <3>1, <3>3
      <4>2. dialogs[n] = dialog /\ \A k \in 2 .. n : dialogs[k] = "say"
        BY <1>1, <1>2, <2>1 DEF Asks
      <4> HIDE DEF n
      <4>3. n \in 2 .. n
        BY <4>1
      <4>4. QED
        BY <4>2, <4>3
    <3>4. QED
      BY <3>2, <3>3
  <2>2. QED
    BY <2>1
<1>4. QED
  BY <1>1, <1>2, <1>3

\* Every step of the world keeps the invariant.
LEMMA Inductive == IInv /\ [Next]_vars => IInv'
<1> SUFFICES ASSUME IInv, [Next]_vars PROVE IInv'
  OBVIOUS
<1>0. /\ dialogs \in Seq(Dialog) /\ (dead => Asks(dialogs))
      /\ fires \in Seq(Nat) /\ turn \in Nat
  BY DEF IInv, TypeOK, TheDeadAreAsked, Asks
<1>1. CASE Wait
  BY <1>0, <1>1, RestsKeeps DEF Wait, Choosing
<1>2. CASE AnswerSay
  <2>1. Answers("say") /\ Rests(Popped(dialogs)) /\ "say" \in Dialog
    BY <1>2 DEF AnswerSay, Dialog
  <2>2. phase = "choose" /\ dialogs # << >> /\ dialogs[Len(dialogs)] = "say"
    BY <2>1, AnswerOnTop
  <2>3. Popped(dialogs) \in Seq(Dialog) /\ (dead => Asks(Popped(dialogs)))
    BY <1>0, <2>2, PoppedType, PoppedAsks
  <2>4. QED
    BY <2>1, <2>2, <2>3, RestsKeeps
<1>3. CASE AnswerRoot
  <2>1. Answers("root") /\ "root" \in Dialog
    BY <1>3 DEF AnswerRoot, Dialog
  <2>2. phase = "choose" /\ ~dead
    BY <2>1, AnswerOnTop
  <2>3. PICK stack \in {Pushed(dialogs, "interact"), Pushed(dialogs, "make"), Popped(dialogs)} :
           Rests(stack)
    BY <1>3 DEF AnswerRoot
  <2>4. stack \in Seq(Dialog)
    BY <1>0, PushedType, PoppedType DEF Dialog
  <2>5. QED
    BY <2>2, <2>3, <2>4, RestsKeeps
<1>4. CASE Interact
  <2>1. Answers("interact") /\ "interact" \in Dialog
    BY <1>4 DEF Interact, Dialog
  <2>2. phase = "choose" /\ ~dead
    BY <2>1, AnswerOnTop
  <2>3. /\ Popped(dialogs) \in Seq(Dialog) /\ Pushed(dialogs, "say") \in Seq(Dialog)
    BY <1>0, PushedType, PoppedType DEF Dialog
  <2>4. \/ Rests(Popped(dialogs)) \/ Rests(Pushed(dialogs, "say"))
        \/ \E count \in {1, WorkTurns}, stack \in {<< >>, <<"say">>} :
              Acts(count, stack) /\ fires' = fires
    BY <1>4 DEF Interact
  <2>5. ASSUME NEW count \in {1, WorkTurns}, NEW stack \in {<< >>, <<"say">>},
               Acts(count, stack) /\ fires' = fires
        PROVE  IInv'
    <3>1. stack \in Seq(Dialog)
      BY FirstDialogs
    <3>2. QED
      BY <1>0, <2>2, <2>5, <3>1, ActsKeeps
  <2>6. QED
    BY <2>2, <2>3, <2>4, <2>5, RestsKeeps
<1>5. CASE Make
  <2>1. Answers("make") /\ "make" \in Dialog
    BY <1>5 DEF Make, Dialog
  <2>2. phase = "choose" /\ ~dead
    BY <2>1, AnswerOnTop
  <2>3. /\ Popped(dialogs) \in Seq(Dialog) /\ Pushed(dialogs, "say") \in Seq(Dialog)
    BY <1>0, PushedType, PoppedType DEF Dialog
  <2>4. \/ Rests(Popped(dialogs)) \/ Rests(Pushed(dialogs, "say"))
        \/ \E count \in {WorkTurns, BuildTurns}, stack \in {<<"say", "say">>, <<"say">>} :
              Acts(count, stack) /\ fires' \in {fires, Append(fires, turn)}
    BY <1>5 DEF Make
  <2>5. Append(fires, turn) \in Seq(Nat)
    BY <1>0
  <2>6. QED
    BY <1>0, <2>2, <2>3, <2>4, <2>5, FirstDialogs, RestsKeeps, ActsKeeps
<1>6. CASE BeginRecovery
  <2>1. Answers("interact") /\ "interact" \in Dialog
    BY <1>6 DEF BeginRecovery, Dialog
  <2>2. phase = "choose" /\ ~dead
    BY <2>1, AnswerOnTop
  <2>3. PICK kind \in {"rest", "cool_off", "warm_up"} : Recovers(kind)
    BY <1>6 DEF BeginRecovery
  <2>4. TypeOK'
    BY <2>3 DEF IInv, TypeOK, Recovers
  <2>5. TheDeadAreAsked' /\ TurnsAreCounted'
    BY <2>2, <2>3 DEF Recovers, TheDeadAreAsked, TurnsAreCounted
  <2>6. SkyFollowsTurns'
    BY <2>2, <2>3 DEF IInv, Recovers, SkyFollowsTurns, RainAt, NightAt
  <2>7. QED
    BY <2>4, <2>5, <2>6 DEF IInv
<1>7. CASE AnswerAgain
  <2>1. Answers("again") /\ "again" \in Dialog
    BY <1>7 DEF AnswerAgain, Dialog
  <2>2. phase = "choose"
    BY <2>1, AnswerOnTop
  <2>3. TypeOK'
    BY <1>7 DEF IInv, TypeOK, AnswerAgain, FirstFire
  <2>4. TheDeadAreAsked' /\ TurnsAreCounted'
    BY <1>7 DEF IInv, AnswerAgain, TheDeadAreAsked, TurnsAreCounted
  <2>5. SkyFollowsTurns'
    BY <1>7, <2>2 DEF IInv, AnswerAgain, SkyFollowsTurns, RainAt, NightAt
  <2>6. QED
    BY <2>3, <2>4, <2>5 DEF IInv
<1>8. CASE Dismiss
  <2>1. phase = "choose" /\ ~dead /\ Popped(dialogs) \in Seq(Dialog)
    BY <1>0, <1>8, PoppedType DEF Dismiss, Choosing
  <2>2. Rests(Popped(dialogs)) \/ (Acts(1, Popped(dialogs)) /\ fires' = fires)
    BY <1>8 DEF Dismiss
  <2>3. QED
    BY <1>0, <2>1, <2>2, RestsKeeps, ActsKeeps
<1>9. CASE Walk
  <2>1. phase = "choose" /\ ~dead
    <3>1. phase = "choose" /\ dialogs = << >>
      BY <1>9 DEF Walk, Choosing
    <3>2. QED
      BY <1>0, <3>1 DEF Asks
  <2>2. \/ Rests(<<"root">>)
        \/ \E stack \in {<< >>, <<"root">>} : Acts(1, stack) /\ fires' = fires
    BY <1>9 DEF Walk
  <2>3. CASE Rests(<<"root">>)
    BY <2>1, <2>3, FirstDialogs, RestsKeeps
  <2>4. ASSUME NEW stack \in {<< >>, <<"root">>}, Acts(1, stack) /\ fires' = fires
        PROVE  IInv'
    <3>1. stack \in Seq(Dialog)
      BY FirstDialogs
    <3>2. QED
      BY <1>0, <2>1, <2>4, <3>1, ActsKeeps
  <2>5. QED
    BY <2>2, <2>3, <2>4
<1>10. CASE Turn
  BY <1>10, TurnKeepsIInv
<1>11. CASE Recover
  <2>1. TypeOK'
    BY <1>11 DEF IInv, TypeOK, Recover, FirstFire
  <2>2. TheDeadAreAsked' /\ TurnsAreCounted'
    BY <1>11 DEF IInv, Recover, TheDeadAreAsked, TurnsAreCounted
  <2>3. SkyFollowsTurns'
    BY <1>11 DEF IInv, Recover, SkyFollowsTurns, RainAt, NightAt
  <2>4. QED
    BY <2>1, <2>2, <2>3 DEF IInv
<1>12. CASE Burn
  <2>1. fires' \in Seq(Nat)
    <3>1. burning \in 1 .. Len(fires)
      BY <1>0, <1>12 DEF Burn, IInv, TypeOK
    <3>2. SwapPop(fires, burning) \in Seq(Nat)
      BY <1>0, <3>1, SwapPopType
    <3>3. QED
      BY <1>0, <1>12, <3>2 DEF Burn
  <2>2. TypeOK'
    BY <1>12, <2>1 DEF IInv, TypeOK, Burn
  <2>3. TheDeadAreAsked' /\ TurnsAreCounted'
    BY <1>12 DEF IInv, Burn, TheDeadAreAsked, TurnsAreCounted
  <2>4. SkyFollowsTurns'
    BY <1>12 DEF IInv, Burn, SkyFollowsTurns, RainAt, NightAt
  <2>5. QED
    BY <2>2, <2>3, <2>4 DEF IInv
<1>13. CASE EndStep
  <2>1. TypeOK'
    BY <1>13 DEF IInv, TypeOK, EndStep
  <2>2. TheDeadAreAsked' /\ TurnsAreCounted'
    BY <1>13 DEF IInv, EndStep, TheDeadAreAsked, TurnsAreCounted
  <2>3. SkyFollowsTurns'
    BY <1>13 DEF IInv, EndStep, SkyFollowsTurns, RainAt, NightAt
  <2>4. QED
    BY <2>1, <2>2, <2>3 DEF IInv
<1>14. CASE NewWorld
  <2>1. TypeOK'
    <3>1. << >> \in Seq(Nat) /\ MaxHealth \in 0 .. MaxHealth
      OBVIOUS
    <3>2. dialogs' \in Seq(Dialog)
      BY <1>14, FirstDialogs DEF NewWorld
    <3>3. QED
      BY <1>14, <3>1, <3>2 DEF IInv, TypeOK, NewWorld
  <2>2. TheDeadAreAsked' /\ TurnsAreCounted'
    BY <1>14 DEF NewWorld, TheDeadAreAsked, TurnsAreCounted
  <2>3. SkyFollowsTurns'
    BY <1>14, Morning DEF NewWorld, SkyFollowsTurns
  <2>4. QED
    BY <2>1, <2>2, <2>3 DEF IInv
<1>15. CASE UNCHANGED vars
  BY <1>15 DEF vars, IInv, TypeOK, TheDeadAreAsked, SkyFollowsTurns, TurnsAreCounted,
               RainAt, NightAt
<1>16. QED
  BY <1>1, <1>2, <1>3, <1>4, <1>5, <1>6, <1>7, <1>8, <1>9, <1>10, <1>11, <1>12, <1>13,
     <1>14, <1>15 DEF Next

\* The invariants hold in every state the game reaches.
THEOREM Invariance == Spec => []IInv
BY Initially, Inductive, PTL DEF Spec

\* Dialogs are those there are, the health stays in range, fires are turns.
THEOREM TypeCorrect == Spec => []TypeOK
<1>1. IInv => TypeOK
  BY DEF IInv
<1>2. QED
  BY <1>1, Invariance, PTL

\* offset_health, push_dialog and step_dialog: whoever died is asked whether to try
\* again, with nothing but messages above the question.
THEOREM DeathLeavesTheQuestion == Spec => []TheDeadAreAsked
<1>1. IInv => TheDeadAreAsked
  BY DEF IInv
<1>2. QED
  BY <1>1, Invariance, PTL

\* end_turn and the weather's answer to it: night and rain are those of the turn.
THEOREM SkyIsThatOfTheTurn == Spec => []SkyFollowsTurns
<1>1. IInv => SkyFollowsTurns
  BY DEF IInv
<1>2. QED
  BY <1>1, Invariance, PTL
=============================================================================
