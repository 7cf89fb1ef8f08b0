-------------------------- MODULE GameWorldProofs --------------------------
(***************************************************************************)
(* The game and its worlds, for any numbers of worlds and errors and any   *)
(* systems, whatever they require and handle.                              *)
(*                                                                         *)
(* The inductive invariant says which calls may be under way above which   *)
(* others, as the functions nest them, and of every call under way, not    *)
(* only of the one at the top, what it asserted when it was made.  From    *)
(* this come the assertions, what listeners hear and the lives of worlds.  *)
(* A second invariant, of the systems whose on_init is under way, gives    *)
(* the order in which the systems of a world listen.                       *)
(***************************************************************************)
EXTENDS GameWorld, ArrayLemmas

-----------------------------------------------------------------------------
(***************************************************************************)
(* Stacks of calls, whatever is in them.                                   *)
(***************************************************************************)
IsStack(s) == \E S : s \in Seq(S)

Members(s) == {s[k] : k \in 1 .. Len(s)}

\* The length of a stack.
LEMMA StackLength ==
    ASSUME NEW s, IsStack(s)
    PROVE  Len(s) \in Nat /\ (s = << >> <=> Len(s) = 0)
BY DEF IsStack

\* What is on a stack that was pushed on another.
LEMMA Pushed ==
    ASSUME NEW a, NEW b, IsStack(a), IsStack(b)
    PROVE  /\ IsStack(a \o b) /\ Len(a \o b) = Len(a) + Len(b)
           /\ \A k \in 1 .. Len(a) : (a \o b)[k] = a[k]
           /\ \A k \in 1 .. Len(b) : (a \o b)[Len(a) + k] = b[k]
           /\ Members(a \o b) = Members(a) \cup Members(b)
<1>1. PICK A : a \in Seq(A)
  BY DEF IsStack
<1>2. PICK B : b \in Seq(B)
  BY DEF IsStack
<1>3. a \in Seq(A \cup B) /\ b \in Seq(A \cup B)
  BY <1>1, <1>2
<1>4. /\ a \o b \in Seq(A \cup B) /\ Len(a \o b) = Len(a) + Len(b)
      /\ \A k \in 1 .. Len(a) + Len(b) :
            (a \o b)[k] = IF k <= Len(a) THEN a[k] ELSE b[k - Len(a)]
  BY <1>3
<1>5. Len(a) \in Nat /\ Len(b) \in Nat
  BY StackLength
<1>6. /\ \A k \in 1 .. Len(a) : (a \o b)[k] = a[k]
      /\ \A k \in 1 .. Len(b) : (a \o b)[Len(a) + k] = b[k]
  BY <1>4, <1>5
<1>7. Members(a \o b) \subseteq Members(a) \cup Members(b)
  <2>1. ASSUME NEW k \in 1 .. Len(a) + Len(b)
        PROVE  (a \o b)[k] \in Members(a) \cup Members(b)
    <3>1. CASE k <= Len(a)
      BY <1>5, <1>6, <3>1 DEF Members
    <3>2. CASE ~(k <= Len(a))
      <4>1. k - Len(a) \in 1 .. Len(b) /\ (a \o b)[k] = b[k - Len(a)]
        BY <1>4, <1>5, <3>2
      <4>2. QED
        BY <4>1 DEF Members
    <3>3. QED
      BY <3>1, <3>2
  <2>2. QED
    BY <1>4, <2>1 DEF Members
<1>8. Members(a) \subseteq Members(a \o b)
  BY <1>4, <1>5, <1>6 DEF Members
<1>9. Members(b) \subseteq Members(a \o b)
  <2>1. ASSUME NEW k \in 1 .. Len(b) PROVE b[k] \in Members(a \o b)
    <3>1. Len(a) + k \in 1 .. Len(a \o b) /\ (a \o b)[Len(a) + k] = b[k]
      BY <1>4, <1>5, <1>6
    <3>2. QED
      BY <3>1 DEF Members
  <2>2. QED
    BY <2>1 DEF Members
<1>10. IsStack(a \o b)
  BY <1>4 DEF IsStack
<1>11. QED
  BY <1>4, <1>6, <1>7, <1>8, <1>9, <1>10

\* What is on a stack that lost its top.
LEMMA Popped ==
    ASSUME NEW s, IsStack(s), s # << >>
    PROVE  /\ IsStack(Tail(s)) /\ Len(Tail(s)) = Len(s) - 1
           /\ \A k \in 1 .. Len(s) - 1 : Tail(s)[k] = s[k + 1]
           /\ Head(s) = s[1] /\ 1 \in 1 .. Len(s) /\ Head(s) \in Members(s)
           /\ Members(s) = {Head(s)} \cup Members(Tail(s))
<1>1. PICK S : s \in Seq(S)
  BY DEF IsStack
<1>2. Len(s) \in Nat \ {0}
  BY StackLength
<1>3. /\ Tail(s) \in Seq(S) /\ Len(Tail(s)) = Len(s) - 1
      /\ \A k \in 1 .. Len(s) - 1 : Tail(s)[k] = s[k + 1]
      /\ Head(s) = s[1] /\ 1 \in 1 .. Len(s)
  BY <1>1, <1>2
<1>4. Members(Tail(s)) \subseteq Members(s) /\ Head(s) \in Members(s)
  BY <1>2, <1>3 DEF Members
<1>5. ASSUME NEW k \in 1 .. Len(s), k # 1 PROVE s[k] \in Members(Tail(s))
  <2>1. k - 1 \in 1 .. Len(Tail(s)) /\ Tail(s)[k - 1] = s[k]
    BY <1>2, <1>3, <1>5
  <2>2. QED
    BY <2>1 DEF Members
<1>6. Members(s) \subseteq {Head(s)} \cup Members(Tail(s))
  BY <1>3, <1>5 DEF Members
<1>7. IsStack(Tail(s))
  BY <1>3 DEF IsStack
<1>8. QED
  BY <1>3, <1>4, <1>6, <1>7

\* Stacks of copies of a call.
LEMMA Copies ==
    ASSUME NEW x, NEW n \in Nat, NEW q, q = [k \in 1 .. n |-> x]
    PROVE  /\ IsStack(q) /\ Len(q) = n /\ Members(q) \subseteq {x}
           /\ \A k \in 1 .. Len(q) : q[k] = x
           /\ n # 0 => q # << >> /\ Head(q) = x
<1>1. q \in [1 .. n -> {x}]
  OBVIOUS
<1>2. q \in Seq({x}) /\ Len(q) = n
  BY <1>1
<1>3. IsStack(q)
  BY <1>2 DEF IsStack
<1>4. \A k \in 1 .. Len(q) : q[k] = x
  BY <1>2
<1>5. ASSUME n # 0 PROVE q # << >> /\ Head(q) = x
  <2>1. q # << >>
    BY <1>2, <1>3, <1>5, StackLength
  <2>2. 1 \in 1 .. Len(q) /\ Head(q) = q[1]
    BY <1>3, <2>1, Popped
  <2>3. QED
    BY <1>4, <2>1, <2>2
<1>6. QED
  BY <1>2, <1>3, <1>4, <1>5 DEF Members

\* Stacks of three calls.
LEMMA Triple ==
    ASSUME NEW x, NEW y, NEW z
    PROVE  /\ IsStack(<<x, y, z>>) /\ Len(<<x, y, z>>) = 3 /\ Members(<<x, y, z>>) = {x, y, z}
           /\ <<x, y, z>>[1] = x /\ <<x, y, z>>[2] = y /\ <<x, y, z>>[3] = z
           /\ <<x, y, z>> # << >> /\ Head(<<x, y, z>>) = x
<1>1. <<x, y, z>> \in Seq({x, y, z}) /\ 1 .. 3 = {1, 2, 3}
  OBVIOUS
<1>2. IsStack(<<x, y, z>>)
  BY <1>1 DEF IsStack
<1>3. Members(<<x, y, z>>) = {x, y, z}
  BY <1>1 DEF Members
<1>4. QED
  BY <1>2, <1>3

\* Stacks of none, one and two calls.
LEMMA Short ==
    ASSUME NEW x, NEW y
    PROVE  /\ IsStack(<< >>) /\ Len(<< >>) = 0 /\ Members(<< >>) = {}
           /\ IsStack(<<x>>) /\ Len(<<x>>) = 1 /\ Members(<<x>>) = {x} /\ <<x>>[1] = x
           /\ IsStack(<<x, y>>) /\ Len(<<x, y>>) = 2 /\ Members(<<x, y>>) = {x, y}
           /\ <<x, y>>[1] = x /\ <<x, y>>[2] = y
           /\ <<x>> # << >> /\ Head(<<x>>) = x /\ <<x, y>> # << >> /\ Head(<<x, y>>) = x
<1>1. << >> \in Seq({}) /\ <<x>> \in Seq({x}) /\ <<x, y>> \in Seq({x, y})
  OBVIOUS
<1>2. 1 .. 0 = {} /\ 1 .. 1 = {1} /\ 1 .. 2 = {1, 2}
  OBVIOUS
<1>3. /\ Members(<< >>) = {} /\ Members(<<x>>) = {x} /\ Members(<<x, y>>) = {x, y}
  <2>1. Members(<< >>) = {}
    BY <1>2 DEF Members
  <2>2. Members(<<x>>) = {x}
    BY <1>2 DEF Members
  <2>3. Members(<<x, y>>) = {x, y}
    BY <1>2 DEF Members
  <2>4. QED
    BY <2>1, <2>2, <2>3
<1>4. IsStack(<< >>) /\ IsStack(<<x>>) /\ IsStack(<<x, y>>)
  BY <1>1 DEF IsStack
<1>5. <<x>> # << >> /\ Head(<<x>>) = x /\ <<x, y>> # << >> /\ Head(<<x, y>>) = x
  OBVIOUS
<1>6. QED
  BY <1>3, <1>4, <1>5

-----------------------------------------------------------------------------
(***************************************************************************)
(* Which calls are made by which, and what they find.                      *)
(***************************************************************************)
\* The making of a world, and what is called on the world of the game.
Building(call) == call.call \in {"require", "on_init", "set"}
OfWorld(call) == call.call \in {"start", "step", "broadcast"} /\ call.sim # Game
Tells(call) == call.call = "broadcast" /\ call.sim # Game
Begins(call) == call.event \in {"on_start_begin", "on_start", "on_input_set"}

\* What the game is told of a world that was set, before it steps it.
Welcomes(call) ==
    call.call = "broadcast" /\ call.sim = Game /\ call.event = "on_world_start"

\* What the game itself does below all that.
Plain(call) == call.call = "run" \/ (call.call = "broadcast" /\ call.sim = Game)

\* Call a may be under way above call b.
Over(a, b) ==
    /\ Building(b) => Building(a) /\ a.call # "set" /\ a.sim = b.sim
    /\ OfWorld(b) => Tells(a) /\ Tells(b)
    /\ b.call = "step_world" =>
          \/ Building(a) \/ Welcomes(a)
          \/ OfWorld(a) /\ (a.call = "start" \/ (Tells(a) /\ Begins(a)))
    /\ b.call \in {"start", "step"} => b.sim # Game
    /\ b.call # "finalize"
    /\ a.call \notin {"run", "finalize"}

\* Every call is under way above those that may be below it.
Ordered(s) == \A j, k \in 1 .. Len(s) : j < k => Over(s[j], s[k])

\* A call as the functions make it, and what they assert when it is made.
WellMade(call) ==
    /\ DOMAIN call = {"call", "sim", "event", "rest"}
    /\ call.call \in {"run", "start", "step", "finalize", "broadcast",
                      "require", "on_init", "set", "step_world"}
    /\ call.sim \in SimId
    /\ call.call \in {"run", "finalize", "step_world"} => call.sim = Game
    /\ Building(call) => call.sim # Game
    /\ call.call \in {"require", "on_init"} =>
          \E system \in WorldSystem : call.rest = <<system>>

Fine(call) ==
    /\ WellMade(call)
    /\ Building(call) => call.sim # world /\ sims[call.sim].status = "new"
    /\ OfWorld(call) => call.sim = world
    /\ call.call = "start" => sims[call.sim].status = "new" /\ ~sims[call.sim].stopping
    /\ call.call = "step" => Running(call.sim)
    /\ call.call \in {"broadcast", "finalize"} => sims[call.sim].status = "started"

AllFine == \A call \in Members(calls) : Fine(call)

\* A world that is new is being made or started; those replaced are not started.
WorldsInTurn ==
    /\ \A w \in WorldId : sims[w].status = "new" =>
          /\ ~sims[w].stopping /\ calls # << >> /\ Top.sim = w
          /\ w = world => Top.call = "start"
          /\ w # world => Building(Top)
    /\ \A w \in WorldId : w # world => sims[w].status # "started"
    /\ world # nil => sims[world].status \in {"new", "started"}

\* A world that is being made is set in the end, and a world that is to be stepped is
\* there and was not asked to stop.
WorldsAwaited ==
    /\ calls # << >> /\ Building(Top) => \E call \in Members(calls) : call.call = "set"
    /\ \A call \in Members(calls) : call.call = "step_world" =>
          Building(Top) \/ (world # nil /\ ~sims[world].stopping)

GameInTurn ==
    /\ sims[Game].status \in {"new", "started", "finalized"}
    /\ sims[Game].status = "new" =>
          ~sims[Game].stopping /\ calls # << >> /\ Top.call = "start" /\ Top.sim = Game
    /\ sims[Game].status = "finalized" => calls = << >>

Typed ==
    /\ requires \in Requirements
    /\ sims \in [SimId -> Sim]
    /\ world \in {nil} \cup WorldId
    /\ errors \in 0 .. MaxErrors
    /\ IsStack(calls)

\* The inductive invariant.
IInv ==
    /\ Typed /\ AllFine /\ Ordered(calls)
    /\ WorldsInTurn /\ WorldsAwaited /\ GameInTurn

\* The numbers of the simulations.
LEMMA Numbers == SimId = {Game} \cup WorldId /\ Game \notin WorldId /\ nil \notin SimId
                 /\ WorldId \subseteq Nat /\ Game # nil
BY BoundsAssumption DEF SimId, WorldId, Game, nil

\* A stack pushed on another is ordered, if its calls are over those.
LEMMA PushedOrdered ==
    ASSUME NEW a, NEW b, IsStack(a), IsStack(b), Ordered(a), Ordered(b),
           \A x \in Members(a), y \in Members(b) : Over(x, y)
    PROVE  Ordered(a \o b)
<1> DEFINE s == a \o b
<1>1. /\ Len(a) \in Nat /\ Len(b) \in Nat /\ Len(s) = Len(a) + Len(b)
      /\ \A k \in 1 .. Len(a) : s[k] = a[k]
      /\ \A k \in 1 .. Len(b) : s[Len(a) + k] = b[k]
  BY Pushed, StackLength
<1> HIDE DEF s
<1>2. ASSUME NEW j \in 1 .. Len(s), NEW k \in 1 .. Len(s), j < k PROVE Over(s[j], s[k])
  <2>1. CASE k <= Len(a)
    <3>1. j \in 1 .. Len(a) /\ k \in 1 .. Len(a)
      BY <1>1, <1>2, <2>1
    <3>2. QED
      BY <1>1, <1>2, <3>1 DEF Ordered
  <2>2. CASE j > Len(a)
    <3>1. PICK i \in 1 .. Len(b), n \in 1 .. Len(b) : j = Len(a) + i /\ k = Len(a) + n /\ i < n
      <4>1. j - Len(a) \in 1 .. Len(b) /\ k - Len(a) \in 1 .. Len(b)
        BY <1>1, <1>2, <2>2
      <4>2. j = Len(a) + (j - Len(a)) /\ k = Len(a) + (k - Len(a)) /\ j - Len(a) < k - Len(a)
        BY <1>1, <1>2
      <4>3. QED
        BY <4>1, <4>2
    <3>2. s[j] = b[i] /\ s[k] = b[n]
      BY <1>1, <3>1
    <3>3. QED
      BY <3>1, <3>2 DEF Ordered
  <2>3. CASE j <= Len(a) /\ k > Len(a)
    <3>1. j \in 1 .. Len(a) /\ k - Len(a) \in 1 .. Len(b) /\ k = Len(a) + (k - Len(a))
      BY <1>1, <1>2, <2>3
    <3>2. s[j] = a[j] /\ s[k] = b[k - Len(a)]
      BY <1>1, <3>1
    <3>3. s[j] \in Members(a) /\ s[k] \in Members(b)
      BY <3>1, <3>2 DEF Members
    <3>4. QED
      BY <3>3
  <2>4. QED
    BY <1>1, <1>2, <2>1, <2>2, <2>3
<1>3. QED
  BY <1>2 DEF Ordered, s

\* The calls below the top are ordered, and the top is over them.
LEMMA PoppedOrdered ==
    ASSUME NEW s, IsStack(s), s # << >>, Ordered(s)
    PROVE  Ordered(Tail(s)) /\ \A x \in Members(Tail(s)) : Over(Head(s), x)
<1> DEFINE t == Tail(s)
<1>1. /\ Len(s) \in Nat /\ Len(t) = Len(s) - 1 /\ Head(s) = s[1]
      /\ \A k \in 1 .. Len(s) - 1 : t[k] = s[k + 1]
  BY Popped, StackLength
<1> HIDE DEF t
<1>2. ASSUME NEW k \in 1 .. Len(t)
      PROVE  k + 1 \in 1 .. Len(s) /\ 1 \in 1 .. Len(s) /\ 1 < k + 1 /\ t[k] = s[k + 1]
  BY <1>1
<1>3. \A k \in 1 .. Len(t) : Over(Head(s), t[k])
  BY <1>1, <1>2 DEF Ordered
<1>4. ASSUME NEW j \in 1 .. Len(t), NEW k \in 1 .. Len(t), j < k PROVE Over(t[j], t[k])
  <2>1. j + 1 < k + 1
    BY <1>4
  <2>2. QED
    BY <1>2, <2>1 DEF Ordered
<1>5. QED
  BY <1>3, <1>4 DEF Ordered, Members, t

\* The order of two calls.
LEMMA ShortOrdered ==
    ASSUME NEW x, NEW y, Over(x, y)
    PROVE  Ordered(<<x, y>>)
BY Short DEF Ordered

\* The order of three calls.
LEMMA TripleOrdered ==
    ASSUME NEW x, NEW y, NEW z, Over(x, y), Over(x, z), Over(y, z)
    PROVE  Ordered(<<x, y, z>>)
BY Triple DEF Ordered

\* Orders of one call and of none.
LEMMA OneOrdered ==
    ASSUME NEW x
    PROVE  Ordered(<<x>>) /\ Ordered(<< >>)
<1>1. \A j, k \in 1 .. 1 : ~(j < k)
  OBVIOUS
<1>2. \A j, k \in 1 .. 0 : ~(j < k)
  OBVIOUS
<1>3. Ordered(<<x>>)
  BY <1>1, Short DEF Ordered
<1>4. Ordered(<< >>)
  BY <1>2, Short DEF Ordered
<1>5. QED
  BY <1>3, <1>4

-----------------------------------------------------------------------------
(***************************************************************************)
(* What the invariant says of the call at the top and of those below it.   *)
(***************************************************************************)
\* The call at the top is over all others.
LEMMA AtTheTop ==
    ASSUME IInv, calls # << >>
    PROVE  /\ Fine(Top) /\ IsStack(calls) /\ IsStack(Return) /\ Ordered(Return)
           /\ Members(calls) = {Top} \cup Members(Return)
           /\ \A c \in Members(Return) : Fine(c) /\ Over(Top, c)
<1>1. IsStack(calls) /\ Ordered(calls) /\ AllFine
  BY DEF IInv, Typed
<1>2. IsStack(Return) /\ Members(calls) = {Top} \cup Members(Return)
  BY <1>1, Popped DEF Top, Return
<1>3. Ordered(Return) /\ \A c \in Members(Return) : Over(Top, c)
  BY <1>1, PoppedOrdered DEF Top, Return
<1>4. Fine(Top) /\ \A c \in Members(Return) : Fine(c)
  BY <1>1, <1>2 DEF AllFine
<1>5. QED
  BY <1>1, <1>2, <1>3, <1>4

\* Below a call of the game itself there are only others, but for the step that is
\* awaited while the game is told of a world that was set.
LEMMA BelowGame ==
    ASSUME IInv, calls # << >>, ~Building(Top), ~OfWorld(Top), ~Welcomes(Top)
    PROVE  \A c \in Members(Return) : Plain(c)
<1>1. ASSUME NEW c \in Members(Return) PROVE Plain(c)
  <2>1. Fine(c) /\ Over(Top, c)
    BY AtTheTop
  <2>2. WellMade(c)
    BY <2>1 DEF Fine
  <2>3. ~Building(c) /\ ~OfWorld(c)
    BY <2>1 DEF Over, Tells, OfWorld
  <2>4. c.call \notin {"step_world", "start", "step", "finalize"}
    BY <2>1, <2>3 DEF Over, OfWorld
  <2>5. QED
    BY <2>2, <2>3, <2>4 DEF WellMade, Plain, Building, OfWorld
<1>2. QED
  BY <1>1

\* Below a call on the world there are others, unless it only starts; the step that is
\* awaited; and calls of the game.
LEMMA BelowWorld ==
    ASSUME IInv, calls # << >>, Top.call # "require", Top.call # "on_init", ~Tells(Top)
    PROVE  \A c \in Members(Return) : c.call = "step_world" \/ Plain(c)
<1>1. ASSUME NEW c \in Members(Return) PROVE c.call = "step_world" \/ Plain(c)
  <2>1. Fine(c) /\ Over(Top, c)
    BY AtTheTop
  <2>2. WellMade(c)
    BY <2>1 DEF Fine
  <2>3. ~Building(c) /\ ~OfWorld(c)
    BY <2>1 DEF Over, Building
  <2>4. c.call \notin {"start", "step", "finalize"}
    BY <2>1, <2>3 DEF Over, OfWorld
  <2>5. QED
    BY <2>2, <2>3, <2>4 DEF WellMade, Plain, Building, OfWorld
<1>2. QED
  BY <1>1

\* The making of a world goes on until it is set.
LEMMA BuildingGoesOn ==
    ASSUME IInv, calls # << >>, Top.call \in {"require", "on_init"}
    PROVE  /\ Return # << >> /\ Building(Head(Return)) /\ Head(Return).sim = Top.sim
           /\ \E c \in Members(Return) : c.call = "set"
<1>1. Building(Top)
  BY DEF Building
<1>2. PICK c \in Members(calls) : c.call = "set"
  BY <1>1 DEF IInv, WorldsAwaited
<1>3. c # Top
  BY <1>2
<1>4. c \in Members(Return) /\ Building(c)
  BY <1>2, <1>3, AtTheTop DEF Building
<1>5. Return # << >>
  BY <1>4, Short
<1>6. /\ Head(Return) \in Members(Return)
      /\ Members(Return) = {Head(Return)} \cup Members(Tail(Return))
      /\ \A x \in Members(Tail(Return)) : Over(Head(Return), x)
  BY <1>5, AtTheTop, Popped, PoppedOrdered
<1>7. Building(Head(Return))
  <2>1. CASE c = Head(Return)
    BY <1>4, <2>1
  <2>2. CASE c \in Members(Tail(Return))
    BY <1>4, <1>6, <2>2 DEF Over
  <2>3. QED
    BY <1>4, <1>6, <2>1, <2>2
<1>8. Head(Return).sim = Top.sim
  BY <1>6, <1>7, AtTheTop DEF Over
<1>9. QED
  BY <1>2, <1>4, <1>5, <1>7, <1>8

\* Calls of the game may be under way below any that do not end it.
LEMMA OverPlain ==
    ASSUME NEW a, a.call \notin {"run", "finalize"}, NEW b, Plain(b)
    PROVE  Over(a, b)
BY DEF Over, Plain, Building, OfWorld

\* Nothing is below the loop of the game.
LEMMA NothingBelow ==
    ASSUME IInv, calls # << >>, Top.call \in {"run", "finalize"}
    PROVE  Return = << >>
<1>1. Members(Return) = {}
  BY AtTheTop DEF Over
<1>2. Return # << >> => Head(Return) \in Members(Return)
  BY AtTheTop, Popped
<1>3. QED
  BY <1>1, <1>2

\* The stack after calls were pushed on some of it.
LEMMA Stacked ==
    ASSUME NEW new, NEW old, IsStack(new), Ordered(new), IsStack(old), Ordered(old),
           \A a \in Members(new), b \in Members(old) : Over(a, b),
           calls' = new \o old,
           \A c \in Members(new) : Fine(c)',
           \A c \in Members(old) : Fine(c)'
    PROVE  /\ IsStack(calls') /\ Ordered(calls') /\ AllFine'
           /\ Members(calls') = Members(new) \cup Members(old)
           /\ Len(calls') = Len(new) + Len(old)
           /\ new # << >> => calls' # << >> /\ Top' = Head(new)
<1>1. /\ IsStack(calls') /\ Members(calls') = Members(new) \cup Members(old)
      /\ Len(calls') = Len(new) + Len(old)
      /\ \A k \in 1 .. Len(new) : calls'[k] = new[k]
  BY Pushed
<1>2. Ordered(calls')
  BY PushedOrdered
<1>3. AllFine'
  BY <1>1 DEF AllFine
<1>4. ASSUME new # << >> PROVE calls' # << >> /\ Top' = Head(new)
  <2>1. 1 \in 1 .. Len(new) /\ Head(new) = new[1] /\ Head(new) \in Members(new)
    BY <1>4, Popped
  <2>2. calls' # << >>
    BY <1>1, <2>1, Short
  <2>3. Head(calls') = calls'[1]
    BY <1>1, <2>2, Popped
  <2>4. QED
    BY <1>1, <2>1, <2>2, <2>3 DEF Top
<1>5. QED
  BY <1>1, <1>2, <1>3, <1>4

\* The stack after one call was pushed.
LEMMA OneOn ==
    ASSUME NEW a, NEW old, IsStack(old), Ordered(old), calls' = <<a>> \o old,
           Fine(a)', \A c \in Members(old) : Over(a, c), \A c \in Members(old) : Fine(c)'
    PROVE  /\ IsStack(calls') /\ Ordered(calls') /\ AllFine'
           /\ Members(calls') = {a} \cup Members(old) /\ calls' # << >> /\ Top' = a
<1>1. PICK new : new = <<a>>
  OBVIOUS
<1>2. IsStack(new) /\ Members(new) = {a} /\ new # << >> /\ Head(new) = a
  BY <1>1, Short
<1>3. Ordered(new)
  BY <1>1, OneOrdered
<1>4. calls' = new \o old
  BY <1>1
<1>5. \A x \in Members(new), c \in Members(old) : Over(x, c)
  BY <1>2
<1>6. \A x \in Members(new) : Fine(x)'
  BY <1>2
<1>7. /\ IsStack(calls') /\ Ordered(calls') /\ AllFine'
      /\ Members(calls') = Members(new) \cup Members(old)
  BY <1>2, <1>3, <1>4, <1>5, <1>6, Stacked
<1>8. calls' # << >> /\ Top' = Head(new)
  BY <1>2, <1>3, <1>4, <1>5, <1>6, Stacked
<1>9. QED
  BY <1>2, <1>7, <1>8

\* The stack after two calls were pushed.
LEMMA TwoOn ==
    ASSUME NEW a, NEW b, NEW old, IsStack(old), Ordered(old), calls' = <<a, b>> \o old,
           Over(a, b), Fine(a)', Fine(b)',
           \A c \in Members(old) : Over(a, c) /\ Over(b, c), \A c \in Members(old) : Fine(c)'
    PROVE  /\ IsStack(calls') /\ Ordered(calls') /\ AllFine'
           /\ Members(calls') = {a, b} \cup Members(old) /\ calls' # << >> /\ Top' = a
<1>1. PICK new : new = <<a, b>>
  OBVIOUS
<1>2. IsStack(new) /\ Members(new) = {a, b} /\ new # << >> /\ Head(new) = a
  BY <1>1, Short
<1>3. Ordered(new)
  BY <1>1, ShortOrdered
<1>4. calls' = new \o old
  BY <1>1
<1>5. \A x \in Members(new), c \in Members(old) : Over(x, c)
  BY <1>2
<1>6. \A x \in Members(new) : Fine(x)'
  BY <1>2
<1>7. /\ IsStack(calls') /\ Ordered(calls') /\ AllFine'
      /\ Members(calls') = Members(new) \cup Members(old)
  BY <1>2, <1>3, <1>4, <1>5, <1>6, Stacked
<1>8. calls' # << >> /\ Top' = Head(new)
  BY <1>2, <1>3, <1>4, <1>5, <1>6, Stacked
<1>9. QED
  BY <1>2, <1>7, <1>8

\* The stack after three calls were pushed.
LEMMA ThreeOn ==
    ASSUME NEW a, NEW b, NEW d, NEW old, IsStack(old), Ordered(old),
           calls' = <<a, b, d>> \o old,
           Over(a, b), Over(a, d), Over(b, d), Fine(a)', Fine(b)', Fine(d)',
           \A c \in Members(old) : Over(a, c) /\ Over(b, c) /\ Over(d, c),
           \A c \in Members(old) : Fine(c)'
    PROVE  /\ IsStack(calls') /\ Ordered(calls') /\ AllFine'
           /\ Members(calls') = {a, b, d} \cup Members(old) /\ calls' # << >> /\ Top' = a
<1>1. PICK new : new = <<a, b, d>>
  OBVIOUS
<1>2. IsStack(new) /\ Members(new) = {a, b, d} /\ new # << >> /\ Head(new) = a
  BY <1>1, Triple
<1>3. Ordered(new)
  BY <1>1, TripleOrdered
<1>4. calls' = new \o old
  BY <1>1
<1>5. \A x \in Members(new), c \in Members(old) : Over(x, c)
  BY <1>2
<1>6. \A x \in Members(new) : Fine(x)'
  BY <1>2
<1>7. /\ IsStack(calls') /\ Ordered(calls') /\ AllFine'
      /\ Members(calls') = Members(new) \cup Members(old)
  BY <1>2, <1>3, <1>4, <1>5, <1>6, Stacked
<1>8. calls' # << >> /\ Top' = Head(new)
  BY <1>2, <1>3, <1>4, <1>5, <1>6, Stacked
<1>9. QED
  BY <1>2, <1>7, <1>8

\* The stack after the top returned, or after it was replaced by one like it.
LEMMA Returned ==
    ASSUME IInv, calls # << >>, calls' = Return,
           \A c \in Members(Return) : Fine(c)'
    PROVE  IsStack(calls') /\ Ordered(calls') /\ AllFine'
BY AtTheTop DEF AllFine

\* What is fine stays fine while simulations keep their status and their requests.
LEMMA FineKept ==
    ASSUME world' = world,
           \A s \in SimId : /\ sims'[s].status = sims[s].status
                            /\ sims'[s].stopping = sims[s].stopping,
           NEW c, Fine(c)
    PROVE  Fine(c)'
<1>1. WellMade(c)'
  BY DEF Fine, WellMade, Building
<1>2. c.sim \in SimId
  BY DEF Fine, WellMade
<1>3. QED
  BY <1>1, <1>2 DEF Fine, Running, Building, OfWorld

\* So it does while nothing of them changes.
LEMMA FineSame ==
    ASSUME UNCHANGED <<sims, world>>, NEW c, Fine(c)
    PROVE  Fine(c)'
BY FineKept

\* The game itself, and the world it awaits, are fine whatever happens to worlds.
LEMMA FineBelow ==
    ASSUME NEW c, Fine(c), c.call = "step_world" \/ Plain(c),
           sims[Game].status = "started" => sims'[Game].status = "started"
    PROVE  Fine(c)'
<1>1. WellMade(c)' /\ ~Building(c) /\ ~OfWorld(c) /\ c.call \notin {"start", "step", "finalize"}
  BY DEF Fine, WellMade, Building, Plain, OfWorld
<1>2. QED
  BY <1>1 DEF Fine, Plain, Building, OfWorld

\* Unless one is being made or started, no simulation is new, the world of the game is
\* started and one that is to be stepped is there.
LEMMA NoneNew ==
    ASSUME IInv, calls # << >>, ~Building(Top), Top.call # "start"
    PROVE  /\ \A s \in SimId : sims[s].status # "new"
           /\ sims[Game].status = "started"
           /\ world # nil => world \in WorldId /\ sims[world].status = "started"
           /\ \A c \in Members(calls) : c.call = "step_world" =>
                 world # nil /\ ~sims[world].stopping
<1>1. \A w \in WorldId : sims[w].status # "new"
  BY DEF IInv, WorldsInTurn
<1>2. sims[Game].status = "started"
  BY DEF IInv, GameInTurn
<1>3. world # nil => world \in WorldId /\ sims[world].status = "started"
  BY <1>1 DEF IInv, WorldsInTurn, Typed
<1>4. QED
  BY <1>1, <1>2, <1>3, Numbers DEF IInv, WorldsAwaited

\* The invariant after a step that makes no simulation new and starts none but the world.
LEMMA NoneNewNext ==
    ASSUME IInv, calls # << >>, ~Building(Top), Top.call # "start",
           Typed', Ordered(calls'), AllFine', UNCHANGED world,
           \A s \in SimId : sims'[s].status = sims[s].status,
           calls' # << >> => ~Building(Top'),
           \A c \in Members(calls') : c.call = "step_world" =>
                 world # nil /\ ~sims'[world].stopping
    PROVE  IInv'
<1>1. /\ \A s \in SimId : sims[s].status # "new"
      /\ sims[Game].status = "started"
      /\ world # nil => world \in WorldId /\ sims[world].status = "started"
  BY NoneNew
<1>2. WorldsInTurn'
  BY <1>1, Numbers DEF WorldsInTurn, IInv
<1>3. WorldsAwaited'
  BY DEF WorldsAwaited, Building
<1>4. GameInTurn'
  BY <1>1, Numbers DEF GameInTurn
<1>5. QED
  BY <1>2, <1>3, <1>4 DEF IInv

\* The calls the functions make.
LEMMA CallsMade ==
    ASSUME NEW s \in SimId
    PROVE  /\ \A name \in {"start", "step", "set"} :
                 /\ Of(name, s).call = name /\ Of(name, s).sim = s
                 /\ name # "set" \/ s # Game => WellMade(Of(name, s))
           /\ \A name \in {"run", "finalize", "step_world"} :
                 /\ Of(name, s).call = name /\ Of(name, s).sim = s
                 /\ s = Game => WellMade(Of(name, s))
           /\ \A name \in {"require", "on_init"}, system \in WorldSystem :
                 /\ With(name, s, system).call = name /\ With(name, s, system).sim = s
                 /\ With(name, s, system).rest = <<system>>
                 /\ s # Game => WellMade(With(name, s, system))
           /\ \A event : /\ Broadcast(s, event).call = "broadcast"
                         /\ Broadcast(s, event).sim = s
                         /\ Broadcast(s, event).event = event
                         /\ WellMade(Broadcast(s, event))
<1>1. \A name \in {"start", "step", "set"} :
         /\ Of(name, s).call = name /\ Of(name, s).sim = s
         /\ name # "set" \/ s # Game => WellMade(Of(name, s))
  BY DEF Of, WellMade, Building
<1>2. \A name \in {"run", "finalize", "step_world"} :
         /\ Of(name, s).call = name /\ Of(name, s).sim = s
         /\ s = Game => WellMade(Of(name, s))
  BY DEF Of, WellMade, Building
<1>3. \A name \in {"require", "on_init"}, system \in WorldSystem :
         /\ With(name, s, system).call = name /\ With(name, s, system).sim = s
         /\ With(name, s, system).rest = <<system>>
         /\ s # Game => WellMade(With(name, s, system))
  BY DEF With, Of, WellMade, Building
<1>4. \A event : /\ Broadcast(s, event).call = "broadcast"
                 /\ Broadcast(s, event).sim = s
                 /\ Broadcast(s, event).event = event
                 /\ WellMade(Broadcast(s, event))
  BY DEF Broadcast, WellMade, Building
<1>5. QED
  BY <1>1, <1>2, <1>3, <1>4

\* The broadcast at the top after a listener returned, or raised an error.
LEMMA HeardCalls ==
    ASSUME IInv, At("broadcast")
    PROVE  \E h : /\ Heard = <<h>> \o Return /\ h = [Top EXCEPT !.rest = Tail(@)]
                  /\ h.call = "broadcast" /\ h.sim = Top.sim /\ h.event = Top.event
                  /\ Fine(h) /\ \A c \in Members(Return) : Over(h, c)
                  /\ IsStack(Heard) /\ Ordered(Heard) /\ Len(Heard) = Len(calls)
                  /\ Members(Heard) = {h} \cup Members(Return)
                  /\ Heard # << >> /\ Head(Heard) = h
                  /\ Heard[1] = h /\ \A k \in 2 .. Len(calls) : Heard[k] = calls[k]
<1>1. /\ calls # << >> /\ Fine(Top) /\ IsStack(Return) /\ Ordered(Return)
      /\ \A c \in Members(Return) : Over(Top, c)
  BY AtTheTop DEF At
<1>2. PICK h : h = [Top EXCEPT !.rest = Tail(@)]
  OBVIOUS
<1>3. /\ DOMAIN h = {"call", "sim", "event", "rest"}
      /\ h.call = "broadcast" /\ h.sim = Top.sim /\ h.event = Top.event
  BY <1>1, <1>2 DEF Fine, WellMade, At
<1>4. Fine(h)
  BY <1>1, <1>3 DEF Fine, WellMade, At, Building, OfWorld
<1>5. \A c \in Members(Return) : Over(h, c)
  BY <1>1, <1>3 DEF Over, At, Building, OfWorld, Tells, Begins, Welcomes
<1>6. Heard = <<h>> \o Return
  BY <1>2 DEF Heard
<1>7. /\ IsStack(<<h>>) /\ Len(<<h>>) = 1 /\ Members(<<h>>) = {h} /\ <<h>>[1] = h
      /\ Ordered(<<h>>)
  BY Short, OneOrdered
<1>8. /\ IsStack(Heard) /\ Len(Heard) = 1 + Len(Return)
      /\ \A k \in 1 .. 1 : Heard[k] = <<h>>[k]
      /\ \A k \in 1 .. Len(Return) : Heard[1 + k] = Return[k]
      /\ Members(Heard) = {h} \cup Members(Return)
  BY <1>1, <1>6, <1>7, Pushed
<1>9. Ordered(Heard)
  BY <1>1, <1>5, <1>6, <1>7, PushedOrdered
<1>10. /\ Len(calls) \in Nat /\ Len(Return) = Len(calls) - 1
       /\ \A k \in 1 .. Len(calls) - 1 : Return[k] = calls[k + 1]
  BY <1>1, AtTheTop, Popped, StackLength DEF Return
<1>11. Len(Heard) = Len(calls) /\ Heard[1] = h
  BY <1>7, <1>8, <1>10
<1>12. ASSUME NEW k \in 2 .. Len(calls) PROVE Heard[k] = calls[k]
  <2>1. k - 1 \in 1 .. Len(Return) /\ 1 + (k - 1) = k /\ (k - 1) + 1 = k
    BY <1>10, <1>12
  <2>2. Heard[1 + (k - 1)] = Return[k - 1] /\ Return[k - 1] = calls[(k - 1) + 1]
    BY <1>8, <1>10, <2>1
  <2>3. QED
    BY <2>1, <2>2
<1>13. Heard # << >> /\ Head(Heard) = h
  <2>1. Heard # << >>
    BY <1>8, Short
  <2>2. QED
    BY <1>8, <1>11, <2>1, Popped
<1>14. QED
  BY <1>2, <1>3, <1>4, <1>5, <1>6, <1>8, <1>9, <1>11, <1>12, <1>13

-----------------------------------------------------------------------------
(***************************************************************************)
(* The invariant holds initially, and every step preserves it.             *)
(***************************************************************************)
\* Simulations as they are before and after they are made.
LEMMA MadeIsSim == Unmade \in Sim /\ Made \in Sim
<1>1. << >> \in Seq(System)
  OBVIOUS
<1>2. Unmade \in Sim
  BY <1>1 DEF Sim, Unmade
<1>3. Made \in Sim
  BY <1>2 DEF Sim, Made
<1>4. QED
  BY <1>2, <1>3

\* The game starts with nothing but itself.
LEMMA InitInv == Init => IInv
<1> SUFFICES ASSUME Init PROVE IInv
  OBVIOUS
<1>1. PICK order \in GameOrders :
         sims = [s \in SimId |->
                    IF s = Game THEN [Made EXCEPT !.systems = GameSystem, !.listeners = order]
                    ELSE Unmade]
  BY DEF Init
<1>2. requires \in Requirements /\ world = nil /\ errors = 0
  BY DEF Init
<1>3. PICK a, b : a = Of("start", Game) /\ b = Of("run", Game)
  OBVIOUS
<1>4. calls = <<a, b>>
  BY <1>3 DEF Init
<1>5. /\ WellMade(a) /\ a.call = "start" /\ a.sim = Game
      /\ WellMade(b) /\ b.call = "run" /\ b.sim = Game
  BY <1>3, CallsMade, Numbers
<1>6. /\ sims[Game].status = "new" /\ ~sims[Game].stopping
      /\ \A w \in WorldId : sims[w].status = "unmade"
  BY <1>1, Numbers DEF Made, Unmade
<1>7. order \in Seq(System)
  <2>1. order \in [1 .. 4 -> System]
    BY <1>1 DEF GameOrders, System
  <2>2. PICK n \in Nat : n = 4
    OBVIOUS
  <2>3. order \in [1 .. n -> System]
    BY <2>1, <2>2
  <2>4. QED
    BY <2>3, SeqDef
<1>8. sims \in [SimId -> Sim]
  <2>1. Unmade \in Sim /\ Made \in Sim
    BY MadeIsSim
  <2>2. [Made EXCEPT !.systems = GameSystem, !.listeners = order] \in Sim
    BY <1>7, <2>1 DEF Sim, System
  <2>3. QED
    BY <1>1, <2>1, <2>2
<1>9. /\ IsStack(<<a, b>>) /\ Members(<<a, b>>) = {a, b} /\ <<a, b>> # << >>
      /\ Head(<<a, b>>) = a
  BY Short
<1>10. IsStack(calls) /\ Members(calls) = {a, b} /\ calls # << >> /\ Top = a
  BY <1>4, <1>9 DEF Top
<1>11. Typed
  BY <1>2, <1>8, <1>10, BoundsAssumption DEF Typed
<1>12. Fine(a) /\ Fine(b)
  BY <1>5, <1>6 DEF Fine, Building, OfWorld
<1>13. AllFine
  BY <1>10, <1>12 DEF AllFine
<1>14. Ordered(calls)
  <2>1. Over(a, b)
    BY <1>5, OverPlain DEF Plain
  <2>2. QED
    BY <1>4, <2>1, ShortOrdered
<1>15. WorldsInTurn
  BY <1>2, <1>6 DEF WorldsInTurn
<1>16. WorldsAwaited
  BY <1>5, <1>10 DEF WorldsAwaited, Building
<1>17. GameInTurn
  BY <1>5, <1>6, <1>10 DEF GameInTurn
<1>18. QED
  BY <1>11, <1>13, <1>14, <1>15, <1>16, <1>17 DEF IInv

\* What starts is the game or its world, above what awaits it.
LEMMA StartPreserves ==
    ASSUME IInv, Start
    PROVE  IInv'
<1>1. calls # << >> /\ Top.call = "start" /\ Fine(Top) /\ ~Building(Top) /\ ~Tells(Top)
  BY AtTheTop DEF Start, At, Building, Tells
<1>2. PICK s \in SimId : /\ s = Top.sim /\ sims[s].status = "new" /\ ~sims[s].stopping
                         /\ s # Game => s = world
  BY <1>1 DEF Fine, WellMade, OfWorld
<1>3. PICK a, b : a = Broadcast(s, "on_start_begin") /\ b = Broadcast(s, "on_start")
  OBVIOUS
<1>4. /\ WellMade(a) /\ a.call = "broadcast" /\ a.sim = s /\ Begins(a)
      /\ WellMade(b) /\ b.call = "broadcast" /\ b.sim = s /\ Begins(b)
  BY <1>3, CallsMade DEF Begins
<1>5. /\ sims' = [sims EXCEPT ![s].status = "started"] /\ calls' = <<a, b>> \o Return
      /\ UNCHANGED <<requires, world, errors>>
  BY <1>2, <1>3 DEF Start
<1>6. /\ sims'[s].status = "started" /\ ~sims'[s].stopping
      /\ \A x \in SimId \ {s} : sims'[x] = sims[x]
  BY <1>2, <1>5 DEF IInv, Typed, Sim
<1>7. \A c \in Members(Return) :
         /\ c.call = "step_world" \/ Plain(c)
         /\ Fine(c) /\ Over(Top, c)
  BY <1>1, BelowWorld, AtTheTop
<1>8. Over(a, b)
  BY <1>4 DEF Over, Building, OfWorld, Tells
<1>9. ASSUME NEW c \in Members(Return), NEW x \in {a, b} PROVE Over(x, c)
  <2>1. CASE Plain(c)
    BY <1>4, <2>1, OverPlain
  <2>2. CASE c.call = "step_world"
    <3>1. OfWorld(x) /\ Tells(x) /\ Begins(x)
      BY <1>1, <1>2, <1>4, <1>7, <2>2 DEF Over, OfWorld, Tells, Welcomes
    <3>2. QED
      BY <1>4, <2>2, <3>1 DEF Over, Building, OfWorld
  <2>3. QED
    BY <1>7, <2>1, <2>2
<1>10. Fine(a)' /\ Fine(b)'
  BY <1>2, <1>4, <1>5, <1>6 DEF Fine, WellMade, Building, OfWorld
<1>11. ASSUME NEW c \in Members(Return) PROVE Fine(c)'
  BY <1>2, <1>5, <1>6, <1>7, FineBelow, Numbers
<1>12. IsStack(Return) /\ Ordered(Return)
  BY <1>1, AtTheTop
<1>13. /\ IsStack(calls') /\ Ordered(calls') /\ AllFine'
       /\ Members(calls') = {a, b} \cup Members(Return) /\ calls' # << >> /\ Top' = a
  BY <1>5, <1>8, <1>9, <1>10, <1>11, <1>12, TwoOn
<1>14. Typed'
  BY <1>5, <1>13 DEF IInv, Typed, Sim
<1>15. WorldsInTurn'
  <2>1. ASSUME NEW w \in WorldId PROVE sims'[w].status # "new"
    BY <1>1, <1>2, <1>6, Numbers DEF IInv, WorldsInTurn
  <2>2. ASSUME NEW w \in WorldId, w # world PROVE sims'[w].status # "started"
    BY <1>2, <1>6, <2>2, Numbers DEF IInv, WorldsInTurn
  <2>3. world # nil => sims'[world].status \in {"new", "started"}
    BY <1>2, <1>6, Numbers DEF IInv, WorldsInTurn, Typed
  <2>4. QED
    BY <1>5, <2>1, <2>2, <2>3 DEF WorldsInTurn
<1>16. WorldsAwaited'
  <2>1. ASSUME NEW c \in Members(Return), c.call = "step_world"
        PROVE  world # nil /\ ~sims'[world].stopping
    <3>1. c \in Members(calls)
      BY <1>1, AtTheTop
    <3>2. world # nil /\ ~sims[world].stopping
      BY <1>1, <2>1, <3>1 DEF IInv, WorldsAwaited
    <3>3. QED
      BY <1>6, <3>2, Numbers DEF IInv, Typed
  <2>2. QED
    BY <1>4, <1>5, <1>13, <2>1 DEF WorldsAwaited, Building
<1>17. GameInTurn'
  BY <1>1, <1>2, <1>6, Numbers DEF IInv, GameInTurn
<1>18. QED
  BY <1>13, <1>14, <1>15, <1>16, <1>17 DEF IInv

\* The game steps while it runs, and then ends.
LEMMA RunPreserves ==
    ASSUME IInv, Run
    PROVE  IInv'
<1>1. /\ calls # << >> /\ Top.call = "run" /\ ~Building(Top) /\ IsStack(calls)
      /\ Ordered(calls) /\ Members(calls) = {Top} \cup Members(Return)
  BY AtTheTop DEF Run, At, Building, IInv
<1>2. Return = << >> /\ Members(Return) = {}
  BY <1>1, NothingBelow, Short
<1>3. Plain(Top) /\ \A c \in Members(calls) : Fine(c)'
  BY <1>1, AtTheTop, FineSame DEF Run, Plain
<1>4. /\ \A s \in SimId : sims[s].status # "new"
      /\ sims[Game].status = "started"
  BY <1>1, NoneNew
<1>5. PICK a, b : a = Of("step", Game) /\ b = Of("finalize", Game)
  OBVIOUS
<1>6. /\ WellMade(a) /\ a.call = "step" /\ a.sim = Game
      /\ WellMade(b) /\ b.call = "finalize" /\ b.sim = Game
  BY <1>5, CallsMade, Numbers
<1>7. CASE Running(Game)
  <2>1. calls' = <<a>> \o calls
    BY <1>5, <1>7 DEF Run
  <2>2. Fine(a)'
    BY <1>6, <1>7 DEF Fine, Running, Building, OfWorld, Run
  <2>3. \A c \in Members(calls) : Over(a, c)
    BY <1>1, <1>2, <1>3, <1>6, OverPlain
  <2>4. /\ IsStack(calls') /\ Ordered(calls') /\ AllFine' /\ calls' # << >> /\ Top' = a
        /\ Members(calls') = {a} \cup Members(calls)
    BY <1>1, <1>3, <2>1, <2>2, <2>3, OneOn
  <2>5. Typed'
    BY <2>4 DEF IInv, Typed, Run
  <2>6. \A c \in Members(calls') : c.call # "step_world"
    BY <1>1, <1>2, <1>6, <2>4
  <2>7. ~Building(Top')
    BY <1>6, <2>4 DEF Building
  <2>8. UNCHANGED world /\ \A s \in SimId : sims'[s].status = sims[s].status
    BY DEF Run
  <2>9. QED
    BY <1>1, <2>4, <2>5, <2>6, <2>7, <2>8, NoneNewNext
<1>8. CASE ~Running(Game)
  <2>1. calls' = <<b>> \o Return /\ IsStack(Return) /\ Ordered(Return)
    BY <1>1, <1>5, <1>8, AtTheTop DEF Run
  <2>2. Fine(b)'
    BY <1>4, <1>6 DEF Fine, Building, OfWorld, Run
  <2>3. /\ \A c \in Members(Return) : Over(b, c)
        /\ \A c \in Members(Return) : Fine(c)'
    BY <1>2
  <2>4. /\ IsStack(calls') /\ Ordered(calls') /\ AllFine' /\ calls' # << >> /\ Top' = b
        /\ Members(calls') = {b} \cup Members(Return)
    BY <2>1, <2>2, <2>3, OneOn
  <2>5. Typed'
    BY <2>4 DEF IInv, Typed, Run
  <2>6. \A c \in Members(calls') : c.call # "step_world"
    BY <1>2, <1>6, <2>4
  <2>7. ~Building(Top')
    BY <1>6, <2>4 DEF Building
  <2>8. UNCHANGED world /\ \A s \in SimId : sims'[s].status = sims[s].status
    BY DEF Run
  <2>9. QED
    BY <1>1, <2>4, <2>5, <2>6, <2>7, <2>8, NoneNewNext
<1>9. QED
  BY <1>7, <1>8

\* A step of the game, or of its world, tells the listeners.
LEMMA StepPreserves ==
    ASSUME IInv, Step
    PROVE  IInv'
<1>1. /\ calls # << >> /\ Top.call = "step" /\ ~Building(Top) /\ ~Tells(Top)
      /\ IsStack(Return) /\ Ordered(Return)
      /\ Members(calls) = {Top} \cup Members(Return)
  BY AtTheTop DEF Step, At, Building, Tells
<1>2. PICK s \in SimId : s = Top.sim /\ Running(s) /\ (s # Game => s = world)
  BY <1>1, AtTheTop DEF Fine, WellMade, OfWorld
<1>3. PICK a, b, d : /\ a = Broadcast(s, "on_step_begin") /\ b = Broadcast(s, "on_step")
                     /\ d = Broadcast(s, "on_step_end")
  OBVIOUS
<1>4. /\ WellMade(a) /\ a.call = "broadcast" /\ a.sim = s
      /\ WellMade(b) /\ b.call = "broadcast" /\ b.sim = s
      /\ WellMade(d) /\ d.call = "broadcast" /\ d.sim = s
  BY <1>3, CallsMade
<1>5. /\ calls' = <<a, b, d>> \o Return
      /\ UNCHANGED <<requires, sims, world, errors>>
  BY <1>2, <1>3 DEF Step
<1>6. ASSUME NEW c \in Members(Return) PROVE Plain(c) /\ Fine(c)'
  <2>1. (c.call = "step_world" \/ Plain(c)) /\ Fine(c) /\ Over(Top, c)
    BY <1>1, BelowWorld, AtTheTop
  <2>2. c.call # "step_world"
    BY <1>1, <2>1 DEF Over, Welcomes
  <2>3. QED
    BY <1>5, <2>1, <2>2, FineSame
<1>7. \A c \in Members(Return) : Over(a, c) /\ Over(b, c) /\ Over(d, c)
  BY <1>4, <1>6, OverPlain
<1>8. Over(a, b) /\ Over(a, d) /\ Over(b, d)
  BY <1>4 DEF Over, Building, OfWorld, Tells
<1>9. Fine(a)' /\ Fine(b)' /\ Fine(d)'
  BY <1>2, <1>4, <1>5 DEF Fine, Running, Building, OfWorld
<1>10. /\ IsStack(calls') /\ Ordered(calls') /\ AllFine' /\ calls' # << >> /\ Top' = a
       /\ Members(calls') = {a, b, d} \cup Members(Return)
  BY <1>1, <1>5, <1>6, <1>7, <1>8, <1>9, ThreeOn
<1>11. Typed'
  BY <1>5, <1>10 DEF IInv, Typed
<1>12. \A c \in Members(calls') : c.call # "step_world"
  BY <1>4, <1>6, <1>10 DEF Plain
<1>13. ~Building(Top')
  BY <1>4, <1>10 DEF Building
<1>14. \A x \in SimId : sims'[x].status = sims[x].status
  BY <1>5
<1>15. QED
  BY <1>1, <1>5, <1>10, <1>11, <1>12, <1>13, <1>14, NoneNewNext

\* With the game nothing is left.
LEMMA FinalizePreserves ==
    ASSUME IInv, Finalize
    PROVE  IInv'
<1>1. /\ calls # << >> /\ Top.call = "finalize" /\ ~Building(Top)
      /\ Fine(Top) /\ Top.sim = Game
  BY AtTheTop DEF Finalize, At, Building, Fine, WellMade
<1>2. /\ sims' = [sims EXCEPT ![Game].status = "finalized"] /\ calls' = << >>
      /\ UNCHANGED <<requires, world, errors>>
  BY <1>1, NothingBelow DEF Finalize
<1>3. IsStack(calls') /\ Ordered(calls') /\ Members(calls') = {}
  BY <1>2, Short, OneOrdered
<1>4. /\ \A s \in SimId : sims[s].status # "new"
      /\ sims'[Game].status = "finalized" /\ \A w \in WorldId : sims'[w] = sims[w]
  BY <1>1, <1>2, NoneNew, Numbers DEF IInv, Typed, Sim
<1>5. Typed'
  BY <1>2, <1>3 DEF IInv, Typed, Sim
<1>6. AllFine' /\ WorldsAwaited'
  BY <1>2, <1>3 DEF AllFine, WorldsAwaited
<1>7. WorldsInTurn'
  BY <1>2, <1>4, Numbers DEF IInv, WorldsInTurn, Typed
<1>8. GameInTurn'
  BY <1>2, <1>4 DEF GameInTurn
<1>9. QED
  BY <1>3, <1>5, <1>6, <1>7, <1>8 DEF IInv

\* After the last listener, what called the broadcast goes on.
LEMMA EndBroadcastPreserves ==
    ASSUME IInv, EndBroadcast
    PROVE  IInv'
<1>1. /\ calls # << >> /\ Top.call = "broadcast" /\ ~Building(Top) /\ IsStack(Return)
      /\ Members(calls) = {Top} \cup Members(Return)
      /\ \A c \in Members(Return) : Fine(c) /\ Over(Top, c)
  BY AtTheTop DEF EndBroadcast, At, Building
<1>2. calls' = Return /\ UNCHANGED <<requires, sims, world, errors>>
  BY DEF EndBroadcast
<1>3. \A c \in Members(Return) : Fine(c)'
  BY <1>1, <1>2, FineSame
<1>4. IsStack(calls') /\ Ordered(calls') /\ AllFine'
  BY <1>1, <1>2, <1>3, Returned
<1>5. Typed'
  BY <1>2, <1>4 DEF IInv, Typed
<1>6. calls' # << >> => ~Building(Top')
  <2>1. ASSUME calls' # << >> PROVE Head(Return) \in Members(Return) /\ Top' = Head(Return)
    BY <1>1, <1>2, <2>1, Popped DEF Top
  <2>2. \A c \in Members(Return) : ~Building(c)
    BY <1>1 DEF Over
  <2>3. QED
    BY <2>1, <2>2 DEF Building
<1>7. \A c \in Members(calls') : c.call = "step_world" => world # nil /\ ~sims'[world].stopping
  BY <1>1, <1>2, NoneNew
<1>8. UNCHANGED world /\ \A s \in SimId : sims'[s].status = sims[s].status
  BY <1>2
<1>9. QED
  BY <1>1, <1>4, <1>5, <1>6, <1>7, <1>8, NoneNewNext

\* The world that is stepped runs.
LEMMA StepWorldPreserves ==
    ASSUME IInv, StepWorld
    PROVE  IInv'
<1>1. /\ calls # << >> /\ Top.call = "step_world" /\ ~Building(Top) /\ ~OfWorld(Top)
      /\ ~Welcomes(Top) /\ IsStack(Return) /\ Ordered(Return)
      /\ Members(calls) = {Top} \cup Members(Return)
  BY AtTheTop DEF StepWorld, At, Building, OfWorld, Welcomes
<1>2. world \in WorldId /\ Running(world)
  BY <1>1, NoneNew DEF Running
<1>3. PICK w, a : w \in WorldId /\ w = world /\ a = Of("step", w)
  BY <1>2
<1>4. WellMade(a) /\ a.call = "step" /\ a.sim = w
  BY <1>3, CallsMade, Numbers
<1>5. calls' = <<a>> \o Return /\ UNCHANGED <<requires, sims, world, errors>>
  BY <1>3 DEF StepWorld
<1>6. \A c \in Members(Return) : Plain(c) /\ Fine(c)'
  BY <1>1, <1>5, AtTheTop, BelowGame, FineSame
<1>7. \A c \in Members(Return) : Over(a, c)
  BY <1>4, <1>6, OverPlain
<1>8. Fine(a)'
  BY <1>2, <1>3, <1>4, <1>5 DEF Fine, Running, Building, OfWorld
<1>9. /\ IsStack(calls') /\ Ordered(calls') /\ AllFine' /\ calls' # << >> /\ Top' = a
      /\ Members(calls') = {a} \cup Members(Return)
  BY <1>1, <1>5, <1>6, <1>7, <1>8, OneOn
<1>10. Typed'
  BY <1>5, <1>9 DEF IInv, Typed
<1>11. ~Building(Top') /\ \A c \in Members(calls') : c.call # "step_world"
  BY <1>4, <1>6, <1>9 DEF Building, Plain
<1>12. \A s \in SimId : sims'[s].status = sims[s].status
  BY <1>5
<1>13. QED
  BY <1>1, <1>5, <1>9, <1>10, <1>11, <1>12, NoneNewNext

\* A listener that returned, whatever requests to stop it made.
LEMMA HeardPreserves ==
    ASSUME IInv, At("broadcast"), calls' = Heard, UNCHANGED world, Typed',
           \A s \in SimId : sims'[s].status = sims[s].status,
           \A c \in Members(Heard) : Fine(c)',
           \A c \in Members(Return) : c.call = "step_world" => ~sims'[world].stopping
    PROVE  IInv'
<1>1. /\ calls # << >> /\ Top.call = "broadcast" /\ ~Building(Top)
      /\ Members(calls) = {Top} \cup Members(Return)
  BY AtTheTop DEF At, Building
<1>2. PICK h : /\ h.call = "broadcast" /\ IsStack(Heard) /\ Ordered(Heard)
               /\ Members(Heard) = {h} \cup Members(Return)
               /\ Heard # << >> /\ Head(Heard) = h
  BY HeardCalls
<1>3. Ordered(calls') /\ AllFine'
  BY <1>2 DEF AllFine
<1>4. calls' # << >> /\ ~Building(Top')
  BY <1>2 DEF Top, Building
<1>5. \A c \in Members(calls') : c.call = "step_world" => world # nil /\ ~sims'[world].stopping
  BY <1>1, <1>2, NoneNew
<1>6. QED
  BY <1>1, <1>3, <1>4, <1>5, NoneNewNext

\* A listener that changed no simulation.
LEMMA HeardOnly ==
    ASSUME IInv, At("broadcast"), calls' = Heard,
           UNCHANGED <<requires, sims, world, errors>>
    PROVE  IInv'
<1>1. PICK h : /\ Fine(h) /\ IsStack(Heard) /\ Members(Heard) = {h} \cup Members(Return)
  BY HeardCalls
<1>2. calls # << >> /\ Top.call = "broadcast" /\ ~Building(Top)
      /\ Members(calls) = {Top} \cup Members(Return)
  BY AtTheTop DEF At, Building
<1>3. \A c \in Members(Heard) : Fine(c)'
  BY <1>1, <1>2, AtTheTop, FineSame
<1>4. Typed'
  BY <1>1 DEF IInv, Typed
<1>5. \A c \in Members(Return) : c.call = "step_world" => ~sims'[world].stopping
  BY <1>2, NoneNew
<1>6. QED
  BY <1>3, <1>4, <1>5, HeardPreserves

\* A listener of a world may do nothing.
LEMMA QuietPreserves ==
    ASSUME IInv, Quiet
    PROVE  IInv'
<1>1. At("broadcast")
  BY DEF Quiet, HeardInWorld, Calling, At
<1>2. QED
  BY <1>1, HeardOnly DEF Quiet

\* A request to stop, while a world or the game tells of a step, leaves all fine: what
\* starts or steps is not under way below.
LEMMA StopPreserves ==
    ASSUME IInv, At("broadcast"), Top.event = "on_step", NEW s \in SimId,
           s = Game \/ (s = world /\ Top.sim = world),
           sims' = [sims EXCEPT ![s].stopping = TRUE], calls' = Heard,
           UNCHANGED <<requires, world, errors>>
    PROVE  IInv'
<1>1. PICK h : /\ Fine(h) /\ h.call = "broadcast" /\ IsStack(Heard)
               /\ Members(Heard) = {h} \cup Members(Return)
  BY HeardCalls
<1>2. /\ calls # << >> /\ Top.call = "broadcast" /\ ~Building(Top)
      /\ Members(calls) = {Top} \cup Members(Return)
      /\ \A c \in Members(Return) : Fine(c) /\ Over(Top, c)
  BY AtTheTop DEF At, Building
<1>3. /\ \A x \in SimId : sims'[x].status = sims[x].status
      /\ \A x \in SimId \ {s} : sims'[x] = sims[x]
  BY DEF IInv, Typed, Sim
<1>4. Typed'
  BY <1>1 DEF IInv, Typed, Sim
<1>5. ASSUME NEW c \in Members(Heard) PROVE Fine(c)'
  <2>1. Fine(c) /\ (c.call \in {"start", "step"} => c \in Members(Return) /\ Over(Top, c))
    BY <1>1, <1>2
  <2>2. c.call \notin {"start", "step"}
    BY <2>1 DEF Over, OfWorld, Tells
  <2>3. WellMade(c)' /\ c.sim \in SimId
    BY <2>1 DEF Fine, WellMade, Building
  <2>4. QED
    BY <1>3, <2>1, <2>2, <2>3 DEF Fine, Building, OfWorld
<1>6. ASSUME NEW c \in Members(Return), c.call = "step_world" PROVE ~sims'[world].stopping
  <2>1. c \in Members(calls) /\ Over(Top, c)
    BY <1>2, <1>6
  <2>2. world \in WorldId /\ ~sims[world].stopping
    BY <1>2, <1>6, <2>1, NoneNew
  <2>3. s # world
    BY <1>2, <1>6, <2>1, <2>2, Numbers DEF Over, Building, OfWorld, Begins, Welcomes
  <2>4. QED
    BY <1>3, <2>2, <2>3, Numbers
<1>7. QED
  BY <1>3, <1>4, <1>5, <1>6, HeardPreserves

\* A listener asks the world to stop.
LEMMA StopWorldPreserves ==
    ASSUME IInv, StopWorld
    PROVE  IInv'
<1>1. At("broadcast") /\ Top.event = "on_step" /\ Top.sim = world
  BY DEF StopWorld, Calling, At
<1>2. world \in SimId
  BY <1>1, AtTheTop DEF StopWorld, Calling, Fine, WellMade
<1>3. QED
  BY <1>1, <1>2, StopPreserves DEF StopWorld

\* A listener of the world asks the game to.
LEMMA StopGamePreserves ==
    ASSUME IInv, StopGame
    PROVE  IInv'
<1>1. At("broadcast") /\ Top.event = "on_step"
  BY DEF StopGame, Calling, At
<1>2. QED
  BY <1>1, StopPreserves, Numbers DEF StopGame

\* The client stops the game, or has the world drawn.
LEMMA ClientPreserves ==
    ASSUME IInv, ClientSteps
    PROVE  IInv'
<1>1. At("broadcast") /\ Top.event = "on_step" /\ Top.sim = Game /\ calls # << >>
  BY DEF ClientSteps, Calling, At
<1>2. UNCHANGED <<requires, world, errors>>
  BY DEF ClientSteps
<1>3. CASE sims' = [sims EXCEPT ![Game].stopping = TRUE] /\ calls' = Heard
  BY <1>1, <1>2, <1>3, StopPreserves, Numbers
<1>4. CASE calls' = Heard /\ UNCHANGED sims
  BY <1>1, <1>2, <1>4, HeardOnly
<1>5. CASE world # nil /\ calls' = <<Broadcast(world, "on_draw")>> \o Heard /\ UNCHANGED sims
  <2>1. ~Building(Top) /\ ~OfWorld(Top) /\ ~Welcomes(Top) /\ Top.call = "broadcast"
    BY <1>1 DEF At, Building, OfWorld, Welcomes
  <2>2. world \in WorldId /\ sims[world].status = "started"
    BY <1>1, <1>5, <2>1, NoneNew
  <2>3. PICK w, a : w \in WorldId /\ w = world /\ a = Broadcast(w, "on_draw")
    BY <2>2
  <2>4. WellMade(a) /\ a.call = "broadcast" /\ a.sim = w
    BY <2>3, CallsMade, Numbers
  <2>5. PICK h : /\ h.call = "broadcast" /\ h.sim = Game /\ Fine(h) /\ IsStack(Heard)
                 /\ Ordered(Heard) /\ Members(Heard) = {h} \cup Members(Return)
    BY <1>1, HeardCalls
  <2>6. \A c \in Members(Heard) : Plain(c) /\ Fine(c)
    BY <1>1, <2>1, <2>5, AtTheTop, BelowGame DEF Plain
  <2>7. \A c \in Members(Heard) : Over(a, c) /\ Fine(c)'
    BY <1>2, <1>5, <2>4, <2>6, OverPlain, FineSame
  <2>8. Fine(a)'
    BY <1>2, <1>5, <2>2, <2>3, <2>4 DEF Fine, Building, OfWorld
  <2>9. calls' = <<a>> \o Heard
    BY <1>5, <2>3
  <2>10. /\ IsStack(calls') /\ Ordered(calls') /\ AllFine' /\ calls' # << >> /\ Top' = a
         /\ Members(calls') = {a} \cup Members(Heard)
    BY <2>5, <2>7, <2>8, <2>9, OneOn
  <2>11. Typed'
    BY <1>2, <1>5, <2>10 DEF IInv, Typed
  <2>12. ~Building(Top') /\ \A c \in Members(calls') : c.call # "step_world"
    BY <2>4, <2>6, <2>10 DEF Building, Plain
  <2>13. \A s \in SimId : sims'[s].status = sims[s].status
    BY <1>5
  <2>14. QED
    BY <1>1, <1>2, <2>1, <2>10, <2>11, <2>12, <2>13, NoneNewNext
<1>6. QED
  BY <1>3, <1>4, <1>5 DEF ClientSteps

\* The controller tells the world, while it is the one that is awaited, if one is, of
\* the inputs that changed.
LEMMA ControllerPreserves ==
    ASSUME IInv, ControllerReads
    PROVE  IInv'
<1>1. /\ At("broadcast") /\ Top.sim = Game /\ calls # << >> /\ Top.call = "broadcast"
      /\ ~Building(Top) /\ ~OfWorld(Top) /\ UNCHANGED <<requires, sims, world, errors>>
  BY DEF ControllerReads, Calling, At, Building, OfWorld
<1>2. CASE calls' = Heard
  BY <1>1, <1>2, HeardOnly
<1>3. CASE calls' # Heard
  <2>1. PICK w, a : w = world /\ a = Broadcast(w, "on_input_set")
    OBVIOUS
  <2>2. PICK changes \in 0 .. MaxInputs : \E q :
           w # nil /\ q = [k \in 1 .. changes |-> a] /\ calls' = q \o Heard
    BY <1>3, <2>1 DEF ControllerReads
  <2>3. PICK q : w # nil /\ q = [k \in 1 .. changes |-> a] /\ calls' = q \o Heard
    BY <2>2
  <2>4. w \in WorldId /\ sims[w].status = "started"
    BY <1>1, <2>1, <2>3, NoneNew
  <2>5. WellMade(a) /\ a.call = "broadcast" /\ a.sim = w /\ Begins(a) /\ Tells(a) /\ OfWorld(a)
    BY <2>1, <2>4, CallsMade, Numbers DEF Begins, Tells, OfWorld
  <2>6. Over(a, a)
    BY <2>5 DEF Over, Building
  <2>7. PICK h : /\ h.call = "broadcast" /\ h.sim = Game /\ Fine(h) /\ IsStack(Heard)
                 /\ Ordered(Heard) /\ Members(Heard) = {h} \cup Members(Return)
                 /\ Heard # << >> /\ Head(Heard) = h
    BY <1>1, HeardCalls
  <2>8. ASSUME NEW c \in Members(Heard)
        PROVE  Over(a, c) /\ Fine(c) /\ Fine(c)'
    <3>1. c = h \/ (Fine(c) /\ Over(Top, c))
      BY <1>1, <2>7, AtTheTop
    <3>2. Fine(c) /\ Fine(c)'
      BY <1>1, <2>7, <3>1, AtTheTop, FineSame
    <3>3. CASE c = h
      <4>1. Plain(c)
        BY <2>7, <3>3 DEF Plain
      <4>2. QED
        BY <2>5, <3>2, <4>1, OverPlain
    <3>4. CASE Over(Top, c)
      <4>1. ~Building(c) /\ ~OfWorld(c) /\ c.call # "finalize"
        BY <1>1, <3>4 DEF Over, Tells, OfWorld
      <4>2. c.call \in {"start", "step"} => c.sim # Game
        BY <3>4 DEF Over
      <4>3. QED
        BY <2>5, <3>2, <4>1, <4>2 DEF Over
    <3>5. QED
      BY <3>1, <3>2, <3>3, <3>4
  <2>9. Fine(a)'
    BY <1>1, <2>1, <2>4, <2>5 DEF Fine, Building
  <2>10. /\ changes \in Nat /\ IsStack(q) /\ Members(q) \subseteq {a}
         /\ \A k \in 1 .. Len(q) : q[k] = a
    <3>1. changes \in Nat
      OBVIOUS
    <3>2. q = [k \in 1 .. changes |-> a]
      BY <2>3
    <3>3. QED
      BY <3>1, <3>2, Copies
  <2>11. Ordered(q)
    BY <2>6, <2>10 DEF Ordered
  <2>12. /\ \A x \in Members(q) : Fine(x)'
         /\ \A x \in Members(q), c \in Members(Heard) : Over(x, c)
         /\ \A c \in Members(Heard) : Fine(c)'
    BY <2>8, <2>9, <2>10
  <2>13. /\ IsStack(calls') /\ Ordered(calls') /\ AllFine'
         /\ Members(calls') = Members(q) \cup Members(Heard)
    BY <2>3, <2>7, <2>10, <2>11, <2>12, Stacked
  <2>14. calls' # << >> => ~Building(Top')
    <3>1. ASSUME calls' # << >> PROVE Top' \in Members(calls')
      BY <2>13, <3>1, Popped DEF Top
    <3>2. \A c \in Members(calls') : ~Building(c)
      <4>1. ~Building(a) /\ ~Building(h)
        BY <2>5, <2>7 DEF Building
      <4>2. \A c \in Members(Return) : ~Building(c)
        BY <1>1, AtTheTop DEF Over
      <4>3. QED
        BY <2>7, <2>10, <2>13, <4>1, <4>2
    <3>3. QED
      BY <3>1, <3>2 DEF Building
  <2>15. Typed'
    BY <1>1, <2>13 DEF IInv, Typed
  <2>16. \A c \in Members(calls') : c.call = "step_world" =>
             world # nil /\ ~sims'[world].stopping
    BY <1>1, <2>5, <2>7, <2>10, <2>13, NoneNew, AtTheTop
  <2>17. \A s \in SimId : sims'[s].status = sims[s].status
    BY <1>1
  <2>18. QED
    BY <1>1, <2>13, <2>14, <2>15, <2>16, <2>17, NoneNewNext
<1>4. QED
  BY <1>2, <1>3

-----------------------------------------------------------------------------
(***************************************************************************)
(* The making of worlds.                                                   *)
(***************************************************************************)
\* What is to be required, for a world.
LEMMA RequiringCalls ==
    ASSUME NEW s \in WorldId, NEW systems \in Seq(WorldSystem)
    PROVE  /\ IsStack(Requiring(s, systems))
           /\ \A c \in Members(Requiring(s, systems)) :
                 WellMade(c) /\ c.call = "require" /\ c.sim = s
           /\ Ordered(Requiring(s, systems))
<1> DEFINE q == Requiring(s, systems)
<1>1. /\ DOMAIN systems = 1 .. Len(systems) /\ Len(systems) \in Nat
      /\ \A k \in 1 .. Len(systems) : systems[k] \in WorldSystem
  OBVIOUS
<1>2. q = [k \in 1 .. Len(systems) |-> With("require", s, systems[k])]
  BY <1>1 DEF Requiring
<1>3. \A k \in 1 .. Len(systems) : /\ WellMade(q[k]) /\ q[k].call = "require" /\ q[k].sim = s
  BY <1>1, <1>2, CallsMade, Numbers
<1>4. PICK S : S = {With("require", s, systems[k]) : k \in 1 .. Len(systems)}
  OBVIOUS
<1>5. q \in [1 .. Len(systems) -> S]
  BY <1>2, <1>4
<1>6. q \in Seq(S) /\ Len(q) = Len(systems)
  BY <1>1, <1>5
<1>7. IsStack(q) /\ \A c \in Members(q) : WellMade(c) /\ c.call = "require" /\ c.sim = s
  BY <1>3, <1>6 DEF IsStack, Members
<1>8. \A j, k \in 1 .. Len(q) : Over(q[j], q[k])
  BY <1>3, <1>6 DEF Over, Building, OfWorld
<1>9. QED
  BY <1>7, <1>8 DEF Ordered

\* A world is made while no other is, above calls of the game.
LEMMA BuildPreserves ==
    ASSUME IInv, calls # << >>, ~Building(Top), Top.call # "start",
           NEW after, IsStack(after), Ordered(after), Build(after),
           \A c \in Members(after) : Fine(c) /\ (c.call = "step_world" \/ Plain(c)),
           UNCHANGED <<requires, world, errors>>
    PROVE  IInv'
<1>1. PICK w \in Fresh :
         /\ sims' = [sims EXCEPT ![w] = Made]
         /\ calls' = Requiring(w, Roots) \o <<Of("set", w)>> \o after
  BY DEF Build
<1>2. w \in WorldId /\ sims[w].status = "unmade"
  BY <1>1 DEF Fresh
<1>3. /\ \A s \in SimId : sims[s].status # "new"
      /\ sims[Game].status = "started"
      /\ world # nil => world \in WorldId /\ sims[world].status = "started"
  BY NoneNew
<1>4. /\ sims'[w].status = "new" /\ ~sims'[w].stopping /\ w # world /\ w # Game
      /\ \A s \in SimId \ {w} : sims'[s] = sims[s]
  BY <1>1, <1>2, <1>3, Numbers DEF IInv, Typed, Made, Unmade
<1>5. PICK q, b : q = Requiring(w, Roots) /\ b = Of("set", w)
  OBVIOUS
<1>6. /\ IsStack(q) /\ Ordered(q)
      /\ \A c \in Members(q) : WellMade(c) /\ c.call = "require" /\ c.sim = w
  BY <1>2, <1>5, RequiringCalls, RootsAssumption
<1>7. WellMade(b) /\ b.call = "set" /\ b.sim = w
  BY <1>2, <1>5, CallsMade, Numbers
<1>8. IsStack(<<b>>) /\ Ordered(<<b>>) /\ Members(<<b>>) = {b} /\ Len(<<b>>) = 1
  BY Short, OneOrdered
<1>9. PICK new : new = q \o <<b>>
  OBVIOUS
<1>10. IsStack(new) /\ Members(new) = Members(q) \cup {b} /\ Len(new) = Len(q) + 1
  BY <1>6, <1>8, <1>9, Pushed
<1>11. Ordered(new)
  <2>1. \A c \in Members(q) : Over(c, b)
    BY <1>6, <1>7 DEF Over, Building, OfWorld
  <2>2. QED
    BY <1>6, <1>8, <1>9, <2>1, PushedOrdered
<1>12. calls' = new \o after
  BY <1>1, <1>5, <1>9
<1>13. ASSUME NEW c \in Members(new)
       PROVE  Building(c) /\ c.sim = w /\ WellMade(c) /\ ~OfWorld(c)
              /\ c.call \in {"require", "set"}
  BY <1>6, <1>7, <1>10 DEF Building, OfWorld
<1>14. \A c \in Members(new) : Fine(c)'
  BY <1>4, <1>13 DEF Fine, WellMade, Building, OfWorld
<1>15. \A c \in Members(after) : Fine(c)'
  BY <1>2, <1>3, <1>4, FineBelow, Numbers
<1>16. \A a \in Members(new), c \in Members(after) : Over(a, c)
  BY <1>13 DEF Over, Building, OfWorld, Plain
<1>17. new # << >>
  BY <1>8, <1>10, Short
<1>18. /\ IsStack(calls') /\ Ordered(calls') /\ AllFine'
       /\ Members(calls') = Members(new) \cup Members(after)
  BY <1>10, <1>11, <1>12, <1>14, <1>15, <1>16, Stacked
<1>19. calls' # << >> /\ Top' = Head(new)
  BY <1>10, <1>11, <1>12, <1>14, <1>15, <1>16, <1>17, Stacked
<1>20. Top' \in Members(new)
  BY <1>10, <1>17, <1>19, Popped
<1>21. PICK t : t = Top'
  OBVIOUS
<1>22. t.call \in {"require", "set"} /\ t.sim = w
  BY <1>13, <1>20, <1>21
<1>23. Top'.call \in {"require", "set"} /\ Top'.sim = w
  BY <1>21, <1>22
<1>24. Typed'
  <2>1. sims' \in [SimId -> Sim]
    BY <1>1, MadeIsSim DEF IInv, Typed
  <2>2. QED
    BY <1>18, <2>1 DEF IInv, Typed
<1>25. WorldsInTurn'
  <2>1. ASSUME NEW x \in WorldId, sims'[x].status = "new" PROVE x = w
    BY <1>3, <1>4, <2>1, Numbers
  <2>2. ASSUME NEW x \in WorldId, x # world PROVE sims'[x].status # "started"
    BY <1>4, <2>2, Numbers DEF IInv, WorldsInTurn
  <2>3. world # nil => sims'[world].status = "started"
    BY <1>3, <1>4, Numbers
  <2>4. QED
    BY <1>4, <1>19, <1>23, <2>1, <2>2, <2>3 DEF WorldsInTurn, Building
<1>26. WorldsAwaited'
  BY <1>7, <1>10, <1>18, <1>23 DEF WorldsAwaited, Building
<1>27. GameInTurn'
  BY <1>3, <1>4, Numbers DEF GameInTurn
<1>28. QED
  BY <1>18, <1>24, <1>25, <1>26, <1>27 DEF IInv

\* The broadcast of the game once a listener of it returned.
LEMMA HeardInGame ==
    ASSUME IInv, At("broadcast"), Top.sim = Game, Top.event # "on_world_start"
    PROVE  /\ calls # << >> /\ ~Building(Top) /\ Top.call = "broadcast"
           /\ IsStack(Heard) /\ Ordered(Heard)
           /\ \A c \in Members(Heard) : Fine(c) /\ Plain(c)
<1>1. PICK h : /\ h.call = "broadcast" /\ h.sim = Game /\ Fine(h) /\ IsStack(Heard)
               /\ Ordered(Heard) /\ Members(Heard) = {h} \cup Members(Return)
  BY HeardCalls
<1>2. /\ calls # << >> /\ ~Building(Top) /\ ~OfWorld(Top) /\ ~Welcomes(Top)
      /\ Top.call = "broadcast"
  BY DEF At, Building, OfWorld, Welcomes
<1>3. QED
  BY <1>1, <1>2, AtTheTop, BelowGame DEF Plain

\* The game makes its first world when it starts.
LEMMA WorldStartsPreserves ==
    ASSUME IInv, WorldStarts
    PROVE  IInv'
<1>1. At("broadcast") /\ Top.sim = Game /\ Top.event # "on_world_start"
  BY DEF WorldStarts, Calling, At
<1>2. PICK after : after = Heard
  OBVIOUS
<1>3. Build(after) /\ UNCHANGED <<requires, world, errors>>
  BY <1>2 DEF WorldStarts, Build
<1>4. QED
  BY <1>1, <1>2, <1>3, HeardInGame, BuildPreserves

\* The debug system of the game may load a world.
LEMMA DebugPreserves ==
    ASSUME IInv, DebugSteps
    PROVE  IInv'
<1>1. At("broadcast") /\ Top.sim = Game /\ Top.event # "on_world_start"
  BY DEF DebugSteps, Calling, At
<1>2. PICK after : after = Heard
  OBVIOUS
<1>3. UNCHANGED <<requires, world, errors>>
  BY DEF DebugSteps
<1>4. CASE Build(Heard)
  <2>1. Build(after)
    BY <1>2, <1>4 DEF Build
  <2>2. QED
    BY <1>1, <1>2, <1>3, <2>1, HeardInGame, BuildPreserves
<1>5. CASE calls' = Heard /\ UNCHANGED sims
  BY <1>1, <1>3, <1>5, HeardOnly
<1>6. QED
  BY <1>4, <1>5 DEF DebugSteps

\* The world that is to be stepped is there, or is made first.
LEMMA WorldStepsPreserves ==
    ASSUME IInv, WorldSteps
    PROVE  IInv'
<1>1. /\ At("broadcast") /\ Top.sim = Game /\ Top.event # "on_world_start"
      /\ UNCHANGED <<requires, world, errors>>
  BY DEF WorldSteps, Calling, At
<1>2. /\ calls # << >> /\ ~Building(Top) /\ Top.call = "broadcast"
      /\ IsStack(Heard) /\ Ordered(Heard)
      /\ \A c \in Members(Heard) : Fine(c) /\ Plain(c)
  BY <1>1, HeardInGame
<1>3. PICK a, after : a = Of("step_world", Game) /\ after = <<a>> \o Heard
  OBVIOUS
<1>4. WellMade(a) /\ a.call = "step_world" /\ a.sim = Game
  BY <1>3, CallsMade, Numbers
<1>5. Fine(a)
  BY <1>4 DEF Fine, Building, OfWorld
<1>6. \A c \in Members(Heard) : Over(a, c)
  BY <1>2, <1>4, OverPlain
<1>7. IsStack(<<a>>) /\ Ordered(<<a>>) /\ Members(<<a>>) = {a}
  BY Short, OneOrdered
<1>8. /\ IsStack(after) /\ Ordered(after)
      /\ \A c \in Members(after) : Fine(c) /\ (c.call = "step_world" \/ Plain(c))
  BY <1>2, <1>3, <1>4, <1>5, <1>6, <1>7, Pushed, PushedOrdered
<1>9. CASE Replaceable
  <2>1. Build(after)
    BY <1>3, <1>9 DEF WorldSteps, Build
  <2>2. QED
    BY <1>1, <1>2, <1>8, <2>1, BuildPreserves
<1>10. CASE ~Replaceable
  <2>1. calls' = <<a>> \o Heard /\ UNCHANGED sims
    BY <1>3, <1>10 DEF WorldSteps
  <2>2. Fine(a)' /\ \A c \in Members(Heard) : Fine(c)'
    BY <1>1, <1>2, <1>5, <2>1, FineSame
  <2>3. /\ IsStack(calls') /\ Ordered(calls') /\ AllFine' /\ calls' # << >> /\ Top' = a
        /\ Members(calls') = {a} \cup Members(Heard)
    BY <1>2, <1>6, <2>1, <2>2, OneOn
  <2>4. Typed'
    BY <1>1, <2>1, <2>3 DEF IInv, Typed
  <2>5. ~Building(Top')
    BY <1>4, <2>3 DEF Building
  <2>6. world # nil /\ ~sims'[world].stopping
    BY <1>10, <2>1 DEF Replaceable
  <2>7. \A s \in SimId : sims'[s].status = sims[s].status
    BY <2>1
  <2>8. QED
    BY <1>1, <1>2, <2>3, <2>4, <2>5, <2>6, <2>7, NoneNewNext
<1>11. QED
  BY <1>9, <1>10

\* What is under way above a call may be replaced by other calls of the making.
LEMMA BuildingOver ==
    ASSUME NEW a, NEW b, NEW c, Building(a), a.call # "set", Building(b), b.call # "set",
           a.sim = b.sim, Over(a, c)
    PROVE  Over(b, c)
BY DEF Over, Building, OfWorld, Tells

\* The invariant while the making of a world goes on.
LEMMA MakingGoesOn ==
    ASSUME IInv, calls # << >>, Top.call \in {"require", "on_init"},
           Typed', Ordered(calls'), AllFine', UNCHANGED world,
           \A s \in SimId : /\ sims'[s].status = sims[s].status
                            /\ sims'[s].stopping = sims[s].stopping,
           calls' # << >>, Building(Top'), Top'.sim = Top.sim,
           \E c \in Members(calls') : c.call = "set"
    PROVE  IInv'
<1>1. WorldsInTurn'
  <2>1. ASSUME NEW w \in WorldId, sims'[w].status = "new"
        PROVE  w # world /\ ~sims'[w].stopping /\ Top'.sim = w
    BY <2>1, Numbers DEF IInv, WorldsInTurn
  <2>2. \A w \in WorldId : w # world => sims'[w].status # "started"
    BY Numbers DEF IInv, WorldsInTurn
  <2>3. world # nil => sims'[world].status \in {"new", "started"}
    BY Numbers DEF IInv, WorldsInTurn, Typed
  <2>4. QED
    BY <2>1, <2>2, <2>3 DEF WorldsInTurn
<1>2. WorldsAwaited'
  BY DEF WorldsAwaited
<1>3. GameInTurn'
  BY Numbers DEF IInv, GameInTurn
<1>4. QED
  BY <1>1, <1>2, <1>3 DEF IInv

\* A system is required, once what it requires is: while its world is new.
LEMMA RequirePreserves ==
    ASSUME IInv, Require
    PROVE  IInv'
<1>1. /\ calls # << >> /\ Top.call = "require" /\ Building(Top) /\ Fine(Top)
      /\ IsStack(Return) /\ Ordered(Return) /\ Members(calls) = {Top} \cup Members(Return)
      /\ \A c \in Members(Return) : Fine(c) /\ Over(Top, c)
  BY AtTheTop DEF Require, At, Building
<1>2. PICK s \in WorldId, system \in WorldSystem :
         /\ s = Top.sim /\ s # world /\ sims[s].status = "new"
         /\ Top.rest = <<system>>
  BY <1>1, Numbers DEF Fine, WellMade
<1>3. Head(Top.rest) = system
  BY <1>2
<1>4. /\ Return # << >> /\ Building(Head(Return)) /\ Head(Return).sim = s
      /\ \E c \in Members(Return) : c.call = "set"
  BY <1>1, <1>2, BuildingGoesOn
<1>5. UNCHANGED <<requires, world, errors>>
  BY DEF Require
<1>6. CASE calls' = Return /\ UNCHANGED sims
  <2>1. \A c \in Members(Return) : Fine(c)'
    BY <1>1, <1>5, <1>6, FineSame
  <2>2. IsStack(calls') /\ Ordered(calls') /\ AllFine'
    BY <1>1, <1>6, <2>1, Returned
  <2>3. Typed'
    BY <1>5, <1>6, <2>2 DEF IInv, Typed
  <2>4. calls' # << >> /\ Building(Top') /\ Top'.sim = Top.sim
    BY <1>2, <1>4, <1>6 DEF Top, Building
  <2>5. \E c \in Members(calls') : c.call = "set"
    BY <1>4, <1>6
  <2>6. QED
    BY <1>1, <1>5, <1>6, <2>2, <2>3, <2>4, <2>5, MakingGoesOn
<1>7. CASE /\ sims' = [sims EXCEPT ![s].systems = @ \cup {system}]
           /\ calls' = Requiring(s, requires[system])
                         \o <<With("on_init", s, system)>> \o Return
  <2>1. /\ \A x \in SimId : /\ sims'[x].status = sims[x].status
                            /\ sims'[x].stopping = sims[x].stopping
        /\ sims' \in [SimId -> Sim]
    BY <1>7 DEF IInv, Typed, Sim, System
  <2>2. requires[system] \in Seq(WorldSystem)
    BY RequirementsAssumption DEF IInv, Typed
  <2>3. PICK q, b : q = Requiring(s, requires[system]) /\ b = With("on_init", s, system)
    OBVIOUS
  <2>4. /\ IsStack(q) /\ Ordered(q)
        /\ \A c \in Members(q) : WellMade(c) /\ c.call = "require" /\ c.sim = s
    BY <1>2, <2>2, <2>3, RequiringCalls
  <2>5. WellMade(b) /\ b.call = "on_init" /\ b.sim = s
    BY <1>2, <2>3, CallsMade, Numbers
  <2>6. IsStack(<<b>>) /\ Ordered(<<b>>) /\ Members(<<b>>) = {b} /\ Len(<<b>>) = 1
    BY Short, OneOrdered
  <2>7. PICK new : new = q \o <<b>>
    OBVIOUS
  <2>8. IsStack(new) /\ Members(new) = Members(q) \cup {b} /\ Len(new) = Len(q) + 1
    BY <2>4, <2>6, <2>7, Pushed
  <2>9. Ordered(new)
    <3>1. \A c \in Members(q) : Over(c, b)
      BY <2>4, <2>5 DEF Over, Building, OfWorld
    <3>2. QED
      BY <2>4, <2>6, <2>7, <3>1, PushedOrdered
  <2>10. calls' = new \o Return
    BY <1>7, <2>3, <2>7
  <2>11. ASSUME NEW c \in Members(new)
         PROVE  Building(c) /\ c.sim = s /\ WellMade(c) /\ ~OfWorld(c) /\ c.call # "set"
    BY <2>4, <2>5, <2>8 DEF Building, OfWorld
  <2>12. ASSUME NEW c \in Members(new) PROVE Fine(c)'
    <3>1. sims'[s].status = "new" /\ s # world'
      BY <1>2, <1>5, <2>1, Numbers
    <3>2. QED
      BY <2>11, <3>1 DEF Fine, WellMade, Building, OfWorld
  <2>13. \A c \in Members(Return) : Fine(c)'
    BY <1>1, <1>5, <2>1, FineKept
  <2>14. \A a \in Members(new), c \in Members(Return) : Over(a, c)
    <3>1. PICK t : t = Top
      OBVIOUS
    <3>2. Building(t) /\ t.call # "set" /\ t.sim = s /\ \A c \in Members(Return) : Over(t, c)
      BY <1>1, <1>2, <3>1
    <3>3. QED
      BY <2>11, <3>2, BuildingOver
  <2>15. new # << >>
    BY <2>6, <2>8, Short
  <2>16. /\ IsStack(calls') /\ Ordered(calls') /\ AllFine'
         /\ Members(calls') = Members(new) \cup Members(Return)
    BY <1>1, <2>8, <2>9, <2>10, <2>12, <2>13, <2>14, Stacked
  <2>17. calls' # << >> /\ Top' = Head(new)
    BY <1>1, <2>8, <2>9, <2>10, <2>12, <2>13, <2>14, <2>15, Stacked
  <2>18. PICK t : t = Head(new)
    OBVIOUS
  <2>19. t \in Members(new)
    BY <2>8, <2>15, <2>18, Popped
  <2>20. Building(t) /\ t.sim = s
    BY <2>11, <2>19
  <2>21. Building(Top') /\ Top'.sim = Top.sim
    BY <1>2, <2>17, <2>18, <2>20 DEF Building
  <2>22. Typed'
    BY <1>5, <2>1, <2>16 DEF IInv, Typed
  <2>23. \E c \in Members(calls') : c.call = "set"
    BY <1>4, <2>16
  <2>24. QED
    BY <1>1, <1>5, <2>1, <2>16, <2>17, <2>21, <2>22, <2>23, MakingGoesOn
<1>8. QED
  BY <1>2, <1>3, <1>6, <1>7 DEF Require

\* A system that was initialised listens.
LEMMA OnInitPreserves ==
    ASSUME IInv, OnInit
    PROVE  IInv'
<1>1. /\ calls # << >> /\ Top.call = "on_init" /\ Building(Top) /\ Fine(Top)
      /\ \A c \in Members(Return) : Fine(c) /\ Over(Top, c)
  BY AtTheTop DEF OnInit, At, Building
<1>2. PICK s \in SimId, system \in WorldSystem : s = Top.sim /\ Top.rest = <<system>>
  BY <1>1 DEF Fine, WellMade
<1>3. /\ sims' = [sims EXCEPT ![s].listeners = @ \o <<system>>] /\ calls' = Return
      /\ UNCHANGED <<requires, world, errors>>
  BY <1>2 DEF OnInit
<1>4. /\ Return # << >> /\ Building(Head(Return)) /\ Head(Return).sim = s
      /\ \E c \in Members(Return) : c.call = "set"
  BY <1>1, <1>2, BuildingGoesOn
<1>5. <<system>> \in Seq(System)
  BY DEF System
<1>6. sims[s] \in Sim /\ sims[s].listeners \o <<system>> \in Seq(System)
  BY <1>5 DEF IInv, Typed, Sim
<1>7. /\ \A x \in SimId : /\ sims'[x].status = sims[x].status
                          /\ sims'[x].stopping = sims[x].stopping
      /\ sims' \in [SimId -> Sim]
  BY <1>3, <1>6 DEF IInv, Typed, Sim
<1>8. \A c \in Members(Return) : Fine(c)'
  BY <1>1, <1>3, <1>7, FineKept
<1>9. IsStack(calls') /\ Ordered(calls') /\ AllFine'
  BY <1>1, <1>3, <1>8, Returned
<1>10. Typed'
  BY <1>3, <1>7, <1>9 DEF IInv, Typed
<1>11. calls' # << >> /\ Building(Top') /\ Top'.sim = Top.sim
  BY <1>2, <1>3, <1>4 DEF Top, Building
<1>12. \E c \in Members(calls') : c.call = "set"
  BY <1>3, <1>4
<1>13. QED
  BY <1>1, <1>3, <1>7, <1>9, <1>10, <1>11, <1>12, MakingGoesOn

\* The world that was is finalized, and the one that was made takes its place.
LEMMA SetPreserves ==
    ASSUME IInv, Set
    PROVE  IInv'
<1>1. /\ calls # << >> /\ Top.call = "set" /\ Building(Top) /\ ~Tells(Top) /\ Fine(Top)
      /\ IsStack(Return) /\ Ordered(Return)
      /\ \A c \in Members(Return) : Fine(c) /\ Over(Top, c)
  BY AtTheTop DEF Set, At, Building, Tells
<1>2. PICK s \in WorldId : s = Top.sim /\ s # world /\ sims[s].status = "new"
  BY <1>1, Numbers DEF Fine, WellMade
<1>3. PICK a, b : a = Of("start", s) /\ b = Broadcast(Game, "on_world_start")
  OBVIOUS
<1>4. /\ WellMade(a) /\ a.call = "start" /\ a.sim = s
      /\ WellMade(b) /\ b.call = "broadcast" /\ b.sim = Game /\ Welcomes(b) /\ Plain(b)
  BY <1>2, <1>3, CallsMade, Numbers DEF Welcomes, Plain
<1>5. /\ sims' = IF world = nil THEN sims ELSE [sims EXCEPT ![world].status = "finalized"]
      /\ world' = s /\ calls' = <<a, b>> \o Return /\ UNCHANGED <<requires, errors>>
  BY <1>2, <1>3 DEF Set, Starting
<1>6. /\ sims' \in [SimId -> Sim]
      /\ \A x \in SimId \ {world} : sims'[x] = sims[x]
      /\ world # nil => sims'[world].status = "finalized"
  BY <1>5, Numbers DEF IInv, Typed, Sim
<1>7. /\ sims[Game].status = "started" /\ sims'[Game] = sims[Game]
      /\ sims'[s] = sims[s] /\ ~sims[s].stopping
  BY <1>1, <1>2, <1>6, Numbers DEF IInv, GameInTurn, WorldsInTurn, Typed
<1>8. \A c \in Members(Return) : c.call = "step_world" \/ Plain(c)
  BY <1>1, BelowWorld
<1>9. ASSUME NEW c \in Members(Return) PROVE Over(a, c) /\ Over(b, c) /\ Fine(c)'
  <2>1. Fine(c)'
    BY <1>1, <1>7, <1>8, FineBelow
  <2>2. CASE Plain(c)
    BY <1>4, <2>1, <2>2, OverPlain
  <2>3. CASE c.call = "step_world"
    BY <1>2, <1>4, <2>1, <2>3, Numbers DEF Over, Building, OfWorld
  <2>4. QED
    BY <1>8, <2>2, <2>3
<1>10. Fine(a)' /\ Fine(b)' /\ Over(a, b)
  BY <1>2, <1>4, <1>5, <1>7, OverPlain DEF Fine, Building, OfWorld
<1>11. /\ IsStack(calls') /\ Ordered(calls') /\ AllFine' /\ calls' # << >> /\ Top' = a
       /\ Members(calls') = {a, b} \cup Members(Return)
  BY <1>1, <1>5, <1>9, <1>10, TwoOn
<1>12. Typed'
  BY <1>5, <1>6, <1>11 DEF IInv, Typed
<1>13. WorldsInTurn'
  <2>1. ASSUME NEW w \in WorldId, sims'[w].status = "new"
        PROVE  w = s /\ ~sims'[w].stopping
    <3>1. w # world /\ sims[w].status = "new"
      BY <1>6, <2>1, Numbers
    <3>2. QED
      BY <1>2, <1>7, <3>1 DEF IInv, WorldsInTurn
  <2>2. ASSUME NEW w \in WorldId, w # s PROVE sims'[w].status # "started"
    BY <1>6, Numbers DEF IInv, WorldsInTurn
  <2>3. sims'[s].status = "new" /\ world' = s /\ Top'.call = "start" /\ Top'.sim = s
    BY <1>2, <1>4, <1>5, <1>7, <1>11
  <2>4. QED
    BY <1>11, <2>1, <2>2, <2>3 DEF WorldsInTurn
<1>14. WorldsAwaited'
  <2>1. ~Building(Top')
    BY <1>4, <1>11 DEF Building
  <2>2. world' # nil /\ ~sims'[world'].stopping
    BY <1>2, <1>5, <1>7, Numbers
  <2>3. QED
    BY <2>1, <2>2 DEF WorldsAwaited
<1>15. GameInTurn'
  BY <1>7 DEF GameInTurn
<1>16. QED
  BY <1>11, <1>12, <1>13, <1>14, <1>15 DEF IInv

-----------------------------------------------------------------------------
(***************************************************************************)
(* Errors.                                                                 *)
(***************************************************************************)
\* A set of numbers that is not empty has a least one.
LEMMA Least ==
    ASSUME NEW T \in SUBSET Nat, T # {}
    PROVE  \E k \in T : \A j \in T : k <= j
<1> DEFINE Smaller == {pair \in Nat \X Nat : pair[1] < pair[2]}
<1>1. IsWellFoundedOn(OpToRel(<, Nat), Nat)
  BY NatLessThanWellFounded
<1>2. OpToRel(<, Nat) = Smaller
  BY DEF OpToRel
<1>3. IsWellFoundedOn(Smaller, Nat)
  BY <1>1, <1>2, Zenon
<1>4. \A x, y \in Nat : y < x => <<y, x>> \in Smaller
  OBVIOUS
<1> HIDE DEF Smaller
<1>5. PICK x \in T : \A y \in T : ~(<<y, x>> \in Smaller)
  <2>1. \E x \in T : \A y \in T : ~(<<y, x>> \in Smaller)
    BY <1>3, WFMin
  <2>2. QED
    BY <2>1, Zenon
<1>6. \A y \in T : x <= y
  <2>1. SUFFICES ASSUME NEW y \in T, y < x PROVE FALSE
    OBVIOUS
  <2>2. <<y, x>> \in Smaller
    BY <1>4, <2>1
  <2>3. QED
    BY <1>5, <2>2, Zenon
<1>7. QED
  BY <1>6

\* The calls from one of them on.
LEMMA FromOn ==
    ASSUME NEW s, IsStack(s), Ordered(s), NEW k \in 1 .. Len(s),
           NEW t, t = SubSeq(s, k, Len(s))
    PROVE  /\ IsStack(t) /\ Ordered(t) /\ Len(t) = Len(s) - k + 1
           /\ \A i \in 1 .. Len(t) : t[i] = s[i + k - 1]
           /\ t # << >> /\ Head(t) = s[k] /\ Members(t) \subseteq Members(s)
           /\ \A c \in Members(t) : c = s[k] \/ Over(s[k], c)
<1>1. PICK S : s \in Seq(S)
  BY DEF IsStack
<1>2. Len(s) \in Nat /\ k \in 1 .. Len(s)
  BY StackLength
<1>3. /\ t \in Seq(S) /\ Len(t) = Len(s) - k + 1
      /\ \A i \in 1 .. Len(s) - k + 1 : t[i] = s[i + k - 1]
  BY <1>1, <1>2
<1>4. IsStack(t)
  BY <1>3 DEF IsStack
<1>5. ASSUME NEW i \in 1 .. Len(t)
      PROVE  t[i] = s[i + k - 1] /\ i + k - 1 \in 1 .. Len(s) /\ (i # 1 => k < i + k - 1)
  BY <1>2, <1>3
<1>6. ASSUME NEW i \in 1 .. Len(t), NEW j \in 1 .. Len(t), i < j PROVE Over(t[i], t[j])
  <2>1. i + k - 1 < j + k - 1
    BY <1>2, <1>3, <1>6
  <2>2. QED
    BY <1>5, <2>1 DEF Ordered
<1>7. 1 \in 1 .. Len(t) /\ 1 + k - 1 = k /\ t # << >>
  <2>1. Len(t) \in Nat \ {0} /\ 1 + k - 1 = k
    BY <1>2, <1>3
  <2>2. t # << >>
    BY <1>4, <2>1, StackLength
  <2>3. QED
    BY <2>1, <2>2
<1>8. Head(t) = s[k] /\ t[1] = s[k]
  BY <1>4, <1>5, <1>7, Popped
<1>9. Members(t) \subseteq Members(s)
  BY <1>5 DEF Members
<1>10. ASSUME NEW i \in 1 .. Len(t) PROVE t[i] = s[k] \/ Over(s[k], t[i])
  BY <1>5, <1>8 DEF Ordered
<1>11. QED
  BY <1>3, <1>4, <1>6, <1>7, <1>8, <1>9, <1>10 DEF Ordered, Members

\* The calls when an error is raised, and the one that catches it, the innermost.
Stack == IF Top.call = "broadcast" THEN Heard ELSE calls

\* What the calls are then, and what is left of them.
LEMMA Unwinding ==
    ASSUME IInv, calls # << >>
    PROVE  /\ IsStack(Stack) /\ Ordered(Stack) /\ Len(Stack) = Len(calls)
           /\ \A c \in Members(Stack) :
                 Fine(c) /\ (c.call = "step_world" => c \in Members(calls))
           /\ \/ /\ Unwound = << >>
                 /\ \A k \in 1 .. Len(Stack) : ~Catches(Stack[k])
              \/ \E k \in 1 .. Len(Stack) :
                    /\ Unwound = SubSeq(Stack, k, Len(Stack)) /\ Catches(Stack[k])
                    /\ \A j \in 1 .. Len(Stack) : Catches(Stack[j]) => k <= j
<1>1. /\ IsStack(Stack) /\ Ordered(Stack) /\ Len(Stack) = Len(calls)
      /\ \A c \in Members(Stack) : Fine(c) /\ (c.call = "step_world" => c \in Members(calls))
  <2>1. CASE Top.call = "broadcast"
    <3>1. PICK h : /\ h.call = "broadcast" /\ Fine(h) /\ IsStack(Heard) /\ Ordered(Heard)
                   /\ Len(Heard) = Len(calls) /\ Members(Heard) = {h} \cup Members(Return)
      BY <2>1, HeardCalls DEF At
    <3>2. QED
      BY <2>1, <3>1, AtTheTop DEF Stack
  <2>2. CASE Top.call # "broadcast"
    BY <2>2 DEF Stack, IInv, Typed, AllFine
  <2>3. QED
    BY <2>1, <2>2
<1>2. PICK stack : stack = Stack
  OBVIOUS
<1>3. PICK catching : catching = {k \in 1 .. Len(stack) : Catches(stack[k])}
  OBVIOUS
<1>4. Unwound = IF catching = {} THEN << >>
                ELSE LET k == CHOOSE k \in catching : \A j \in catching : k <= j
                     IN  SubSeq(stack, k, Len(stack))
  BY <1>2, <1>3 DEF Unwound, Stack
<1>5. CASE catching = {}
  <2>1. Unwound = << >>
    BY <1>4, <1>5
  <2>2. \A k \in 1 .. Len(Stack) : ~Catches(Stack[k])
    BY <1>2, <1>3, <1>5
  <2>3. QED
    BY <1>1, <2>1, <2>2
<1>6. CASE catching # {}
  <2>1. catching \in SUBSET Nat
    BY <1>3
  <2>2. \E k \in catching : \A j \in catching : k <= j
    BY <1>6, <2>1, Least
  <2>3. PICK k : k = CHOOSE x \in catching : \A j \in catching : x <= j
    OBVIOUS
  <2>4. k \in catching /\ \A j \in catching : k <= j
    BY <2>2, <2>3
  <2>5. Unwound = SubSeq(stack, k, Len(stack))
    BY <1>4, <1>6, <2>3
  <2>6. /\ k \in 1 .. Len(Stack) /\ Catches(Stack[k])
        /\ \A j \in 1 .. Len(Stack) : Catches(Stack[j]) => k <= j
    BY <1>2, <1>3, <2>4
  <2>7. Unwound = SubSeq(Stack, k, Len(Stack))
    BY <1>2, <2>5
  <2>8. QED
    BY <1>1, <2>6, <2>7
<1>7. QED
  BY <1>5, <1>6

\* Below the broadcast that catches an error no world is made or starts, nor is one
\* awaited, unless the error is of an input of one that was started.
LEMMA Caught ==
    ASSUME IInv, calls # << >>
    PROVE  /\ IsStack(Unwound) /\ Ordered(Unwound)
           /\ Unwound # << >> => Head(Unwound).call = "broadcast"
           /\ \A c \in Members(Unwound) :
                 /\ Fine(c) /\ ~Building(c) /\ c.call \notin {"start", "finalize"}
                 /\ c.call = "step" => OfWorld(c)
                 /\ c.call = "step_world" => Top.call = "broadcast" /\ c \in Members(calls)
<1>1. CASE Unwound = << >>
  BY <1>1, Short, OneOrdered
<1>2. CASE Unwound # << >>
  <2>1. PICK stack : stack = Stack
    OBVIOUS
  <2>2. PICK k \in 1 .. Len(stack) :
           Unwound = SubSeq(stack, k, Len(stack)) /\ Catches(stack[k])
    BY <1>2, <2>1, Unwinding
  <2>3. PICK t : t = Unwound
    OBVIOUS
  <2>4. /\ IsStack(stack) /\ Ordered(stack) /\ \A c \in Members(stack) : Fine(c)
    BY <2>1, Unwinding
  <2>5. /\ IsStack(t) /\ Ordered(t) /\ Head(t) = stack[k]
        /\ Members(t) \subseteq Members(stack)
        /\ \A c \in Members(t) : c = stack[k] \/ Over(stack[k], c)
    BY <2>2, <2>3, <2>4, FromOn
  <2>6. PICK h : /\ h = stack[k] /\ h.call = "broadcast" /\ ~Building(h) /\ ~Welcomes(h)
    BY <2>2 DEF Catches, CaughtEvent, Building, Welcomes
  <2>7. ASSUME Tells(h) PROVE Top.call = "broadcast"
    <3>1. SUFFICES ASSUME Top.call # "broadcast" PROVE FALSE
      OBVIOUS
    <3>2. stack = calls /\ Top = calls[1]
      BY <2>1, <3>1, Popped DEF Stack, Top, IInv, Typed
    <3>3. Len(stack) \in Nat /\ k \in 1 .. Len(stack) /\ k # 1
      BY <2>4, <2>6, <3>1, <3>2, StackLength
    <3>4. 1 \in 1 .. Len(stack) /\ 1 < k
      BY <3>3
    <3>5. Over(Top, h)
      BY <2>4, <2>6, <3>2, <3>4 DEF Ordered
    <3>6. QED
      BY <2>7, <3>1, <3>5 DEF Over, OfWorld, Tells
  <2>8. ASSUME NEW c \in Members(t)
        PROVE  /\ Fine(c) /\ ~Building(c) /\ c.call \notin {"start", "finalize"}
               /\ c.call = "step" => OfWorld(c)
               /\ c.call = "step_world" => Top.call = "broadcast" /\ c \in Members(calls)
    <3>1. Fine(c) /\ (c = h \/ Over(h, c)) /\ c \in Members(stack)
      BY <2>4, <2>5, <2>6
    <3>2. /\ ~Building(c) /\ c.call \notin {"start", "finalize"}
          /\ c.call = "step" => OfWorld(c)
      BY <2>6, <3>1 DEF Over, OfWorld, Tells, Building
    <3>3. ASSUME c.call = "step_world" PROVE Top.call = "broadcast" /\ c \in Members(calls)
      <4>1. Tells(h)
        BY <2>6, <3>1, <3>3 DEF Over, OfWorld
      <4>2. c \in Members(calls)
        BY <2>1, <3>1, <3>3, Unwinding
      <4>3. QED
        BY <2>7, <4>1, <4>2
    <3>4. QED
      BY <3>1, <3>2, <3>3
  <2>9. QED
    BY <2>3, <2>5, <2>6, <2>8
<1>3. QED
  BY <1>1, <1>2

\* A world an error was raised in the making of is forgotten; nothing else changes.
LEMMA RaisePreserves ==
    ASSUME IInv, Raise
    PROVE  IInv'
<1>1. calls # << >> /\ Top.call \in {"broadcast", "on_init"}
  BY DEF Raise, HeardInWorld, Calling, At
<1>2. /\ calls' = Unwound /\ errors' = errors + 1 /\ errors < MaxErrors
      /\ UNCHANGED <<requires, world>>
      /\ sims' = [s \in SimId |->
                     IF sims[s].status = "new" /\ s # world /\ s # Game THEN Unmade
                     ELSE sims[s]]
  BY DEF Raise
<1>3. /\ IsStack(calls') /\ Ordered(calls')
      /\ calls' # << >> => Top'.call = "broadcast"
      /\ \A c \in Members(calls') :
            /\ Fine(c) /\ ~Building(c) /\ c.call \notin {"start", "finalize"}
            /\ c.call = "step" => OfWorld(c)
            /\ c.call = "step_world" => Top.call = "broadcast" /\ c \in Members(calls)
  BY <1>1, <1>2, Caught DEF Top
<1>4. /\ sims' \in [SimId -> Sim]
      /\ \A s \in SimId :
            \/ sims'[s] = sims[s] /\ (sims[s].status = "new" => s \in {Game, world})
            \/ /\ sims[s].status = "new" /\ s \notin {Game, world}
               /\ sims'[s].status = "unmade"
  BY <1>2, MadeIsSim DEF IInv, Typed, Unmade
<1>5. sims[Game].status = "started" /\ sims'[Game] = sims[Game]
  BY <1>1, <1>4, Numbers DEF IInv, GameInTurn
<1>6. world # nil => /\ world \in WorldId /\ sims'[world] = sims[world]
                     /\ sims[world].status = "started"
  BY <1>1, <1>4, Numbers DEF IInv, WorldsInTurn, Typed
<1>7. \A w \in WorldId : sims'[w].status # "new"
  BY <1>4, <1>6, Numbers
<1>8. WorldsInTurn'
  <2>1. \A w \in WorldId : w # world => sims'[w].status # "started"
    BY <1>4, Numbers DEF IInv, WorldsInTurn
  <2>2. QED
    BY <1>2, <1>6, <1>7, <2>1 DEF WorldsInTurn
<1>9. Typed'
  BY <1>2, <1>3, <1>4, BoundsAssumption DEF IInv, Typed
<1>10. ASSUME NEW c \in Members(calls') PROVE Fine(c)'
  <2>1. WellMade(c)' /\ c.sim \in SimId
    BY <1>3 DEF Fine, WellMade, Building
  <2>2. sims'[c.sim] = sims[c.sim] \/ c.call \notin {"step", "broadcast"}
    BY <1>3, <1>4, <2>1 DEF Fine, Running
  <2>3. QED
    BY <1>2, <1>3, <2>1, <2>2 DEF Fine, Running, OfWorld, Building
<1>11. WorldsAwaited'
  <2>1. ASSUME NEW c \in Members(calls'), c.call = "step_world"
        PROVE  world' # nil /\ ~sims'[world'].stopping
    <3>1. Top.call = "broadcast" /\ c \in Members(calls)
      BY <1>3, <2>1
    <3>2. world # nil /\ ~sims[world].stopping
      BY <1>1, <2>1, <3>1, NoneNew DEF Building
    <3>3. QED
      BY <1>2, <1>6, <3>2
  <2>2. QED
    BY <1>3, <2>1 DEF WorldsAwaited, Building
<1>12. QED
  BY <1>3, <1>5, <1>8, <1>9, <1>10, <1>11 DEF IInv, AllFine, GameInTurn

\* The invariant is inductive.
LEMMA NextInv == IInv /\ [Next]_vars => IInv'
<1> SUFFICES ASSUME IInv, [Next]_vars PROVE IInv'
  OBVIOUS
<1>1. CASE UNCHANGED vars
  <2>1. Typed'
    BY <1>1 DEF IInv, Typed, vars
  <2>2. UNCHANGED <<sims, world>> /\ UNCHANGED calls
    BY <1>1 DEF vars
  <2>3. AllFine'
    BY <2>2, FineSame DEF IInv, AllFine
  <2>4. Ordered(calls') /\ WorldsInTurn' /\ WorldsAwaited' /\ GameInTurn'
    BY <2>2 DEF IInv, WorldsInTurn, WorldsAwaited, GameInTurn, Top, Building
  <2>5. QED
    BY <2>1, <2>3, <2>4 DEF IInv
<1>2. CASE Next
  BY <1>2, StartPreserves, RunPreserves, StepPreserves, FinalizePreserves,
     EndBroadcastPreserves, RequirePreserves, OnInitPreserves, SetPreserves,
     WorldStartsPreserves, WorldStepsPreserves, StepWorldPreserves, ClientPreserves,
     DebugPreserves, ControllerPreserves, QuietPreserves, StopWorldPreserves, StopGamePreserves,
     RaisePreserves DEF Next
<1>3. QED
  BY <1>1, <1>2

\* So it holds in every state.
LEMMA Invariance == Spec => []IInv
<1>1. QED
  BY InitInv, NextInv, PTL DEF Spec

-----------------------------------------------------------------------------
(***************************************************************************)
(* The theorems.                                                           *)
(***************************************************************************)
\* No call ever finds what it asserts false: not of the simulation it is made on, nor of
\* the game that sets a world.
THEOREM CallsAreRight == Spec => []AssertionsHold
<1>1. IInv => AssertionsHold
  <2> SUFFICES ASSUME IInv, calls # << >> PROVE Asserted(Top)
    BY DEF AssertionsHold
  <2>1. Fine(Top) /\ WellMade(Top)
    BY AtTheTop DEF Fine
  <2>2. CASE Top.call = "start"
    BY <2>1, <2>2 DEF Fine, Asserted
  <2>3. CASE Top.call \in {"step", "broadcast"}
    BY <2>1, <2>3 DEF Fine, Asserted
  <2>4. CASE Top.call = "require"
    BY <2>1, <2>4 DEF Fine, Asserted, Building
  <2>5. CASE Top.call = "set"
    <3>1. sims[Game].status = "started"
      BY <2>5 DEF IInv, GameInTurn
    <3>2. sims[Top.sim].status = "new"
      BY <2>1, <2>5 DEF Fine, Building
    <3>3. world # nil => sims[world].status # "new"
      BY <2>5, Numbers DEF IInv, WorldsInTurn, Typed
    <3>4. QED
      BY <2>5, <3>1, <3>2, <3>3 DEF Asserted
  <2>6. CASE Top.call \notin {"start", "step", "broadcast", "require", "set"}
    BY <2>6 DEF Asserted
  <2>7. QED
    BY <2>2, <2>3, <2>4, <2>5, <2>6
<1>2. QED
  BY Invariance, <1>1, PTL

\* No world is told of anything, a step, a frame or an input, before it is started, once
\* it is not the world of the game, or once it is finalized.
THEOREM WorldsHearWhileLive == Spec => []EventsReachLiveWorlds
<1>1. IInv => EventsReachLiveWorlds
  <2> SUFFICES ASSUME IInv, NEW k \in 1 .. Len(calls), calls[k].call = "broadcast",
                      calls[k].sim # Game
               PROVE  calls[k].sim = world /\ sims[world].status = "started"
    BY DEF EventsReachLiveWorlds
  <2>1. Fine(calls[k])
    BY DEF IInv, AllFine, Members
  <2>2. QED
    BY <2>1 DEF Fine, OfWorld
<1>2. QED
  BY Invariance, <1>1, PTL

\* What the simulations and the game hear of a step is not lost by the errors in it.
THEOREM ErrorsCostOneListener == Spec => ErrorsStayLocal
<1> DEFINE Kept == \A k \in 1 .. Len(calls) :
              calls[k].call = "broadcast" /\ calls[k].event \in CaughtEvent =>
                  LET j == Len(calls') - (Len(calls) - k)
                  IN  /\ j \in 1 .. Len(calls')
                      /\ calls'[j] = IF k = 1 THEN [Top EXCEPT !.rest = Tail(@)]
                                     ELSE calls[k]
<1>1. ASSUME IInv, Raise PROVE Kept
  <2>1. calls # << >> /\ calls' = Unwound
    BY <1>1 DEF Raise, HeardInWorld, Calling, At
  <2>2. SUFFICES ASSUME NEW k \in 1 .. Len(calls), calls[k].call = "broadcast",
                        calls[k].event \in CaughtEvent,
                        NEW place, place = Len(calls') - (Len(calls) - k)
                 PROVE  /\ place \in 1 .. Len(calls')
                        /\ calls'[place] = IF k = 1 THEN [Top EXCEPT !.rest = Tail(@)]
                                           ELSE calls[k]
    OBVIOUS
  <2>3. PICK stack : stack = Stack
    OBVIOUS
  <2>4. IsStack(stack) /\ Ordered(stack) /\ Len(stack) = Len(calls) /\ Len(stack) \in Nat
    BY <1>1, <2>1, <2>3, Unwinding, StackLength
  <2>5. /\ stack[k] = IF k = 1 THEN [Top EXCEPT !.rest = Tail(@)] ELSE calls[k]
        /\ Catches(stack[k])
    <3>1. Top = calls[1]
      BY <1>1, <2>1, Popped DEF Top, IInv, Typed
    <3>2. CASE Top.call = "broadcast"
      <4>1. PICK h : /\ h = [Top EXCEPT !.rest = Tail(@)]
                     /\ h.call = "broadcast" /\ h.event = Top.event /\ Heard[1] = h
                     /\ \A i \in 2 .. Len(calls) : Heard[i] = calls[i]
        BY <1>1, <2>1, <3>2, HeardCalls DEF At
      <4>2. stack = Heard
        BY <2>3, <3>2 DEF Stack
      <4>3. CASE k = 1
        BY <2>2, <3>1, <4>1, <4>2, <4>3 DEF Catches
      <4>4. CASE k # 1
        <5>1. k \in 2 .. Len(calls)
          BY <2>4, <4>4
        <5>2. QED
          BY <2>2, <4>1, <4>2, <4>4, <5>1 DEF Catches
      <4>5. QED
        BY <4>3, <4>4
    <3>3. CASE Top.call # "broadcast"
      <4>1. stack = calls /\ k # 1
        BY <2>2, <2>3, <3>1, <3>3 DEF Stack
      <4>2. QED
        BY <2>2, <4>1 DEF Catches
    <3>4. QED
      BY <3>2, <3>3
  <2>6. PICK i \in 1 .. Len(stack) :
           /\ Unwound = SubSeq(stack, i, Len(stack))
           /\ \A j \in 1 .. Len(stack) : Catches(stack[j]) => i <= j
    <3>1. k \in 1 .. Len(Stack) /\ Catches(Stack[k])
      BY <2>3, <2>4, <2>5
    <3>2. QED
      BY <1>1, <2>1, <2>3, <3>1, Unwinding
  <2>7. i <= k
    BY <2>4, <2>5, <2>6
  <2>8. PICK t : t = Unwound
    OBVIOUS
  <2>9. /\ Len(t) = Len(stack) - i + 1
        /\ \A j \in 1 .. Len(t) : t[j] = stack[j + i - 1]
    BY <2>4, <2>6, <2>8, FromOn
  <2>10. k - i + 1 \in 1 .. Len(t) /\ (k - i + 1) + i - 1 = k
    BY <2>4, <2>7, <2>9
  <2>11. t[k - i + 1] = stack[k]
    <3>1. t[k - i + 1] = stack[(k - i + 1) + i - 1]
      BY <2>9, <2>10
    <3>2. QED
      BY <2>10, <3>1
  <2>12. place = k - i + 1
    BY <2>1, <2>2, <2>4, <2>8, <2>9
  <2>13. QED
    BY <2>1, <2>5, <2>8, <2>10, <2>11, <2>12
<1>2. ASSUME IInv, [Next]_vars PROVE [errors' # errors => Kept]_vars
  <2>1. CASE Raise
    BY <1>1, <1>2, <2>1
  <2>2. CASE ~Raise
    <3>1. errors' = errors
      BY <1>2, <2>2 DEF Next, vars, Start, Run, Step, Finalize, EndBroadcast, Require,
         OnInit, Set, WorldStarts, WorldSteps, StepWorld, ClientSteps, DebugSteps,
         ControllerReads, Quiet, StopWorld, StopGame
    <3>2. QED
      BY <3>1
  <2>3. QED
    BY <2>1, <2>2
<1>3. QED
  BY <1>2, Invariance, PTL DEF Spec, ErrorsStayLocal

-----------------------------------------------------------------------------
(***************************************************************************)
(* The lives of the simulations.                                           *)
(***************************************************************************)
Life == [s \in SimId |-> sims[s].status]

\* A simulation changed its status, and no other did.
LEMMA OneChanges ==
    ASSUME NEW s \in SimId, NEW status, sims'[s].status = status,
           \A x \in SimId \ {s} : sims'[x].status = sims[x].status
    PROVE  Life' = [Life EXCEPT ![s] = status] /\ Life[s] = sims[s].status
BY DEF Life

\* None did.
LEMMA NoneChanges ==
    ASSUME \A x \in SimId : sims'[x].status = sims[x].status
    PROVE  Life' = Life
BY DEF Life

\* How a simulation may change its status in a step.
LEMMA LivesChange ==
    ASSUME IInv, [Next]_vars
    PROVE  \/ \A x \in SimId : sims'[x].status = sims[x].status
           \/ \E s \in SimId :
                 /\ \A x \in SimId \ {s} : sims'[x].status = sims[x].status
                 /\ \/ sims[s].status = "unmade" /\ sims'[s].status = "new"
                    \/ sims[s].status = "new" /\ sims'[s].status = "unmade"
                    \/ /\ sims[s].status = "new" /\ sims'[s].status = "started"
                       /\ s \in WorldId => \A w \in WorldId : sims[w].status # "started"
                    \/ sims[s].status = "started" /\ sims'[s].status = "finalized"
<1>1. CASE Start
  <2>1. Fine(Top) /\ Top.call = "start" /\ calls # << >>
    BY <1>1, AtTheTop DEF Start, At
  <2>2. PICK s \in SimId : s = Top.sim /\ sims[s].status = "new" /\ (s # Game => s = world)
    BY <2>1 DEF Fine, WellMade, OfWorld
  <2>3. sims'[s].status = "started" /\ \A x \in SimId \ {s} : sims'[x] = sims[x]
    BY <1>1, <2>2 DEF Start, IInv, Typed, Sim
  <2>4. s \in WorldId => \A w \in WorldId : sims[w].status # "started"
    BY <2>2, Numbers DEF IInv, WorldsInTurn
  <2>5. QED
    BY <2>2, <2>3, <2>4
<1>2. CASE Finalize
  <2>1. calls # << >> /\ Top.call = "finalize" /\ Top.sim = Game
    BY <1>2, AtTheTop DEF Finalize, At, Fine, WellMade
  <2>2. sims[Game].status = "started"
    BY <2>1, NoneNew DEF Building
  <2>3. sims'[Game].status = "finalized" /\ \A x \in SimId \ {Game} : sims'[x] = sims[x]
    BY <1>2, <2>1, Numbers DEF Finalize, IInv, Typed, Sim
  <2>4. QED
    BY <2>2, <2>3, Numbers
<1>3. CASE Set
  <2>1. Fine(Top) /\ Top.call = "set" /\ calls # << >>
    BY <1>3, AtTheTop DEF Set, At
  <2>2. CASE world = nil
    BY <1>3, <2>2 DEF Set
  <2>3. CASE world # nil
    <3>1. world \in SimId /\ sims[world].status = "started"
      BY <2>1, <2>3, Numbers DEF IInv, WorldsInTurn, Typed
    <3>2. sims'[world].status = "finalized" /\ \A x \in SimId \ {world} : sims'[x] = sims[x]
      BY <1>3, <2>3, <3>1 DEF Set, IInv, Typed, Sim
    <3>3. QED
      BY <3>1, <3>2
  <2>4. QED
    BY <2>2, <2>3
<1>4. ASSUME NEW after, Build(after)
      PROVE  \E s \in SimId :
                 /\ \A x \in SimId \ {s} : sims'[x].status = sims[x].status
                 /\ sims[s].status = "unmade" /\ sims'[s].status = "new"
  <2>1. PICK w \in Fresh : sims' = [sims EXCEPT ![w] = Made]
    BY <1>4 DEF Build
  <2>2. QED
    BY <2>1, Numbers DEF Fresh, IInv, Typed, Made, Unmade
<1>5. CASE WorldStarts \/ WorldSteps \/ DebugSteps
  <2>1. PICK heard, after : heard = Heard /\ after = <<Of("step_world", Game)>> \o Heard
    OBVIOUS
  <2>2. Build(heard) \/ Build(after) \/ UNCHANGED sims
    BY <1>5, <2>1 DEF WorldStarts, WorldSteps, DebugSteps, Build
  <2>3. QED
    BY <1>4, <2>2
<1>6. CASE Raise
  <2>1. sims' = [s \in SimId |->
                    IF sims[s].status = "new" /\ s # world /\ s # Game THEN Unmade ELSE sims[s]]
    BY <1>6 DEF Raise
  <2>2. CASE \E w \in SimId : sims[w].status = "new" /\ w # world /\ w # Game
    <3>1. PICK w \in SimId : sims[w].status = "new" /\ w # world /\ w # Game
      BY <2>2
    <3>2. ASSUME NEW x \in SimId \ {w} PROVE ~(sims[x].status = "new" /\ x # world /\ x # Game)
      BY <3>1, Numbers DEF IInv, WorldsInTurn
    <3>3. sims'[w].status = "unmade" /\ \A x \in SimId \ {w} : sims'[x] = sims[x]
      BY <2>1, <3>1, <3>2 DEF Unmade
    <3>4. QED
      BY <3>1, <3>3
  <2>3. CASE ~ \E w \in SimId : sims[w].status = "new" /\ w # world /\ w # Game
    BY <2>1, <2>3
  <2>4. QED
    BY <2>2, <2>3
<1>7. CASE ClientSteps \/ StopWorld \/ StopGame \/ Require \/ OnInit
  <2>1. sims \in [SimId -> Sim]
    BY DEF IInv, Typed
  <2>2. CASE ClientSteps
    <3>1. sims' = sims \/ sims' = [sims EXCEPT ![Game].stopping = TRUE]
      BY <2>2 DEF ClientSteps
    <3>2. ASSUME NEW x \in SimId PROVE sims'[x].status = sims[x].status
      <4>1. sims[x] \in Sim
        BY <2>1
      <4>2. sims'[x] = sims[x] \/ sims'[x] = [sims[x] EXCEPT !.stopping = TRUE]
        BY <2>1, <3>1
      <4>3. QED
        BY <4>1, <4>2 DEF Sim
    <3>3. QED
      BY <3>2
  <2>3. CASE StopWorld
    BY <2>1, <2>3 DEF StopWorld, Sim
  <2>4. CASE StopGame
    BY <2>1, <2>4 DEF StopGame, Sim
  <2>5. CASE Require
    <3>1. sims' = sims
            \/ sims' = [sims EXCEPT ![Top.sim].systems = @ \cup {Head(Top.rest)}]
      BY <2>5 DEF Require
    <3>2. QED
      BY <2>1, <3>1 DEF Sim
  <2>6. CASE OnInit
    BY <2>1, <2>6 DEF OnInit, Sim
  <2>7. QED
    BY <1>7, <2>2, <2>3, <2>4, <2>5, <2>6
<1>8. CASE Run \/ Step \/ EndBroadcast \/ StepWorld \/ ControllerReads \/ Quiet
           \/ UNCHANGED vars
  BY <1>8 DEF Run, Step, EndBroadcast, StepWorld, ControllerReads, Quiet, vars
<1>9. QED
  BY <1>1, <1>2, <1>3, <1>5, <1>6, <1>7, <1>8 DEF Next

\* Every simulation is made, started and finalized at most once each, and the worlds live
\* one after the other, whatever listeners stop, load or raise.
THEOREM WorldsLiveInTurn == Spec => ImplementsLife
<1>1. Init => SimulationLife!LifeInit
  <2> SUFFICES ASSUME Init PROVE SimulationLife!LifeInit
    OBVIOUS
  <2>1. \A s \in SimId : sims[s].status \in {"unmade", "new"}
    BY DEF Init, Made, Unmade
  <2>2. QED
    BY <2>1 DEF SimulationLife!LifeInit
<1>2. ASSUME IInv, [Next]_vars
      PROVE  [SimulationLife!LifeNext]_[s \in SimId |-> sims[s].status]
  <2> SUFFICES SimulationLife!LifeNext \/ Life' = Life
    BY DEF Life
  <2>1. CASE \A x \in SimId : sims'[x].status = sims[x].status
    BY <2>1, NoneChanges
  <2>2. CASE \E s \in SimId :
                 /\ \A x \in SimId \ {s} : sims'[x].status = sims[x].status
                 /\ \/ sims[s].status = "unmade" /\ sims'[s].status = "new"
                    \/ sims[s].status = "new" /\ sims'[s].status = "unmade"
                    \/ /\ sims[s].status = "new" /\ sims'[s].status = "started"
                       /\ s \in WorldId => \A w \in WorldId : sims[w].status # "started"
                    \/ sims[s].status = "started" /\ sims'[s].status = "finalized"
    <3>1. PICK s \in SimId :
             /\ \A x \in SimId \ {s} : sims'[x].status = sims[x].status
             /\ \/ sims[s].status = "unmade" /\ sims'[s].status = "new"
                \/ sims[s].status = "new" /\ sims'[s].status = "unmade"
                \/ /\ sims[s].status = "new" /\ sims'[s].status = "started"
                   /\ s \in WorldId => \A w \in WorldId : sims[w].status # "started"
                \/ sims[s].status = "started" /\ sims'[s].status = "finalized"
      BY <2>2
    <3>2. Life' = [Life EXCEPT ![s] = sims'[s].status] /\ Life[s] = sims[s].status
      BY <3>1, OneChanges
    <3>3. \A w \in WorldId : Life[w] = sims[w].status
      BY Numbers DEF Life
    <3>4. \/ SimulationLife!Make(s) \/ SimulationLife!Forget(s)
          \/ SimulationLife!Start(s) \/ SimulationLife!Finalize(s)
      <4>1. CASE sims[s].status = "unmade" /\ sims'[s].status = "new"
        BY <3>2, <4>1 DEF SimulationLife!Make, Life
      <4>2. CASE sims[s].status = "new" /\ sims'[s].status = "unmade"
        BY <3>2, <4>2 DEF SimulationLife!Forget, Life
      <4>3. CASE /\ sims[s].status = "new" /\ sims'[s].status = "started"
                 /\ s \in WorldId => \A w \in WorldId : sims[w].status # "started"
        BY <3>2, <3>3, <4>3 DEF SimulationLife!Start, Life
      <4>4. CASE sims[s].status = "started" /\ sims'[s].status = "finalized"
        BY <3>2, <4>4 DEF SimulationLife!Finalize, Life
      <4>5. QED
        BY <3>1, <4>1, <4>2, <4>3, <4>4
    <3>5. QED
      BY <3>4 DEF SimulationLife!LifeNext
  <2>3. QED
    BY <1>2, <2>1, <2>2, LivesChange
<1>3. QED
  BY <1>1, <1>2, Invariance, PTL DEF Spec, ImplementsLife, SimulationLife!LifeSpec

-----------------------------------------------------------------------------
(***************************************************************************)
(* The order in which the systems of a world listen.  While a world is     *)
(* made, the systems whose on_init has not returned are on the stack, each *)
(* above those that led to it, and below what it requires still.           *)
(***************************************************************************)
\* What a system requires, and the system an on_init or a requirement is of.
Required(system) == {requires[system][n] : n \in 1 .. Len(requires[system])}
SystemOf(call) == Head(call.rest)

\* The systems of a world that listen, and those whose on_init is under way.
Listening(w) == {sims[w].listeners[k] : k \in 1 .. Len(sims[w].listeners)}
Pending(w, system) ==
    \E call \in Members(calls) :
        call.call = "on_init" /\ call.sim = w /\ SystemOf(call) = system

\* A system whose on_init is under way does not listen yet, leads to every system that is
\* required or initialised above it, and what it requires was, or is there to be, required.
Begun(stack) ==
    \A k \in 1 .. Len(stack) : stack[k].call = "on_init" =>
        /\ SystemOf(stack[k]) \in sims[stack[k].sim].systems \ Listening(stack[k].sim)
        /\ \A j \in 1 .. k - 1 :
              /\ stack[j].call \in {"require", "on_init"} =>
                    LeadsTo(SystemOf(stack[k]), SystemOf(stack[j]))
              /\ stack[j].call = "on_init" => SystemOf(stack[j]) # SystemOf(stack[k])
        /\ \A system \in Required(SystemOf(stack[k])) :
              \/ system \in sims[stack[k].sim].systems
              \/ \E j \in 1 .. k - 1 :
                    stack[j].call = "require" /\ SystemOf(stack[j]) = system

\* A system comes after what it requires, but for what leads back to it.
InOrder(list) ==
    \A k \in 1 .. Len(list) :
        \A system \in Required(list[k]) :
            \/ \E m \in 1 .. k - 1 : list[m] = system
            \/ LeadsTo(system, list[k])

\* The systems of a world listen once each, or their on_init is under way.
Listened(w) ==
    /\ Listening(w) \subseteq sims[w].systems
    /\ \A system \in sims[w].systems : system \in Listening(w) \/ Pending(w, system)
    /\ \A j, k \in 1 .. Len(sims[w].listeners) :
          sims[w].listeners[j] = sims[w].listeners[k] => j = k
    /\ InOrder(sims[w].listeners)

DInv == Begun(calls) /\ \A w \in WorldId : Listened(w)

\* What a system leads to: itself, and what those it leads to require.
LEMMA Leading ==
    ASSUME NEW a, NEW b, NEW c
    PROVE  LeadsTo(a, a) /\ (LeadsTo(a, b) /\ c \in Required(b) => LeadsTo(a, c))
BY DEF LeadsTo, Closed, Required

\* It does not change while what is required does not.
LEMMA LeadingKept ==
    ASSUME UNCHANGED requires, NEW a, NEW b
    PROVE  (LeadsTo(a, b)' <=> LeadsTo(a, b)) /\ Required(a)' = Required(a)
BY DEF LeadsTo, Closed, Required

\* Nor does what is in order.
LEMMA InOrderKept ==
    ASSUME UNCHANGED requires, NEW list
    PROVE  InOrder(list)' <=> InOrder(list)
BY LeadingKept DEF InOrder

\* No step changes what systems require.
LEMMA RequiresKept == ASSUME Next PROVE UNCHANGED requires
BY DEF Next, Start, Run, Step, Finalize, EndBroadcast, Require, OnInit, Set, WorldStarts,
   WorldSteps, StepWorld, ClientSteps, DebugSteps, ControllerReads, Quiet, StopWorld,
   StopGame, Raise

\* No system is being initialised but while a world is made.
LEMMA NoneInitialized ==
    ASSUME IInv, calls # << >>, Top.call \notin {"require", "on_init"}
    PROVE  /\ \A c \in Members(Return) : c.call # "on_init"
           /\ \A c \in Members(calls) : c.call # "on_init"
<1>1. \A c \in Members(Return) : c.call # "on_init"
  <2>1. CASE Top.call = "set"
    <3>1. \A c \in Members(Return) : c.call = "step_world" \/ Plain(c)
      BY <2>1, BelowWorld DEF Tells
    <3>2. QED
      BY <3>1 DEF Plain
  <2>2. CASE Top.call # "set"
    <3>1. ~Building(Top)
      BY <2>2 DEF Building
    <3>2. QED
      BY <3>1, AtTheTop DEF Over, Building
  <2>3. QED
    BY <2>1, <2>2
<1>2. QED
  BY <1>1, AtTheTop

\* Calls that are no on_init, pushed on such calls.
LEMMA NoneInitializedOn ==
    ASSUME NEW new, NEW old, IsStack(new), IsStack(old),
           \A c \in Members(new) : c.call # "on_init",
           \A c \in Members(old) : c.call # "on_init"
    PROVE  \A c \in Members(new \o old) : c.call # "on_init"
BY Pushed

\* One, two and three such calls, pushed on such calls.
LEMMA FewInitializeNone ==
    ASSUME NEW old, IsStack(old), \A c \in Members(old) : c.call # "on_init",
           NEW a, NEW b, NEW d, a.call # "on_init", b.call # "on_init", d.call # "on_init"
    PROVE  /\ \A c \in Members(<<a>> \o old) : c.call # "on_init"
           /\ \A c \in Members(<<a, b>> \o old) : c.call # "on_init"
           /\ \A c \in Members(<<a, b, d>> \o old) : c.call # "on_init"
<1>1. /\ IsStack(<<a>>) /\ Members(<<a>>) = {a}
      /\ IsStack(<<a, b>>) /\ Members(<<a, b>>) = {a, b}
  BY Short
<1>2. IsStack(<<a, b, d>>) /\ Members(<<a, b, d>>) = {a, b, d}
  BY Triple
<1>3. /\ Members(<<a>> \o old) = {a} \cup Members(old)
      /\ Members(<<a, b>> \o old) = {a, b} \cup Members(old)
      /\ Members(<<a, b, d>> \o old) = {a, b, d} \cup Members(old)
  BY <1>1, <1>2, Pushed
<1>4. QED
  BY <1>3

\* Nor does a step that makes a world call one yet.
LEMMA BuildInitializesNone ==
    ASSUME NEW after, IsStack(after), Build(after),
           \A c \in Members(after) : c.call # "on_init"
    PROVE  \A c \in Members(calls') : c.call # "on_init"
<1>1. PICK w \in WorldId : calls' = Requiring(w, Roots) \o <<Of("set", w)>> \o after
  BY DEF Build, Fresh
<1>2. PICK q, b : q = Requiring(w, Roots) /\ b = Of("set", w)
  OBVIOUS
<1>3. IsStack(q) /\ \A c \in Members(q) : c.call # "on_init"
  BY <1>2, RequiringCalls, RootsAssumption
<1>4. b.call # "on_init" /\ IsStack(<<b>>) /\ Members(<<b>>) = {b}
  BY <1>2, Short DEF Of
<1>5. IsStack(q \o <<b>>) /\ Members(q \o <<b>>) = Members(q) \cup {b}
  BY <1>3, <1>4, Pushed
<1>6. calls' = (q \o <<b>>) \o after
  BY <1>1, <1>2
<1>7. Members(calls') = Members(q) \cup {b} \cup Members(after)
  BY <1>5, <1>6, Pushed
<1>8. QED
  BY <1>3, <1>4, <1>7

\* Only Require calls an on_init.
LEMMA OthersInitializeNone ==
    ASSUME IInv, Next, ~Require, ~OnInit
    PROVE  \A c \in Members(calls') : c.call # "on_init"
<1> DEFINE None(s) == \A c \in Members(s) : c.call # "on_init"
<1>1. calls # << >> /\ IsStack(calls) /\ IsStack(Return)
  BY AtTheTop DEF Next, Start, Run, Step, Finalize, EndBroadcast, Require, OnInit, Set,
     WorldStarts, WorldSteps, StepWorld, ClientSteps, DebugSteps, ControllerReads, Quiet,
     HeardInWorld, StopWorld, StopGame, Raise, At, Calling
<1>2. CASE Raise
  BY <1>1, <1>2, Caught DEF Raise, Building
<1>3. CASE ~Raise
  <2>1. Top.call \notin {"require", "on_init"}
    BY <1>1, <1>3 DEF Next, Start, Run, Step, Finalize, EndBroadcast, Require, OnInit, Set,
       WorldStarts, WorldSteps, StepWorld, ClientSteps, DebugSteps, ControllerReads, Quiet,
       HeardInWorld, StopWorld, StopGame, Raise, At, Calling
  <2>2. None(Return) /\ None(calls)
    BY <1>1, <2>1, NoneInitialized
  <2>3. At("broadcast") => IsStack(Heard) /\ None(Heard)
    <3>1. ASSUME At("broadcast")
          PROVE  \E h : h.call = "broadcast" /\ IsStack(Heard)
                        /\ Members(Heard) = {h} \cup Members(Return)
      BY <3>1, HeardCalls
    <3>2. QED
      BY <2>2, <3>1
  <2>4. /\ \A s, event : Broadcast(s, event).call # "on_init"
        /\ \A s, call : call # "on_init" => Of(call, s).call # "on_init"
    BY DEF Broadcast, Of
  <2>5. CASE Start
    <3>1. PICK a, b : /\ a = Broadcast(Top.sim, "on_start_begin")
                      /\ b = Broadcast(Top.sim, "on_start")
      OBVIOUS
    <3>2. calls' = <<a, b>> \o Return \/ calls' = Return
      BY <2>5, <3>1 DEF Start
    <3>3. QED
      BY <1>1, <2>2, <2>4, <3>1, <3>2, FewInitializeNone
  <2>6. CASE Step
    <3>1. PICK a, b, d : /\ a = Broadcast(Top.sim, "on_step_begin")
                         /\ b = Broadcast(Top.sim, "on_step")
                         /\ d = Broadcast(Top.sim, "on_step_end")
      OBVIOUS
    <3>2. calls' = <<a, b, d>> \o Return
      BY <2>6, <3>1 DEF Step
    <3>3. QED
      BY <1>1, <2>2, <2>4, <3>1, <3>2, FewInitializeNone
  <2>7. CASE Set
    <3>1. PICK a, b : a = Of("start", Top.sim) /\ b = Broadcast(Game, "on_world_start")
      OBVIOUS
    <3>2. calls' = <<a, b>> \o Return
      BY <2>7, <3>1 DEF Set, Starting
    <3>3. QED
      BY <1>1, <2>2, <2>4, <3>1, <3>2, FewInitializeNone
  <2>8. CASE Run \/ StepWorld
    <3>1. PICK a, b, d : /\ a = Of("step", Game) /\ b = Of("finalize", Game)
                         /\ d = Of("step", world)
      OBVIOUS
    <3>2. calls' = <<a>> \o calls \/ calls' = <<b>> \o Return \/ calls' = <<d>> \o Return
      BY <2>8, <3>1 DEF Run, StepWorld
    <3>3. QED
      BY <1>1, <2>2, <2>4, <3>1, <3>2, FewInitializeNone
  <2>9. CASE ControllerReads
    <3>1. IsStack(Heard) /\ None(Heard)
      BY <2>3, <2>9 DEF ControllerReads, Calling, At
    <3>2. PICK a : a = Broadcast(world, "on_input_set")
      OBVIOUS
    <3>3. calls' = Heard \/ \E changes \in 0 .. MaxInputs :
                               calls' = [k \in 1 .. changes |-> a] \o Heard
      BY <2>9, <3>2 DEF ControllerReads
    <3>4. ASSUME NEW changes \in 0 .. MaxInputs, NEW q, q = [k \in 1 .. changes |-> a],
                 calls' = q \o Heard
          PROVE  None(calls')
      <4>1. changes \in Nat
        OBVIOUS
      <4>2. IsStack(q) /\ Members(q) \subseteq {a}
        <5>1. q = [k \in 1 .. changes |-> a]
          BY <3>4
        <5>2. QED
          BY <4>1, <5>1, Copies
      <4>3. None(q)
        BY <2>4, <3>2, <4>2
      <4>4. QED
        BY <3>1, <3>4, <4>2, <4>3, NoneInitializedOn
    <3>5. QED
      BY <3>1, <3>3, <3>4
  <2>10. CASE Finalize \/ EndBroadcast
    BY <2>2, <2>10 DEF Finalize, EndBroadcast
  <2>11. CASE Quiet \/ StopWorld \/ StopGame
    BY <2>3, <2>11 DEF Quiet, HeardInWorld, StopWorld, StopGame, Calling, At
  <2>12. CASE ClientSteps
    <3>1. IsStack(Heard) /\ None(Heard)
      BY <2>3, <2>12 DEF ClientSteps, Calling, At
    <3>2. PICK a : a = Broadcast(world, "on_draw")
      OBVIOUS
    <3>3. calls' = Heard \/ calls' = <<a>> \o Heard
      BY <2>12, <3>2 DEF ClientSteps
    <3>4. QED
      BY <2>4, <3>1, <3>2, <3>3, FewInitializeNone
  <2>13. CASE WorldStarts \/ WorldSteps \/ DebugSteps
    <3>1. PICK heard, a, after :
             heard = Heard /\ a = Of("step_world", Game) /\ after = <<a>> \o heard
      OBVIOUS
    <3>2. IsStack(heard) /\ None(heard)
      BY <2>3, <2>13, <3>1 DEF WorldStarts, WorldSteps, DebugSteps, Calling, At
    <3>3. IsStack(after)
      BY <3>1, <3>2, Short, Pushed
    <3>4. None(after)
      BY <2>4, <3>1, <3>2, FewInitializeNone
    <3>5. Build(heard) \/ Build(after) \/ calls' = heard \/ calls' = after
      BY <2>13, <3>1 DEF WorldStarts, WorldSteps, DebugSteps, Build
    <3>6. QED
      BY <3>2, <3>3, <3>4, <3>5, BuildInitializesNone
  <2>14. QED
    BY <1>3, <2>5, <2>6, <2>7, <2>8, <2>9, <2>10, <2>11, <2>12, <2>13 DEF Next
<1>4. QED
  BY <1>2, <1>3

\* Nor do they change the systems of a world, but for one that is made or forgotten.
LEMMA SystemsKept ==
    ASSUME IInv, Next, ~Require, ~OnInit, NEW w \in WorldId
    PROVE  \/ /\ sims'[w].systems = {} /\ sims'[w].listeners = << >>
           \/ /\ sims'[w].systems = sims[w].systems
              /\ sims'[w].listeners = sims[w].listeners
              /\ \A system : ~Pending(w, system)
<1>1. calls # << >>
  BY DEF Next, Start, Run, Step, Finalize, EndBroadcast, Require, OnInit, Set,
     WorldStarts, WorldSteps, StepWorld, ClientSteps, DebugSteps, ControllerReads, Quiet,
     HeardInWorld, StopWorld, StopGame, Raise, At, Calling
<1>2. CASE Raise
  <2>1. sims' = [s \in SimId |->
                    IF sims[s].status = "new" /\ s # world /\ s # Game THEN Unmade ELSE sims[s]]
    BY <1>2 DEF Raise
  <2>2. CASE sims[w].status = "new" /\ w # world
    BY <2>1, <2>2, Numbers DEF Unmade
  <2>3. CASE ~(sims[w].status = "new" /\ w # world)
    <3>1. sims'[w] = sims[w]
      BY <2>1, <2>3, Numbers
    <3>2. \A system : ~Pending(w, system)
      BY <2>3 DEF Pending, IInv, AllFine, Fine, Building
    <3>3. QED
      BY <3>1, <3>2
  <2>4. QED
    BY <2>2, <2>3
<1>3. CASE ~Raise
  <2>1. Top.call \notin {"require", "on_init"}
    BY <1>1, <1>3 DEF Next, Start, Run, Step, Finalize, EndBroadcast, Require, OnInit, Set,
       WorldStarts, WorldSteps, StepWorld, ClientSteps, DebugSteps, ControllerReads, Quiet,
       HeardInWorld, StopWorld, StopGame, Raise, At, Calling
  <2>2. \A system : ~Pending(w, system)
    BY <1>1, <2>1, NoneInitialized DEF Pending
  <2>3. ASSUME NEW after, Build(after)
        PROVE  \/ sims'[w] = Made
               \/ sims'[w] = sims[w]
    BY <2>3, Numbers DEF Build, Fresh, IInv, Typed
  <2>4. CASE WorldStarts \/ WorldSteps \/ DebugSteps
    <3>1. PICK heard, after : heard = Heard /\ after = <<Of("step_world", Game)>> \o Heard
      OBVIOUS
    <3>2. Build(heard) \/ Build(after) \/ UNCHANGED sims
      BY <2>4, <3>1 DEF WorldStarts, WorldSteps, DebugSteps, Build
    <3>3. QED
      BY <2>2, <2>3, <3>2 DEF Made, Unmade
  <2>5. CASE Start \/ Finalize \/ Set \/ ClientSteps \/ StopWorld \/ StopGame
    <3>1. PICK s, status : sims' = sims \/ sims' = [sims EXCEPT ![s].status = status]
                           \/ sims' = [sims EXCEPT ![s].stopping = TRUE]
      BY <2>5 DEF Start, Finalize, Set, ClientSteps, StopWorld, StopGame
    <3>2. /\ sims'[w].systems = sims[w].systems
          /\ sims'[w].listeners = sims[w].listeners
      <4>1. sims \in [SimId -> Sim] /\ sims[w] \in Sim
        BY Numbers DEF IInv, Typed
      <4>2. CASE sims' = [sims EXCEPT ![s].status = status]
        BY <4>1, <4>2, Numbers DEF Sim
      <4>3. CASE sims' = [sims EXCEPT ![s].stopping = TRUE]
        BY <4>1, <4>3, Numbers DEF Sim
      <4>4. QED
        BY <3>1, <4>2, <4>3
    <3>3. QED
      BY <2>2, <3>2
  <2>6. CASE Run \/ Step \/ EndBroadcast \/ StepWorld \/ ControllerReads \/ Quiet
    BY <2>2, <2>6 DEF Run, Step, EndBroadcast, StepWorld, ControllerReads, Quiet
  <2>7. QED
    BY <1>3, <2>4, <2>5, <2>6 DEF Next
<1>4. QED
  BY <1>2, <1>3

\* What the invariant says of a system that is being initialised below the top.
LEMMA InitializingBelow ==
    ASSUME IInv, DInv, calls # << >>, Top.call \in {"require", "on_init"},
           NEW old, old = Return, NEW k \in 1 .. Len(old), old[k].call = "on_init"
    PROVE  /\ old[k].sim = Top.sim
           /\ SystemOf(old[k]) \in sims[Top.sim].systems \ Listening(Top.sim)
           /\ LeadsTo(SystemOf(old[k]), SystemOf(Top))
           /\ Top.call = "on_init" => SystemOf(Top) # SystemOf(old[k])
           /\ \A j \in 1 .. k - 1 :
                 /\ old[j].call \in {"require", "on_init"} =>
                       LeadsTo(SystemOf(old[k]), SystemOf(old[j]))
                 /\ old[j].call = "on_init" => SystemOf(old[j]) # SystemOf(old[k])
           /\ \A system \in Required(SystemOf(old[k])) :
                 \/ system \in sims[Top.sim].systems
                 \/ Top.call = "require" /\ SystemOf(Top) = system
                 \/ \E j \in 1 .. k - 1 :
                       old[j].call = "require" /\ SystemOf(old[j]) = system
<1>1. /\ IsStack(calls) /\ Len(calls) \in Nat /\ Len(old) = Len(calls) - 1
      /\ \A j \in 1 .. Len(calls) - 1 : old[j] = calls[j + 1]
      /\ Top = calls[1]
  BY AtTheTop, StackLength, Popped DEF Return, Top
<1>2. /\ k + 1 \in 1 .. Len(calls) /\ old[k] = calls[k + 1]
      /\ (k + 1) - 1 = k /\ 1 \in 1 .. k
      /\ \A j \in 1 .. k - 1 : j + 1 \in 1 .. k /\ old[j] = calls[j + 1]
      /\ \A j \in 1 .. k : j = 1 \/ (j - 1 \in 1 .. k - 1 /\ old[j - 1] = calls[j])
  BY <1>1, SMTT(30)
<1>3. old[k] \in Members(Return)
  BY DEF Members
<1>4. old[k].sim = Top.sim
  BY <1>3, AtTheTop DEF Over, Building
<1>5. /\ SystemOf(calls[k + 1]) \in sims[calls[k + 1].sim].systems
                                       \ Listening(calls[k + 1].sim)
      /\ \A j \in 1 .. k :
            /\ calls[j].call \in {"require", "on_init"} =>
                  LeadsTo(SystemOf(calls[k + 1]), SystemOf(calls[j]))
            /\ calls[j].call = "on_init" => SystemOf(calls[j]) # SystemOf(calls[k + 1])
      /\ \A system \in Required(SystemOf(calls[k + 1])) :
            \/ system \in sims[calls[k + 1].sim].systems
            \/ \E j \in 1 .. k :
                  calls[j].call = "require" /\ SystemOf(calls[j]) = system
  <2>1. PICK m \in 1 .. Len(calls) : m = k + 1 /\ m - 1 = k
    BY <1>2
  <2>2. calls[m].call = "on_init"
    BY <1>2, <2>1
  <2>3. /\ SystemOf(calls[m]) \in sims[calls[m].sim].systems \ Listening(calls[m].sim)
        /\ \A j \in 1 .. m - 1 :
              /\ calls[j].call \in {"require", "on_init"} =>
                    LeadsTo(SystemOf(calls[m]), SystemOf(calls[j]))
              /\ calls[j].call = "on_init" => SystemOf(calls[j]) # SystemOf(calls[m])
        /\ \A system \in Required(SystemOf(calls[m])) :
              \/ system \in sims[calls[m].sim].systems
              \/ \E j \in 1 .. m - 1 :
                    calls[j].call = "require" /\ SystemOf(calls[j]) = system
    BY <2>2 DEF DInv, Begun
  <2>4. QED
    BY <2>1, <2>3
<1>6. /\ SystemOf(old[k]) \in sims[Top.sim].systems \ Listening(Top.sim)
      /\ LeadsTo(SystemOf(old[k]), SystemOf(Top))
      /\ Top.call = "on_init" => SystemOf(Top) # SystemOf(old[k])
  BY <1>1, <1>2, <1>4, <1>5
<1>7. ASSUME NEW j \in 1 .. k - 1
      PROVE  /\ old[j].call \in {"require", "on_init"} =>
                   LeadsTo(SystemOf(old[k]), SystemOf(old[j]))
             /\ old[j].call = "on_init" => SystemOf(old[j]) # SystemOf(old[k])
  BY <1>2, <1>5, <1>7
<1>8. ASSUME NEW system \in Required(SystemOf(old[k])), system \notin sims[Top.sim].systems
      PROVE  \/ Top.call = "require" /\ SystemOf(Top) = system
             \/ \E j \in 1 .. k - 1 :
                   old[j].call = "require" /\ SystemOf(old[j]) = system
  <2>1. PICK j \in 1 .. k : calls[j].call = "require" /\ SystemOf(calls[j]) = system
    BY <1>2, <1>4, <1>5, <1>8
  <2>2. QED
    BY <1>1, <1>2, <2>1
<1>9. QED
  BY <1>4, <1>6, <1>7, <1>8

\* Of two worlds only one is being made.
LEMMA ListenedKept ==
    ASSUME NEW w \in WorldId, Listened(w), UNCHANGED requires,
           sims'[w].systems = sims[w].systems, sims'[w].listeners = sims[w].listeners,
           \A system : Pending(w, system) => Pending(w, system)'
    PROVE  Listened(w)'
<1>1. PICK list : list = sims[w].listeners
  OBVIOUS
<1>2. InOrder(list)'
  BY <1>1, InOrderKept DEF Listened
<1>3. sims'[w].listeners = list
  BY <1>1
<1>4. QED
  BY <1>1, <1>2, <1>3 DEF Listened, Listening

\* A system that is required again changes nothing.
LEMMA RequireKnown ==
    ASSUME IInv, DInv, At("require"), SystemOf(Top) \in sims[Top.sim].systems,
           calls' = Return, UNCHANGED <<requires, sims>>
    PROVE  DInv'
<1>1. calls # << >> /\ Top.call = "require"
  BY DEF At
<1>2. PICK old : old = Return /\ calls' = old
  OBVIOUS
<1>3. PICK s : s = Top.sim
  OBVIOUS
<1>4. ASSUME NEW k \in 1 .. Len(old), old[k].call = "on_init"
      PROVE  /\ SystemOf(old[k]) \in sims'[old[k].sim].systems \ Listening(old[k].sim)'
             /\ \A j \in 1 .. k - 1 :
                   /\ old[j].call \in {"require", "on_init"} =>
                         LeadsTo(SystemOf(old[k]), SystemOf(old[j]))'
                   /\ old[j].call = "on_init" => SystemOf(old[j]) # SystemOf(old[k])
             /\ \A system \in Required(SystemOf(old[k]))' :
                   \/ system \in sims'[old[k].sim].systems
                   \/ \E j \in 1 .. k - 1 :
                         old[j].call = "require" /\ SystemOf(old[j]) = system
  <2>1. /\ old[k].sim = s
        /\ SystemOf(old[k]) \in sims[s].systems \ Listening(s)
        /\ \A j \in 1 .. k - 1 :
              /\ old[j].call \in {"require", "on_init"} =>
                    LeadsTo(SystemOf(old[k]), SystemOf(old[j]))
              /\ old[j].call = "on_init" => SystemOf(old[j]) # SystemOf(old[k])
        /\ \A system \in Required(SystemOf(old[k])) :
              \/ system \in sims[s].systems
              \/ \E j \in 1 .. k - 1 :
                    old[j].call = "require" /\ SystemOf(old[j]) = system
    BY <1>1, <1>2, <1>3, <1>4, InitializingBelow
  <2>2. Listening(s)' = Listening(s)
    BY DEF Listening
  <2>3. QED
    BY <2>1, <2>2, LeadingKept DEF SystemOf
<1>5. Begun(calls)'
  <2>1. Begun(old)'
    BY <1>4 DEF Begun, SystemOf
  <2>2. QED
    BY <1>2, <2>1
<1>6. ASSUME NEW w \in WorldId PROVE Listened(w)'
  <2>1. \A system : Pending(w, system) => Pending(w, system)'
    BY <1>1, AtTheTop DEF Pending, SystemOf
  <2>2. QED
    BY <1>6, <2>1, ListenedKept DEF DInv
<1>7. QED
  BY <1>5, <1>6 DEF DInv

\* A system listens after those it requires that do not lead to it.
LEMMA OnInitListens ==
    ASSUME IInv, DInv, OnInit
    PROVE  DInv'
<1>1. calls # << >> /\ Top.call = "on_init" /\ Fine(Top) /\ UNCHANGED requires
  BY AtTheTop DEF OnInit, At
<1>2. PICK s \in SimId, x \in WorldSystem : s = Top.sim /\ Top.rest = <<x>>
  BY <1>1 DEF Fine, WellMade
<1>3. s \in WorldId /\ SystemOf(Top) = x
  BY <1>1, <1>2, Numbers DEF Fine, WellMade, Building, SystemOf
<1>4. PICK old : old = Return /\ calls' = old
  BY DEF OnInit
<1>5. PICK list, longer : list = sims[s].listeners /\ longer = list \o <<x>>
  OBVIOUS
<1>6. /\ sims' = [sims EXCEPT ![s].listeners = longer]
      /\ sims[s] \in Sim /\ list \in Seq(System) /\ x \in System
  BY <1>2, <1>5 DEF OnInit, IInv, Typed, Sim, System
<1>7. /\ sims'[s].listeners = longer /\ sims'[s].systems = sims[s].systems
      /\ \A w \in SimId \ {s} : sims'[w] = sims[w]
      /\ \A w \in SimId : sims'[w].systems = sims[w].systems
  BY <1>6 DEF IInv, Typed, Sim
<1>8. /\ Len(list) \in Nat /\ Len(longer) = Len(list) + 1 /\ longer[Len(list) + 1] = x
      /\ \A k \in 1 .. Len(list) : longer[k] = list[k]
  BY <1>5, <1>6
<1>9. \A k \in 1 .. Len(longer) : k = Len(list) + 1 \/ k \in 1 .. Len(list)
  BY <1>8
<1>10. Listening(s) = {list[k] : k \in 1 .. Len(list)}
       /\ Listening(s)' = {longer[k] : k \in 1 .. Len(longer)}
  BY <1>5, <1>7 DEF Listening
<1>11. Listening(s)' = Listening(s) \cup {x}
  <2>1. Len(list) + 1 \in 1 .. Len(longer) /\ \A k \in 1 .. Len(list) : k \in 1 .. Len(longer)
    BY <1>8
  <2>2. QED
    BY <1>8, <1>9, <1>10, <2>1
<1>12. /\ x \in sims[s].systems \ Listening(s)
       /\ \A system \in Required(x) : system \in sims[s].systems
  <2>1. 1 \in 1 .. Len(calls) /\ Top = calls[1] /\ ~ \E j \in 1 .. 1 - 1 : TRUE
    BY <1>1, AtTheTop, Popped DEF Top
  <2>2. QED
    BY <1>1, <1>2, <1>3, <2>1 DEF DInv, Begun
<1>13. ASSUME NEW k \in 1 .. Len(old), old[k].call = "on_init"
       PROVE  /\ SystemOf(old[k]) \in sims'[old[k].sim].systems \ Listening(old[k].sim)'
              /\ \A j \in 1 .. k - 1 :
                    /\ old[j].call \in {"require", "on_init"} =>
                          LeadsTo(SystemOf(old[k]), SystemOf(old[j]))'
                    /\ old[j].call = "on_init" => SystemOf(old[j]) # SystemOf(old[k])
              /\ \A system \in Required(SystemOf(old[k]))' :
                    \/ system \in sims'[old[k].sim].systems
                    \/ \E j \in 1 .. k - 1 :
                          old[j].call = "require" /\ SystemOf(old[j]) = system
  <2>1. /\ old[k].sim = s
        /\ SystemOf(old[k]) \in sims[s].systems \ Listening(s)
        /\ x # SystemOf(old[k])
        /\ \A j \in 1 .. k - 1 :
              /\ old[j].call \in {"require", "on_init"} =>
                    LeadsTo(SystemOf(old[k]), SystemOf(old[j]))
              /\ old[j].call = "on_init" => SystemOf(old[j]) # SystemOf(old[k])
        /\ \A system \in Required(SystemOf(old[k])) :
              \/ system \in sims[s].systems
              \/ \E j \in 1 .. k - 1 :
                    old[j].call = "require" /\ SystemOf(old[j]) = system
    BY <1>1, <1>2, <1>3, <1>4, <1>13, InitializingBelow
  <2>2. QED
    BY <1>1, <1>7, <1>11, <2>1, LeadingKept DEF SystemOf
<1>14. Begun(calls)'
  <2>1. Begun(old)'
    BY <1>13 DEF Begun, SystemOf
  <2>2. QED
    BY <1>4, <2>1
<1>15. ASSUME NEW w \in WorldId, NEW system, Pending(w, system)
       PROVE  Pending(w, system)' \/ (w = s /\ system = x)
  BY <1>1, <1>2, <1>3, <1>4, <1>15, AtTheTop DEF Pending, SystemOf
<1>16. ASSUME NEW w \in WorldId, w # s PROVE Listened(w)'
  BY <1>1, <1>7, <1>15, <1>16, Numbers, ListenedKept DEF DInv
<1>17. Listened(s)'
  <2>1. Listened(s)
    BY <1>3 DEF DInv
  <2>2. Listening(s)' \subseteq sims'[s].systems
    BY <1>7, <1>11, <1>12, <2>1 DEF Listened
  <2>3. \A system \in sims'[s].systems : system \in Listening(s)' \/ Pending(s, system)'
    BY <1>3, <1>7, <1>11, <1>15, <2>1 DEF Listened
  <2>4. ASSUME NEW j \in 1 .. Len(longer), NEW k \in 1 .. Len(longer), longer[j] = longer[k]
        PROVE  j = k
    <3>1. \A i \in 1 .. Len(list) : list[i] # x
      BY <1>10, <1>12
    <3>2. \A i, m \in 1 .. Len(list) : list[i] = list[m] => i = m
      BY <1>5, <2>1 DEF Listened
    <3>3. QED
      BY <1>8, <1>9, <2>4, <3>1, <3>2
  <2>5. ASSUME NEW k \in 1 .. Len(longer), NEW system \in Required(longer[k])
        PROVE  \/ \E m \in 1 .. k - 1 : longer[m] = system
               \/ LeadsTo(system, longer[k])
    <3>1. CASE k \in 1 .. Len(list)
      <4>1. \/ \E m \in 1 .. k - 1 : list[m] = system
            \/ LeadsTo(system, list[k])
        BY <1>5, <1>8, <2>1, <2>5, <3>1 DEF Listened, InOrder
      <4>2. \A m \in 1 .. k - 1 : longer[m] = list[m]
        BY <1>8, <3>1
      <4>3. QED
        BY <1>8, <3>1, <4>1, <4>2
    <3>2. CASE k = Len(list) + 1
      <4>1. longer[k] = x /\ system \in Required(x) /\ k - 1 = Len(list)
        BY <1>8, <2>5, <3>2
      <4>2. system \in Listening(s) \/ Pending(s, system)
        BY <1>12, <2>1, <4>1 DEF Listened
      <4>3. CASE system \in Listening(s)
        BY <1>8, <1>10, <4>1, <4>3
      <4>4. CASE Pending(s, system)
        <5>1. PICK c \in Members(calls) : c.call = "on_init" /\ SystemOf(c) = system
          BY <4>4 DEF Pending
        <5>2. CASE c = Top
          BY <1>3, <4>1, <5>1, <5>2, Leading
        <5>3. CASE c \in Members(Return)
          <6>1. PICK i \in 1 .. Len(old) : c = old[i]
            BY <1>4, <5>3 DEF Members
          <6>2. LeadsTo(SystemOf(old[i]), SystemOf(Top))
            BY <1>1, <1>4, <5>1, <6>1, InitializingBelow
          <6>3. QED
            BY <1>3, <4>1, <5>1, <6>1, <6>2
        <5>4. QED
          BY <1>1, <5>1, <5>2, <5>3, AtTheTop
      <4>5. QED
        BY <4>2, <4>3, <4>4
    <3>3. QED
      BY <1>9, <3>1, <3>2
  <2>6. InOrder(longer)'
    BY <1>1, <2>5, InOrderKept DEF InOrder
  <2>7. QED
    BY <1>7, <2>2, <2>3, <2>4, <2>6 DEF Listened
<1>18. QED
  BY <1>14, <1>16, <1>17 DEF DInv

\* A system is being initialised once what it requires was required.
LEMMA RequireInitializes ==
    ASSUME IInv, DInv, At("require"), SystemOf(Top) \notin sims[Top.sim].systems,
           sims' = [sims EXCEPT ![Top.sim].systems = @ \cup {SystemOf(Top)}],
           calls' = Requiring(Top.sim, requires[SystemOf(Top)])
                      \o <<With("on_init", Top.sim, SystemOf(Top))>> \o Return,
           UNCHANGED requires
    PROVE  DInv'
<1>1. calls # << >> /\ Top.call = "require" /\ Fine(Top)
  BY AtTheTop DEF At
<1>2. PICK s \in SimId, x \in WorldSystem : s = Top.sim /\ Top.rest = <<x>>
  BY <1>1 DEF Fine, WellMade
<1>3. s \in WorldId /\ SystemOf(Top) = x
  BY <1>1, <1>2, Numbers DEF Fine, WellMade, Building, SystemOf
<1>4. PICK old, q, b : /\ old = Return /\ q = Requiring(s, requires[x])
                       /\ b = With("on_init", s, x)
  OBVIOUS
<1>5. PICK new : new = (q \o <<b>>) \o old /\ calls' = new
  BY <1>2, <1>3, <1>4
<1>6. requires[x] \in Seq(WorldSystem)
  BY RequirementsAssumption DEF IInv, Typed
<1>7. PICK n \in Nat : n = Len(requires[x])
  BY <1>6
<1>8. /\ IsStack(q) /\ Len(q) = n
      /\ \A i \in 1 .. n : q[i].call = "require" /\ SystemOf(q[i]) = requires[x][i]
  <2>1. IsStack(q)
    BY <1>3, <1>4, <1>6, RequiringCalls
  <2>2. q = [i \in 1 .. n |-> With("require", s, requires[x][i])]
    BY <1>4, <1>6, <1>7 DEF Requiring
  <2>3. \A i \in 1 .. n : q[i].call = "require" /\ SystemOf(q[i]) = requires[x][i]
    BY <2>2 DEF With, Of, SystemOf
  <2>4. Len(q) = n
    BY <2>2
  <2>5. QED
    BY <2>1, <2>3, <2>4
<1>9. b.call = "on_init" /\ b.sim = s /\ SystemOf(b) = x
  BY <1>4 DEF With, Of, SystemOf
<1>10. IsStack(old) /\ Len(old) \in Nat /\ Members(calls) = {Top} \cup Members(old)
  BY <1>1, <1>4, AtTheTop, StackLength
<1>11. /\ Members(new) = Members(q) \cup {b} \cup Members(old)
       /\ Len(new) = n + 1 + Len(old)
       /\ \A i \in 1 .. n : new[i] = q[i]
       /\ new[n + 1] = b
       /\ \A i \in 1 .. Len(old) : new[n + 1 + i] = old[i]
  <2>1. PICK one, top : one = <<b>> /\ top = q \o one
    OBVIOUS
  <2>2. IsStack(one) /\ Len(one) = 1 /\ Members(one) = {b} /\ one[1] = b
    BY <2>1, Short
  <2>3. /\ IsStack(top) /\ Len(top) = n + 1 /\ Members(top) = Members(q) \cup {b}
        /\ \A i \in 1 .. n : top[i] = q[i]
        /\ \A i \in 1 .. 1 : top[n + i] = one[i]
    BY <1>8, <2>1, <2>2, Pushed
  <2>4. top[n + 1] = b /\ n + 1 \in 1 .. n + 1 /\ \A i \in 1 .. n : i \in 1 .. n + 1
    BY <2>2, <2>3
  <2>5. new = top \o old
    BY <1>5, <2>1
  <2>6. /\ Len(new) = (n + 1) + Len(old) /\ Members(new) = Members(top) \cup Members(old)
        /\ \A i \in 1 .. n + 1 : new[i] = top[i]
        /\ \A i \in 1 .. Len(old) : new[(n + 1) + i] = old[i]
    <3>1. /\ Len(new) = Len(top) + Len(old) /\ Members(new) = Members(top) \cup Members(old)
          /\ \A i \in 1 .. Len(top) : new[i] = top[i]
          /\ \A i \in 1 .. Len(old) : new[Len(top) + i] = old[i]
      <4>1. IsStack(top) /\ IsStack(old)
        BY <1>10, <2>3
      <4>2. QED
        BY <2>5, <4>1, Pushed
    <3>2. Len(top) = n + 1
      BY <2>3
    <3>3. QED
      BY <3>1, <3>2
  <2>7. ASSUME NEW i \in 1 .. n PROVE new[i] = q[i]
    <3>1. i \in 1 .. n + 1
      OBVIOUS
    <3>2. new[i] = top[i] /\ top[i] = q[i]
      BY <2>3, <2>6, <3>1
    <3>3. QED
      BY <3>2
  <2>8. new[n + 1] = b
    BY <2>4, <2>6
  <2>9. QED
    BY <2>3, <2>6, <2>7, <2>8
<1>12. /\ sims'[s].systems = sims[s].systems \cup {x}
       /\ sims'[s].listeners = sims[s].listeners
       /\ \A w \in SimId \ {s} : sims'[w] = sims[w]
       /\ x \notin sims[s].systems /\ x \notin Listening(s)
  BY <1>2, <1>3 DEF IInv, Typed, Sim, DInv, Listened
<1>13. Listening(s)' = Listening(s)
  BY <1>12 DEF Listening
<1>14. ASSUME NEW i \in 1 .. Len(old), old[i].call = "on_init"
       PROVE  /\ old[i].sim = s
              /\ SystemOf(old[i]) \in sims[s].systems \ Listening(s)
              /\ LeadsTo(SystemOf(old[i]), x)
              /\ \A j \in 1 .. i - 1 :
                    /\ old[j].call \in {"require", "on_init"} =>
                          LeadsTo(SystemOf(old[i]), SystemOf(old[j]))
                    /\ old[j].call = "on_init" => SystemOf(old[j]) # SystemOf(old[i])
              /\ \A system \in Required(SystemOf(old[i])) :
                    \/ system \in sims[s].systems
                    \/ x = system
                    \/ \E j \in 1 .. i - 1 :
                          old[j].call = "require" /\ SystemOf(old[j]) = system
  BY <1>1, <1>2, <1>3, <1>4, <1>14, InitializingBelow
<1>15. \A i \in 1 .. n : requires[x][i] \in Required(x)
  BY <1>7 DEF Required
<1>16. ASSUME NEW k \in 1 .. Len(new)
       PROVE  k \in 1 .. n \/ k = n + 1 \/ \E i \in 1 .. Len(old) : k = n + 1 + i
  <2>1. k > n + 1 => k - (n + 1) \in 1 .. Len(old) /\ k = n + 1 + (k - (n + 1))
    BY <1>10, <1>11
  <2>2. k \in 1 .. n \/ k = n + 1 \/ k > n + 1
    BY <1>11
  <2>3. QED
    BY <2>1, <2>2
<1>17. ASSUME NEW k \in 1 .. Len(new), new[k].call = "on_init"
       PROVE  /\ SystemOf(new[k]) \in sims'[new[k].sim].systems \ Listening(new[k].sim)'
              /\ \A j \in 1 .. k - 1 :
                    /\ new[j].call \in {"require", "on_init"} =>
                          LeadsTo(SystemOf(new[k]), SystemOf(new[j]))
                    /\ new[j].call = "on_init" => SystemOf(new[j]) # SystemOf(new[k])
              /\ \A system \in Required(SystemOf(new[k])) :
                    \/ system \in sims'[new[k].sim].systems
                    \/ \E j \in 1 .. k - 1 :
                          new[j].call = "require" /\ SystemOf(new[j]) = system
  <2>1. CASE k \in 1 .. n
    BY <1>8, <1>11, <1>17, <2>1
  <2>2. CASE k = n + 1
    <3>1. new[k] = b /\ k - 1 = n
      BY <1>11, <2>2
    <3>2. SystemOf(new[k]) \in sims'[new[k].sim].systems \ Listening(new[k].sim)'
      BY <1>9, <1>12, <1>13, <3>1
    <3>3. ASSUME NEW j \in 1 .. k - 1
          PROVE  /\ LeadsTo(SystemOf(new[k]), SystemOf(new[j]))
                 /\ new[j].call # "on_init"
      <4>1. j \in 1 .. n /\ new[j] = q[j]
        BY <1>11, <3>1
      <4>2. QED
        BY <1>8, <1>9, <1>15, <3>1, <4>1, Leading
    <3>4. ASSUME NEW system \in Required(SystemOf(new[k]))
          PROVE  \E j \in 1 .. k - 1 : new[j].call = "require" /\ SystemOf(new[j]) = system
      <4>1. PICK j \in 1 .. n : system = requires[x][j]
        BY <1>7, <1>9, <3>1 DEF Required
      <4>2. j \in 1 .. k - 1 /\ new[j] = q[j]
        BY <1>11, <3>1
      <4>3. QED
        BY <1>8, <4>1, <4>2
    <3>5. QED
      BY <3>2, <3>3, <3>4
  <2>3. ASSUME NEW i \in 1 .. Len(old), k = n + 1 + i
        PROVE  /\ SystemOf(new[k]) \in sims'[new[k].sim].systems \ Listening(new[k].sim)'
               /\ \A j \in 1 .. k - 1 :
                     /\ new[j].call \in {"require", "on_init"} =>
                           LeadsTo(SystemOf(new[k]), SystemOf(new[j]))
                     /\ new[j].call = "on_init" => SystemOf(new[j]) # SystemOf(new[k])
               /\ \A system \in Required(SystemOf(new[k])) :
                     \/ system \in sims'[new[k].sim].systems
                     \/ \E j \in 1 .. k - 1 :
                           new[j].call = "require" /\ SystemOf(new[j]) = system
    <3>1. new[k] = old[i] /\ old[i].call = "on_init" /\ old[i].sim = s
      BY <1>11, <1>14, <1>17, <2>3
    <3>2. SystemOf(new[k]) \in sims'[new[k].sim].systems \ Listening(new[k].sim)'
      BY <1>12, <1>13, <1>14, <3>1
    <3>3. ASSUME NEW j \in 1 .. k - 1
          PROVE  /\ new[j].call \in {"require", "on_init"} =>
                       LeadsTo(SystemOf(new[k]), SystemOf(new[j]))
                 /\ new[j].call = "on_init" => SystemOf(new[j]) # SystemOf(new[k])
      <4>1. LeadsTo(SystemOf(old[i]), x) /\ SystemOf(old[i]) # x
        BY <1>12, <1>14, <3>1
      <4>2. CASE j \in 1 .. n
        BY <1>8, <1>11, <1>15, <3>1, <4>1, <4>2, Leading, ZenonT(60)
      <4>3. CASE j = n + 1
        BY <1>9, <1>11, <3>1, <4>1, <4>3
      <4>4. CASE j \notin 1 .. n + 1
        <5>1. j - (n + 1) \in 1 .. i - 1 /\ j = n + 1 + (j - (n + 1))
          BY <1>10, <2>3, <4>4
        <5>2. PICK m \in 1 .. i - 1 : j = n + 1 + m
          BY <5>1
        <5>3. m \in 1 .. Len(old) /\ new[j] = old[m]
          BY <1>10, <1>11, <5>2
        <5>4. QED
          BY <1>14, <3>1, <5>3, SMTT(30)
      <4>5. QED
        BY <4>2, <4>3, <4>4
    <3>4. ASSUME NEW system \in Required(SystemOf(new[k])),
                 system \notin sims'[new[k].sim].systems
          PROVE  \E j \in 1 .. k - 1 : new[j].call = "require" /\ SystemOf(new[j]) = system
      <4>1. PICK m \in 1 .. i - 1 : old[m].call = "require" /\ SystemOf(old[m]) = system
        BY <1>12, <1>14, <3>1, <3>4
      <4>2. n + 1 + m \in 1 .. k - 1 /\ m \in 1 .. Len(old)
        BY <1>10, <2>3
      <4>3. new[n + 1 + m] = old[m]
        BY <1>11, <4>2
      <4>4. QED
        BY <4>1, <4>2, <4>3
    <3>5. QED
      BY <3>2, <3>3, <3>4
  <2>4. QED
    BY <1>16, <2>1, <2>2, <2>3
<1>18. ASSUME NEW k \in 1 .. Len(new), new[k].call = "on_init"
       PROVE  /\ SystemOf(new[k]) \in sims'[new[k].sim].systems \ Listening(new[k].sim)'
              /\ \A j \in 1 .. k - 1 :
                    /\ new[j].call \in {"require", "on_init"} =>
                          LeadsTo(SystemOf(new[k]), SystemOf(new[j]))'
                    /\ new[j].call = "on_init" => SystemOf(new[j]) # SystemOf(new[k])
              /\ \A system \in Required(SystemOf(new[k]))' :
                    \/ system \in sims'[new[k].sim].systems
                    \/ \E j \in 1 .. k - 1 :
                          new[j].call = "require" /\ SystemOf(new[j]) = system
  <2>1. \A y, z : LeadsTo(y, z)' <=> LeadsTo(y, z)
    BY LeadingKept
  <2>2. \A y : Required(y)' = Required(y)
    BY LeadingKept
  <2>3. SystemOf(new[k]) \in sims'[new[k].sim].systems \ Listening(new[k].sim)'
    BY <1>17, <1>18
  <2>4. ASSUME NEW j \in 1 .. k - 1
        PROVE  /\ new[j].call \in {"require", "on_init"} =>
                     LeadsTo(SystemOf(new[k]), SystemOf(new[j]))'
               /\ new[j].call = "on_init" => SystemOf(new[j]) # SystemOf(new[k])
    BY <1>17, <1>18, <2>1 DEF SystemOf
  <2>5. ASSUME NEW system \in Required(SystemOf(new[k]))'
        PROVE  \/ system \in sims'[new[k].sim].systems
               \/ \E j \in 1 .. k - 1 :
                     new[j].call = "require" /\ SystemOf(new[j]) = system
    BY <1>17, <1>18, <2>2 DEF SystemOf
  <2>6. QED
    BY <2>3, <2>4, <2>5
<1>19. Begun(calls)'
  <2>1. Begun(new)'
    BY <1>18 DEF Begun, SystemOf
  <2>2. QED
    BY <1>5, <2>1
<1>20. ASSUME NEW w \in WorldId, NEW system, Pending(w, system) PROVE Pending(w, system)'
  BY <1>1, <1>5, <1>10, <1>11, <1>20 DEF Pending, SystemOf
<1>21. ASSUME NEW w \in WorldId, w # s PROVE Listened(w)'
  BY <1>12, <1>20, <1>21, Numbers, ListenedKept DEF DInv
<1>22. Listened(s)'
  <2>1. Listened(s)
    BY <1>3 DEF DInv
  <2>2. Listening(s)' \subseteq sims'[s].systems
    BY <1>12, <1>13, <2>1 DEF Listened
  <2>3. Pending(s, x)'
    BY <1>5, <1>9, <1>11 DEF Pending, SystemOf
  <2>4. \A system \in sims'[s].systems : system \in Listening(s)' \/ Pending(s, system)'
    BY <1>3, <1>12, <1>13, <1>20, <2>1, <2>3 DEF Listened
  <2>5. PICK list : list = sims[s].listeners
    OBVIOUS
  <2>6. InOrder(list)'
    BY <2>1, <2>5, InOrderKept DEF Listened
  <2>7. sims'[s].listeners = list /\ \A j, k \in 1 .. Len(list) : list[j] = list[k] => j = k
    BY <1>12, <2>1, <2>5 DEF Listened
  <2>8. QED
    BY <2>2, <2>4, <2>6, <2>7 DEF Listened
<1>23. QED
  BY <1>19, <1>21, <1>22 DEF DInv

\* Nothing listens in a world that is not made.
LEMMA InitDInv == Init => DInv
<1> SUFFICES ASSUME Init PROVE DInv
  OBVIOUS
<1>1. ASSUME NEW c \in Members(calls) PROVE c.call # "on_init"
  <2>1. PICK a, b : a = Of("start", Game) /\ b = Of("run", Game)
    OBVIOUS
  <2>2. Members(<<a, b>>) = {a, b}
    BY Short
  <2>3. c \in {a, b}
    BY <1>1, <2>1, <2>2 DEF Init
  <2>4. QED
    BY <2>1, <2>3 DEF Of
<1>2. Begun(calls)
  BY <1>1 DEF Begun, Members
<1>3. ASSUME NEW w \in WorldId PROVE Listened(w)
  <2>1. sims[w].systems = {} /\ sims[w].listeners = << >>
    BY Numbers DEF Init, Unmade
  <2>2. 1 .. Len(<< >>) = {}
    BY Short
  <2>3. QED
    BY <2>1, <2>2 DEF Listened, Listening, InOrder
<1>4. QED
  BY <1>2, <1>3 DEF DInv

\* Every step keeps the order in which systems listen.
LEMMA NextDInv == IInv /\ DInv /\ [Next]_vars => DInv'
<1> SUFFICES ASSUME IInv, DInv, [Next]_vars PROVE DInv'
  OBVIOUS
<1>1. CASE UNCHANGED vars
  <2>1. UNCHANGED <<requires, sims, calls>>
    BY <1>1 DEF vars
  <2>2. Begun(calls)'
    BY <2>1 DEF DInv, Begun, Listening, Required, LeadsTo, Closed, SystemOf
  <2>3. ASSUME NEW w \in WorldId PROVE Listened(w)'
    BY <2>1, ListenedKept DEF DInv, Pending, SystemOf
  <2>4. QED
    BY <2>2, <2>3 DEF DInv
<1>2. CASE Require
  <2>1. At("require") /\ UNCHANGED <<requires, world, errors>>
    BY <1>2 DEF Require
  <2>2. CASE SystemOf(Top) \in sims[Top.sim].systems
    BY <1>2, <2>1, <2>2, RequireKnown DEF Require, SystemOf
  <2>3. CASE SystemOf(Top) \notin sims[Top.sim].systems
    BY <1>2, <2>1, <2>3, RequireInitializes DEF Require, SystemOf
  <2>4. QED
    BY <2>2, <2>3
<1>3. CASE OnInit
  BY <1>3, OnInitListens
<1>4. CASE Next /\ ~Require /\ ~OnInit
  <2>1. UNCHANGED requires /\ \A c \in Members(calls') : c.call # "on_init"
    BY <1>4, RequiresKept, OthersInitializeNone
  <2>2. Begun(calls)'
    BY <2>1 DEF Begun, Members
  <2>3. ASSUME NEW w \in WorldId PROVE Listened(w)'
    <3>1. CASE sims'[w].systems = {} /\ sims'[w].listeners = << >>
      <4>1. 1 .. Len(<< >>) = {}
        BY Short
      <4>2. QED
        BY <3>1, <4>1 DEF Listened, Listening, InOrder
    <3>2. CASE /\ sims'[w].systems = sims[w].systems
               /\ sims'[w].listeners = sims[w].listeners
               /\ \A system : ~Pending(w, system)
      BY <2>1, <3>2, ListenedKept DEF DInv
    <3>3. QED
      BY <1>4, <3>1, <3>2, SystemsKept
  <2>4. QED
    BY <2>2, <2>3 DEF DInv
<1>5. QED
  BY <1>1, <1>2, <1>3, <1>4

\* The systems of a world that started all listen, once, and after those they require,
\* but for those that lead back to them.
THEOREM DependenciesListenFirst == Spec => []DependenciesFirst
<1>1. IInv /\ DInv => DependenciesFirst
  <2> SUFFICES ASSUME IInv, DInv, NEW w \in WorldId, sims[w].status = "started"
               PROVE  LET order == sims[w].listeners
                      IN  /\ sims[w].systems = {order[k] : k \in 1 .. Len(order)}
                          /\ \A j, k \in 1 .. Len(order) :
                                /\ order[j] = order[k] => j = k
                                /\ \/ j < k
                                   \/ LeadsTo(order[j], order[k])
                                   \/ \A n \in 1 .. Len(requires[order[k]]) :
                                         requires[order[k]][n] # order[j]
    BY DEF DependenciesFirst
  <2>1. PICK order : order = sims[w].listeners /\ order \in Seq(System)
    BY Numbers DEF IInv, Typed, Sim
  <2>2. Listened(w)
    BY DEF DInv
  <2>3. \A system : ~Pending(w, system)
    BY DEF Pending, IInv, AllFine, Fine, Building
  <2>4. sims[w].systems = {order[k] : k \in 1 .. Len(order)}
    BY <2>1, <2>2, <2>3 DEF Listened, Listening
  <2>5. ASSUME NEW j \in 1 .. Len(order), NEW k \in 1 .. Len(order)
        PROVE  /\ order[j] = order[k] => j = k
               /\ \/ j < k
                  \/ LeadsTo(order[j], order[k])
                  \/ \A n \in 1 .. Len(requires[order[k]]) : requires[order[k]][n] # order[j]
    <3>1. \A i, m \in 1 .. Len(order) : order[i] = order[m] => i = m
      BY <2>1, <2>2 DEF Listened
    <3>2. ASSUME NEW n \in 1 .. Len(requires[order[k]]), requires[order[k]][n] = order[j]
          PROVE  j < k \/ LeadsTo(order[j], order[k])
      <4>1. order[j] \in Required(order[k])
        BY <3>2 DEF Required
      <4>2. \/ \E m \in 1 .. k - 1 : order[m] = order[j]
            \/ LeadsTo(order[j], order[k])
        BY <2>1, <2>2, <4>1 DEF Listened, InOrder
      <4>3. ASSUME NEW m \in 1 .. k - 1, order[m] = order[j] PROVE j < k
        <5>1. m \in 1 .. Len(order) /\ m < k
          BY <2>1
        <5>2. QED
          BY <3>1, <4>3, <5>1
      <4>4. QED
        BY <4>2, <4>3
    <3>3. QED
      BY <3>1, <3>2
  <2>6. QED
    BY <2>1, <2>4, <2>5
<1>2. QED
  BY <1>1, Invariance, InitDInv, NextDInv, PTL DEF Spec

-----------------------------------------------------------------------------
(***************************************************************************)
(* The types of the calls, which need those of the listeners selected.     *)
(***************************************************************************)
\* The calls the functions make are calls.
LEMMA MadeAreCalls ==
    ASSUME IInv, NEW s \in SimId
    PROVE  /\ \A call \in {"run", "start", "step", "finalize", "set", "step_world"} :
                 Of(call, s) \in Call
           /\ \A system \in System :
                 With("require", s, system) \in Call /\ With("on_init", s, system) \in Call
           /\ \A event \in Event : Broadcast(s, event) \in Call
<1>1. << >> \in Seq(System)
  OBVIOUS
<1>2. \A system \in System : <<system>> \in Seq(System)
  OBVIOUS
<1>3. \A event \in Event : Listeners(s, event) \in Seq(System)
  <2>1. sims[s].listeners \in Seq(System)
    BY DEF IInv, Typed, Sim
  <2>2. \A places : Selected(sims[s].listeners, places) \in Seq(System)
    BY <2>1, SelectedKeeps
  <2>3. QED
    BY <2>2 DEF Listeners
<1>4. QED
  BY <1>1, <1>2, <1>3 DEF Of, With, Broadcast, Call

\* What is put on a stack of calls is calls on the stack.
LEMMA StackOfCalls ==
    ASSUME NEW below \in Seq(Call)
    PROVE  /\ \A a \in Call : <<a>> \o below \in Seq(Call)
           /\ \A a, b \in Call : <<a, b>> \o below \in Seq(Call)
           /\ \A a, b, c \in Call : <<a, b, c>> \o below \in Seq(Call)
           /\ \A above \in Seq(Call) : above \o below \in Seq(Call)
OBVIOUS

\* The parts of the stack that a call returns to, or that a broadcast goes on with.
LEMMA PartsOfCalls ==
    ASSUME calls \in Seq(Call), calls # << >>
    PROVE  /\ Top \in Call /\ Return \in Seq(Call)
           /\ Top.rest # << >> => Heard \in Seq(Call) /\ Listener \in System
<1>1. Top \in Call /\ Return \in Seq(Call)
  BY HeadTailProperties DEF Top, Return
<1>2. ASSUME Top.rest # << >>
      PROVE  Heard \in Seq(Call) /\ Listener \in System
  <2>1. Top.rest \in Seq(System)
    BY <1>1 DEF Call
  <2>2. Tail(Top.rest) \in Seq(System) /\ Head(Top.rest) \in System
    BY <1>2, <2>1, HeadTailProperties
  <2>3. [Top EXCEPT !.rest = Tail(@)] \in Call
    BY <1>1, <2>2 DEF Call
  <2>4. QED
    BY <1>1, <2>2, <2>3, StackOfCalls DEF Heard, Listener
<1>3. QED
  BY <1>1, <1>2

\* The requirements of a system, or of a new world, are calls.
LEMMA RequiringAreCalls ==
    ASSUME IInv, NEW s \in SimId, NEW systems \in Seq(System)
    PROVE  Requiring(s, systems) \in Seq(Call)
<1>1. Len(systems) \in Nat /\ DOMAIN systems = 1 .. Len(systems)
  OBVIOUS
<1>2. \A k \in 1 .. Len(systems) : With("require", s, systems[k]) \in Call
  BY MadeAreCalls
<1>3. Requiring(s, systems) \in [1 .. Len(systems) -> Call]
  BY <1>1, <1>2 DEF Requiring
<1>4. QED
  BY <1>1, <1>3, SeqDef

\* What is left of the stack after an error.
LEMMA UnwoundAreCalls ==
    ASSUME calls \in Seq(Call), calls # << >>,
           Top.call = "broadcast" => Top.rest # << >>
    PROVE  Unwound \in Seq(Call)
<1> DEFINE stack == IF Top.call = "broadcast" THEN Heard ELSE calls
           catching == {k \in 1 .. Len(stack) : Catches(stack[k])}
           first == CHOOSE k \in catching : \A j \in catching : k <= j
<1>1. stack \in Seq(Call)
  BY PartsOfCalls
<1> HIDE DEF stack
<1>2. Len(stack) \in Nat /\ \A k \in 1 .. Len(stack) : stack[k] \in Call
  BY <1>1
<1>3. CASE catching = {}
  <2>1. Unwound = << >>
    BY <1>3 DEF Unwound, stack
  <2>2. QED
    BY <2>1
<1>4. CASE catching # {}
  <2>1. \E k \in catching : \A j \in catching : k <= j
    <3>1. catching \in SUBSET Nat
      BY <1>2
    <3>2. QED
      BY <1>4, <3>1, FirstExists
  <2>2. first \in 1 .. Len(stack)
    BY <2>1
  <2>3. Unwound = SubSeq(stack, first, Len(stack))
    BY <1>4 DEF Unwound, stack
  <2>4. \A k \in first .. Len(stack) : stack[k] \in Call
    BY <1>2, <2>2
  <2>5. SubSeq(stack, first, Len(stack)) \in Seq(Call)
    <3> HIDE DEF first
    <3>1. QED
      BY <1>2, <2>2, <2>4, SubSeqProperties
  <2>6. QED
    BY <2>3, <2>5
<1>5. QED
  BY <1>3, <1>4

\* A world that is made is made of calls.
LEMMA BuildOfCalls ==
    ASSUME IInv, NEW after \in Seq(Call), Build(after)
    PROVE  calls' \in Seq(Call)
<1>1. PICK w \in WorldId : calls' = Requiring(w, Roots) \o <<Of("set", w)>> \o after
  BY DEF Build, Fresh
<1>2. w \in SimId /\ Roots \in Seq(System)
  BY <1>1, Numbers, RootsAssumption DEF System
<1>3. Requiring(w, Roots) \in Seq(Call) /\ Of("set", w) \in Call
  BY <1>2, RequiringAreCalls, MadeAreCalls
<1>4. QED
  BY <1>1, <1>3

\* Every step makes calls.
LEMMA NextOfCalls ==
    ASSUME IInv, IInv', calls \in Seq(Call), [Next]_vars
    PROVE  calls' \in Seq(Call)
<1>1. CASE UNCHANGED vars
  BY <1>1 DEF vars
<1>2. CASE calls = << >>
  <2>1. UNCHANGED vars
    BY <1>2 DEF Next, At, Calling, HeardInWorld, Start, Run, Step, Finalize, EndBroadcast,
                Require, OnInit, Set, WorldStarts, WorldSteps, StepWorld, ClientSteps,
                DebugSteps, ControllerReads, Quiet, StopWorld, StopGame, Raise
  <2>2. QED
    BY <1>1, <2>1
<1>3. CASE calls # << >> /\ Next
  <2>1. Top \in Call /\ Return \in Seq(Call) /\ Top.sim \in SimId /\ Game \in SimId
    BY <1>3, PartsOfCalls, Numbers DEF Call
  <2>2. HeardInWorld \/ (\E s \in SimId, event \in Event : Calling(s, event)) =>
           Heard \in Seq(Call)
    BY <1>3, PartsOfCalls DEF HeardInWorld, Calling
  <2>3. CASE Start
    BY <2>1, <2>3, MadeAreCalls, StackOfCalls DEF Start, Event
  <2>4. CASE Run
    BY <2>1, <2>4, MadeAreCalls, StackOfCalls DEF Run
  <2>5. CASE Step
    BY <2>1, <2>5, MadeAreCalls, StackOfCalls DEF Step, Event
  <2>6. CASE Finalize \/ EndBroadcast \/ OnInit
    BY <2>1, <2>6 DEF Finalize, EndBroadcast, OnInit
  <2>7. CASE Require
    <3> DEFINE system == Head(Top.rest)
    <3>1. Top.rest # << >> /\ system \in WorldSystem
      <4>1. Top.call = "require" /\ Top \in Members(calls)
        BY <1>3, <2>7, AtTheTop DEF Require, At
      <4>2. WellMade(Top)
        BY <4>1 DEF IInv, AllFine, Fine
      <4>3. PICK x \in WorldSystem : Top.rest = <<x>>
        BY <4>1, <4>2 DEF WellMade
      <4>4. QED
        BY <4>3, Short
    <3>2. requires[system] \in Seq(System)
      <4>1. requires \in [WorldSystem -> Seq(WorldSystem)]
        BY RequirementsAssumption DEF IInv, Typed
      <4>2. requires[system] \in Seq(WorldSystem)
        BY <3>1, <4>1
      <4>3. QED
        BY <4>2 DEF System
    <3>3. Requiring(Top.sim, requires[system]) \in Seq(Call)
      BY <2>1, <3>2, RequiringAreCalls
    <3>4. With("on_init", Top.sim, system) \in Call
      BY <2>1, <3>1, MadeAreCalls DEF System
    <3>5. \/ calls' = Return
          \/ calls' = Requiring(Top.sim, requires[system])
                        \o <<With("on_init", Top.sim, system)>> \o Return
      BY <2>7 DEF Require
    <3> HIDE DEF system
    <3>6. PICK q, b : /\ q = Requiring(Top.sim, requires[system])
                      /\ b = With("on_init", Top.sim, system)
      OBVIOUS
    <3>7. q \in Seq(Call) /\ <<b>> \in Seq(Call)
      BY <3>3, <3>4, <3>6
    <3>8. PICK above : above = q \o <<b>>
      OBVIOUS
    <3>9. above \in Seq(Call)
      BY <3>7, <3>8
    <3>10. calls' = Return \/ calls' = above \o Return
      BY <3>5, <3>6, <3>8
    <3>11. QED
      BY <2>1, <3>9, <3>10, StackOfCalls
  <2>8. CASE Set
    BY <2>1, <2>8, MadeAreCalls, StackOfCalls DEF Set, Starting, Event
  <2>9. CASE WorldStarts
    BY <2>1, <2>2, <2>9, BuildOfCalls DEF WorldStarts, Event
  <2>10. CASE WorldSteps
    <3> DEFINE after == <<Of("step_world", Game)>> \o Heard
    <3>1. after \in Seq(Call)
      BY <2>1, <2>2, <2>10, MadeAreCalls, StackOfCalls DEF WorldSteps, Event
    <3>2. Build(after) \/ calls' = after
      BY <2>10 DEF WorldSteps
    <3> HIDE DEF after
    <3>3. QED
      BY <3>1, <3>2, BuildOfCalls
  <2>11. CASE StepWorld
    <3>1. calls' = <<Of("step", world)>> \o Return
      BY <2>11 DEF StepWorld
    <3>2. world \in SimId
      <4>1. Top.call = "step_world" /\ Top \in Members(calls) /\ ~Building(Top)
        BY <1>3, <2>11, AtTheTop DEF StepWorld, At, Building
      <4>2. world # nil
        BY <4>1 DEF IInv, WorldsAwaited
      <4>3. QED
        BY <4>2, Numbers DEF IInv, Typed
    <3>3. QED
      BY <2>1, <3>1, <3>2, MadeAreCalls, StackOfCalls
  <2>12. CASE ClientSteps
    <3>1. Heard \in Seq(Call)
      BY <2>1, <2>2, <2>12 DEF ClientSteps, Event
    <3>2. calls' = Heard \/ (world # nil /\ calls' = <<Broadcast(world, "on_draw")>> \o Heard)
      BY <2>12 DEF ClientSteps
    <3>3. world # nil => world \in SimId
      BY Numbers DEF IInv, Typed
    <3>4. QED
      BY <3>1, <3>2, <3>3, MadeAreCalls, StackOfCalls DEF Event
  <2>13. CASE DebugSteps
    BY <2>1, <2>2, <2>13, BuildOfCalls DEF DebugSteps, Event
  <2>14. CASE Quiet
    BY <2>2, <2>14 DEF Quiet
  <2>15. CASE StopWorld \/ StopGame
    <3>1. Calling(world, "on_step") /\ calls' = Heard
      BY <2>15 DEF StopWorld, StopGame
    <3>2. world \in SimId
      BY <2>1, <3>1 DEF Calling
    <3>3. QED
      BY <2>2, <3>1, <3>2 DEF Event
  <2>16. CASE Raise
    <3>1. Top.call = "broadcast" => Top.rest # << >>
      BY <2>16 DEF Raise, HeardInWorld, Calling, At
    <3>2. QED
      BY <1>3, <2>16, <3>1, UnwoundAreCalls DEF Raise
  <2>17. CASE ControllerReads
    <3>1. Heard \in Seq(Call)
      BY <2>1, <2>2, <2>17 DEF ControllerReads, Event
    <3>2. world # nil => world \in SimId
      BY Numbers DEF IInv, Typed
    <3>3. ASSUME NEW changes \in 0 .. MaxInputs, NEW q, world # nil,
                 q = [k \in 1 .. changes |-> Broadcast(world, "on_input_set")]
          PROVE  q \o Heard \in Seq(Call)
      <4>1. Broadcast(world, "on_input_set") \in Call
        BY <3>2, <3>3, MadeAreCalls DEF Event
      <4>2. q \in [1 .. changes -> Call]
        BY <3>3, <4>1
      <4>3. q \in Seq(Call)
        BY <4>2, SeqDef
      <4>4. QED
        BY <3>1, <4>3, StackOfCalls
    <3>4. calls' = Heard \/ (world # nil /\ \E changes \in 0 .. MaxInputs :
               calls' = [k \in 1 .. changes |-> Broadcast(world, "on_input_set")] \o Heard)
      BY <2>17 DEF ControllerReads
    <3>5. QED
      BY <3>1, <3>3, <3>4
  <2>18. QED
    BY <1>3, <2>3, <2>4, <2>5, <2>6, <2>7, <2>8, <2>9, <2>10, <2>11, <2>12, <2>13, <2>14,
       <2>15, <2>16, <2>17 DEF Next
<1>4. QED
  BY <1>1, <1>2, <1>3

\* Every reachable state of the game and its worlds is well typed: every call under way
\* is on a simulation there is, of an event there is, with systems left to call.
THEOREM TypeCorrect == Spec => []TypeOK
<1>1. Init => calls \in Seq(Call)
  <2> SUFFICES ASSUME Init PROVE calls \in Seq(Call)
    OBVIOUS
  <2>1. Of("start", Game) \in Call /\ Of("run", Game) \in Call
    BY InitInv, MadeAreCalls, Numbers
  <2>2. QED
    BY <2>1 DEF Init
<1>2. IInv /\ calls \in Seq(Call) => TypeOK
  BY DEF IInv, Typed, TypeOK
<1>3. IInv /\ IInv' /\ calls \in Seq(Call) /\ [Next]_vars => (calls \in Seq(Call))'
  BY NextOfCalls
<1>4. QED
  BY <1>1, <1>2, <1>3, InitInv, NextInv, PTL DEF Spec
=============================================================================
