---------------------------- MODULE WindowsProofs ----------------------------
(***************************************************************************)
(* Windows and their resources, for any number of them.                    *)
(***************************************************************************)
EXTENDS Windows, ArrayLemmas, FiniteSetTheorems

USE KindsAssumption, BoundsAssumption, NilAssumption

-----------------------------------------------------------------------------
(***************************************************************************)
(* The list of a window.                                                   *)
(***************************************************************************)
Lists(list, r) == \E i \in 1 .. Len(list) : list[i] = r
Once(list) == \A i, j \in 1 .. Len(list) : list[i] = list[j] => i = j

\* odWindowResource_destroy takes its resource out of the list and leaves the others.
LEMMA UnlistedKeeps ==
    ASSUME NEW list \in Seq(Resource), Once(list), NEW r \in Resource
    PROVE  /\ Unlisted(list, r) \in Seq(Resource)
           /\ Once(Unlisted(list, r))
           /\ \A q \in Resource : Lists(Unlisted(list, r), q) <=> q # r /\ Lists(list, q)
<1>1. CASE ~Lists(list, r)
  BY <1>1 DEF Unlisted, Lists
<1>2. CASE Lists(list, r)
  <2> DEFINE i == CHOOSE i \in 1 .. Len(list) : list[i] = r
             n == Len(list)
             rest == SwapPop(list, i)
  <2>1. i \in 1 .. n /\ list[i] = r /\ n \in Nat
    BY <1>2 DEF Lists
  <2>2. Unlisted(list, r) = rest
    BY <1>2 DEF Unlisted, Lists
  <2> HIDE DEF i
  <2>3. rest \in Seq(Resource) /\ Len(rest) = n - 1
    BY <2>1, SwapPopType
  <2>4. \A k \in 1 .. n - 1 : rest[k] = IF k = i THEN list[n] ELSE list[k]
    BY <2>1 DEF SwapPop
  <2> HIDE DEF rest
  <2>5. Once(rest)
    BY <2>1, <2>3, <2>4 DEF Once
  <2>6. ASSUME NEW q \in Resource
        PROVE  Lists(rest, q) <=> q # r /\ Lists(list, q)
    <3>1. ASSUME Lists(rest, q)
          PROVE  q # r /\ Lists(list, q)
      <4>1. PICK k \in 1 .. n - 1 : rest[k] = q
        BY <2>3, <3>1 DEF Lists
      <4>2. PICK m \in 1 .. n : list[m] = q /\ m # i
        BY <2>1, <2>4, <4>1
      <4>3. QED
        BY <2>1, <4>2 DEF Lists, Once
    <3>2. ASSUME q # r, Lists(list, q)
          PROVE  Lists(rest, q)
      <4>1. PICK m \in 1 .. n : list[m] = q /\ m # i
        BY <2>1, <3>2 DEF Lists
      <4>2. PICK k \in 1 .. n - 1 : rest[k] = q
        <5>1. CASE m = n
          BY <2>1, <2>4, <4>1, <5>1
        <5>2. CASE m # n
          BY <2>1, <2>4, <4>1, <5>2
        <5>3. QED
          BY <5>1, <5>2
      <4>3. QED
        BY <2>3, <4>2 DEF Lists
    <3>3. QED
      BY <3>1, <3>2
  <2>7. QED
    BY <2>2, <2>3, <2>5, <2>6
<1>3. QED
  BY <1>1, <1>2

\* odWindowResource_init lists a resource that is not listed.
LEMMA AppendLists ==
    ASSUME NEW list \in Seq(Resource), Once(list), NEW r \in Resource, ~Lists(list, r)
    PROVE  /\ Append(list, r) \in Seq(Resource)
           /\ Once(Append(list, r))
           /\ \A q \in Resource : Lists(Append(list, r), q) <=> q = r \/ Lists(list, q)
<1>1. /\ Append(list, r) \in Seq(Resource)
      /\ Len(Append(list, r)) = Len(list) + 1
      /\ \A k \in 1 .. Len(list) + 1 :
            Append(list, r)[k] = IF k = Len(list) + 1 THEN r ELSE list[k]
  BY AppendElements
<1> DEFINE more == Append(list, r)
           n == Len(list)
<1>2. n \in Nat /\ n + 1 \in 1 .. n + 1
  OBVIOUS
<1>3. Len(more) = n + 1 /\ \A k \in 1 .. n + 1 : more[k] = IF k = n + 1 THEN r ELSE list[k]
  BY <1>1
<1> HIDE DEF more
<1>4. Once(more)
  BY <1>2, <1>3 DEF Once, Lists
<1>5. ASSUME NEW q \in Resource
      PROVE  Lists(more, q) <=> q = r \/ Lists(list, q)
  BY <1>2, <1>3 DEF Lists
<1>6. QED
  BY <1>1, <1>4, <1>5 DEF more

\* A list that has nothing twice has each thing once or not at all.
LEMMA ListedOnce ==
    ASSUME NEW list \in Seq(Resource), Once(list), NEW r
    PROVE  Cardinality({i \in 1 .. Len(list) : list[i] = r}) = IF Lists(list, r) THEN 1 ELSE 0
<1>1. CASE Lists(list, r)
  <2>1. PICK i \in 1 .. Len(list) : list[i] = r
    BY <1>1 DEF Lists
  <2>2. {k \in 1 .. Len(list) : list[k] = r} = {i}
    BY <2>1 DEF Once
  <2>3. QED
    BY <1>1, <2>2, FS_Singleton
<1>2. CASE ~Lists(list, r)
  <2>1. {k \in 1 .. Len(list) : list[k] = r} = {}
    BY <1>2 DEF Lists
  <2>2. QED
    BY <1>2, <2>1, FS_EmptySet
<1>3. QED
  BY <1>1, <1>2
-----------------------------------------------------------------------------
(***************************************************************************)
(* The inductive invariant: the type; who uses SDL; lists and resources    *)
(* agree; the calls under way are calls on resources, a nested bind only   *)
(* at the top; and either the cache is right or every scope under way      *)
(* found the context current that is current now.                          *)
(***************************************************************************)
SdlUsers == {w \in Window : windows[w].sdl}

UsersCounted ==
    \/ users = Cardinality(SdlUsers)
    \/ audio /\ users = Cardinality(SdlUsers) + 1

ListsAgree ==
    \A w \in Window :
        /\ Once(windows[w].resources)
        /\ \A r \in Resource : Lists(windows[w].resources, r) <=> resources[r].window = w

Nested ==
    {call \in Call :
        /\ call.step # "use"
        /\ call.step # "end" => call.resource \in Resource
        /\ call.step = "register" => call.window \in Window}

Using ==
    {call \in Call :
        call.step = "use" /\ call.resource \in Resource
          /\ resources[call.resource].window \in Window}

CallsNested ==
    calls = << >> \/ (Head(calls) \in Nested \cup Using /\ Tail(calls) \in Seq(Nested))

\* The scopes that found the context that is current now.
Faithful == {call \in Call : call.step = "end" => call.scope.old = current.context}

CacheOrScopes == cached = current.context \/ calls \in Seq(Faithful)

Typed ==
    /\ windows \in [Window -> WindowState]
    /\ resources \in [Resource -> ResourceState]
    /\ current \in [native: Native, context: Native]
    /\ cached \in Native
    /\ is_initialized \in BOOLEAN /\ audio \in BOOLEAN
    /\ made \in Native
    /\ calls \in Seq(Call)

IInv == Typed /\ UsersCounted /\ ListsAgree /\ CallsNested /\ CacheOrScopes

\* Calls that end no scope.
Starting == {call \in Nested : call.step # "end"}

\* A native window and a context are numbers, 0 among them.
LEMMA NativeType == 0 \in Native /\ \A n \in Native : n \in Nat
BY DEF Native

\* The calls the operations make are calls on a resource.
LEMMA OfType ==
    ASSUME NEW r \in Resource, NEW step \in Step \ {"use", "end", "register"}, NEW name \in Name
    PROVE  Of(step, r, name) \in Starting
<1>1. NoScope \in Scope
  BY NativeType DEF NoScope, Scope
<1>2. QED
  BY <1>1 DEF Of, Starting, Nested, Call, Step

\* odWindowResource_init is a call on a window too.
LEMMA RegisterType ==
    ASSUME NEW r \in Resource, NEW w \in Window
    PROVE  [Of("register", r, "texture") EXCEPT !.window = w] \in Starting
<1>1. NoScope \in Scope
  BY NativeType DEF NoScope, Scope
<1>2. QED
  BY <1>1 DEF Of, Starting, Nested, Call, Step, Name

\* The end of a scope.
LEMMA EndType ==
    ASSUME Typed, NEW w \in Window
    PROVE  /\ End(w) \in Nested
           /\ End(w).step = "end" /\ End(w).scope.old = current.context
<1>1. [native |-> windows[w].native, old |-> current.context] \in Scope
  BY DEF Typed, WindowState, Scope
<1>2. QED
  BY <1>1 DEF End, Of, Nested, Call, Step, Name, NoScope

\* Making and destroying a resource.
LEMMA MakingType ==
    ASSUME NEW r \in Resource, NEW w \in Window
    PROVE  /\ Freeing(r) = <<Of("destroy", r, IF r \in Renderer THEN "program" ELSE "texture")>>
           /\ Freeing(r) \in Seq(Starting)
           /\ Making(r, w) \in Seq(Starting)
           /\ <<Of("destroy", r, "fbo")>> \in Seq(Starting)
           /\ <<Of("create", r, "fbo")>> \in Seq(Starting)
<1> DEFINE name == IF r \in Renderer THEN "program" ELSE "texture"
<1>1. /\ name \in Name /\ "fbo" \in Name
      /\ {"destroy", "create"} \subseteq Step \ {"use", "end", "register"}
  BY DEF Name, Step
<1> HIDE DEF name
<1>2. /\ Of("destroy", r, name) \in Starting /\ Of("create", r, name) \in Starting
      /\ Of("destroy", r, "fbo") \in Starting /\ Of("create", r, "fbo") \in Starting
  BY <1>1, OfType
<1>3. Freeing(r) = <<Of("destroy", r, name)>> /\ Freeing(r) \in Seq(Starting)
  BY <1>2 DEF Freeing, name
<1>4. <<[Of("register", r, "texture") EXCEPT !.window = w], Of("create", r, name)>>
         \in Seq(Starting)
  BY <1>2, RegisterType
<1>5. Making(r, w) \in Seq(Starting)
  BY <1>3, <1>4, ConcatProperties DEF Making, name
<1>6. QED
  BY <1>2, <1>3, <1>5 DEF name
-----------------------------------------------------------------------------
\* What is left of the calls when the one at the top is done, and what they are
\* with new ones above them.
LEMMA ReturnType ==
    ASSUME Typed, CallsNested, ~Idle
    PROVE  /\ Return \in Seq(Nested)
           /\ Top \in Call /\ Top \in Nested \cup Using
           /\ Top.step # "end" => Top.resource \in Resource
           /\ calls \in Seq(Faithful) => Return \in Seq(Faithful) /\ Top \in Faithful
<1>1. calls # << >> /\ calls \in Seq(Call)
  BY DEF Idle, Typed
<1>2. Return \in Seq(Nested) /\ Top \in Nested \cup Using
  BY <1>1 DEF CallsNested, Return, Top
<1>3. Top \in Call
  BY <1>2 DEF Nested, Using
<1>4. calls \in Seq(Faithful) => Return \in Seq(Faithful) /\ Top \in Faithful
  BY <1>1, HeadTailProperties DEF Return, Top
<1>5. Top.step # "end" => Top.resource \in Resource
  BY <1>2 DEF Nested, Using
<1>6. QED
  BY <1>2, <1>3, <1>4, <1>5

\* A stack of nested calls is a stack of calls.
LEMMA NestedStack ==
    ASSUME NEW stack \in Seq(Nested)
    PROVE  /\ stack \in Seq(Call)
           /\ stack = << >> \/ (Head(stack) \in Nested /\ Tail(stack) \in Seq(Nested))
<1>1. Nested \subseteq Call
  BY DEF Nested
<1>2. stack \in Seq(Call)
  BY <1>1
<1>3. stack # << >> => Head(stack) \in Nested /\ Tail(stack) \in Seq(Nested)
  BY HeadTailProperties
<1>4. QED
  BY <1>2, <1>3

\* Calls that end no scope are nested calls, and faithful ones.
LEMMA StartingStack ==
    ASSUME NEW stack \in Seq(Starting)
    PROVE  stack \in Seq(Nested) /\ stack \in Seq(Faithful) /\ stack \in Seq(Faithful')
<1>1. Starting \subseteq Nested /\ Starting \subseteq Faithful /\ Starting \subseteq Faithful'
  BY DEF Starting, Nested, Faithful
<1>2. QED
  BY <1>1

\* A stack of nested calls is one the invariant allows.
LEMMA StackKeeps ==
    ASSUME calls' \in Seq(Nested)
    PROVE  calls' \in Seq(Call) /\ CallsNested'
BY NestedStack DEF CallsNested

\* odWindow_set_context_impl makes the cache right, or nothing.
LEMMA BindKeeps ==
    ASSUME Typed, NEW w \in Window, Bind(w)
    PROVE  /\ current' \in [native: Native, context: Native] /\ cached' \in Native
           /\ cached' = current'.context \/ UNCHANGED <<current, cached>>
<1>1. windows[w].native \in Native /\ windows[w].context \in Native
  BY DEF Typed, WindowState
<1>2. QED
  BY <1>1 DEF Typed, Bind, SetContext

\* A step that changes neither windows nor resources.
LEMMA CallKeeps ==
    ASSUME IInv, UNCHANGED ResourceCalls,
           current' \in [native: Native, context: Native], cached' \in Native,
           calls' \in Seq(Call), CallsNested', CacheOrScopes'
    PROVE  IInv'
<1>1. Typed' /\ ListsAgree'
  BY DEF IInv, Typed, ListsAgree, ResourceCalls
<1>2. UsersCounted'
  BY DEF IInv, UsersCounted, SdlUsers, ResourceCalls
<1>3. QED
  BY <1>1, <1>2 DEF IInv

\* A scope that is bound in a stack whose other calls end none or are under way.
LEMMA BoundStack ==
    ASSUME IInv, NEW w \in Window, Bind(w), UNCHANGED ResourceCalls,
           NEW above \in Seq(Starting), NEW below \in Seq(Nested),
           calls \in Seq(Faithful) => below \in Seq(Faithful),
           calls' = above \o <<End(w)>> \o below
    PROVE  IInv'
<1>1. /\ current' \in [native: Native, context: Native] /\ cached' \in Native
      /\ cached' = current'.context \/ UNCHANGED <<current, cached>>
  BY BindKeeps DEF IInv
<1>2. End(w) \in Nested /\ End(w) \in Faithful
  BY EndType DEF IInv, Faithful, Nested
<1>3. above \in Seq(Nested) /\ above \in Seq(Faithful)
  BY StartingStack
<1>4. <<End(w)>> \in Seq(Nested) /\ <<End(w)>> \in Seq(Faithful)
  BY <1>2
<1>5. calls' \in Seq(Nested)
  BY <1>3, <1>4, ConcatProperties
<1>6. CacheOrScopes'
  <2>1. CASE cached' = current'.context
    BY <2>1 DEF CacheOrScopes
  <2>2. CASE UNCHANGED <<current, cached>> /\ cached # current.context
    <3>1. below \in Seq(Faithful)
      BY <2>2 DEF IInv, CacheOrScopes
    <3>2. calls' \in Seq(Faithful)
      BY <1>3, <1>4, <3>1, ConcatProperties
    <3>3. Faithful' = Faithful
      BY <2>2 DEF Faithful
    <3>4. QED
      BY <3>2, <3>3 DEF CacheOrScopes
  <2>3. QED
    BY <1>1, <2>1, <2>2
<1>7. QED
  BY <1>1, <1>5, <1>6, StackKeeps, CallKeeps
-----------------------------------------------------------------------------
(***************************************************************************)
(* The actions on windows: no call is under way, and none is after.        *)
(***************************************************************************)
LEMMA IdleKeeps ==
    ASSUME Idle, calls' = calls
    PROVE  calls' \in Seq(Call) /\ CallsNested' /\ CacheOrScopes'
<1>1. calls' = << >>
  BY DEF Idle
<1>2. QED
  BY <1>1 DEF CallsNested, CacheOrScopes

\* What odWindow_destroy leaves of the users, the resources and the current context.
LEMMA WithoutWindow ==
    ASSUME IInv, NEW w \in Window
    PROVE  /\ IsFiniteSet(SdlUsers) /\ IsFiniteSet(SdlUsers \ {w})
           /\ Cardinality(SdlUsers \ {w}) \in Nat
           /\ \/ UsersWithout(w) = Cardinality(SdlUsers \ {w})
              \/ audio /\ UsersWithout(w) = Cardinality(SdlUsers \ {w}) + 1
           /\ Told(w) \in [Resource -> ResourceState]
           /\ \A r \in Resource :
                 Told(w)[r].window =
                    IF resources[r].window = w THEN nil ELSE resources[r].window
           /\ CurrentWithout(w) \in [native: Native, context: Native]
<1>1. IsFiniteSet(SdlUsers)
  BY FS_Subset DEF SdlUsers
<1>2. /\ IsFiniteSet(SdlUsers \ {w})
      /\ Cardinality(SdlUsers \ {w})
           = IF w \in SdlUsers THEN Cardinality(SdlUsers) - 1 ELSE Cardinality(SdlUsers)
  BY <1>1, FS_RemoveElement
<1>3. Cardinality(SdlUsers) \in Nat /\ Cardinality(SdlUsers \ {w}) \in Nat
  BY <1>1, <1>2, FS_CardinalityType
<1>4. w \in SdlUsers <=> windows[w].sdl
  BY DEF SdlUsers
<1>5. \/ UsersWithout(w) = Cardinality(SdlUsers \ {w})
      \/ audio /\ UsersWithout(w) = Cardinality(SdlUsers \ {w}) + 1
  BY <1>2, <1>3, <1>4 DEF IInv, UsersCounted, UsersWithout
<1>6. ASSUME NEW r \in Resource
      PROVE  /\ Told(w)[r] \in ResourceState
             /\ Told(w)[r].window = IF resources[r].window = w THEN nil ELSE resources[r].window
  <2>1. Told(w)[r] = IF Lists(windows[w].resources, r) THEN [resources[r] EXCEPT !.window = nil]
                     ELSE resources[r]
    BY DEF Told, Lists
  <2>2. Lists(windows[w].resources, r) <=> resources[r].window = w
    BY DEF IInv, ListsAgree
  <2>3. resources[r] \in ResourceState
    BY DEF IInv, Typed
  <2>4. QED
    BY <2>1, <2>2, <2>3 DEF ResourceState
<1>7. Told(w) \in [Resource -> ResourceState]
  BY <1>6 DEF Told
<1>8. CurrentWithout(w) \in [native: Native, context: Native]
  BY NativeType DEF IInv, Typed, CurrentWithout
<1>9. QED
  BY <1>1, <1>2, <1>3, <1>5, <1>6, <1>7, <1>8

\* A window whose list is emptied and whose resources were told.
LEMMA EmptiedKeeps ==
    ASSUME IInv, NEW w \in Window, NEW state \in WindowState, state.resources = << >>,
           windows' = [windows EXCEPT ![w] = state], resources' = Told(w)
    PROVE  /\ windows' \in [Window -> WindowState] /\ resources' \in [Resource -> ResourceState]
           /\ ListsAgree'
           /\ SdlUsers' = IF state.sdl THEN (SdlUsers \ {w}) \cup {w} ELSE SdlUsers \ {w}
<1>1. windows \in [Window -> WindowState]
  BY DEF IInv, Typed
<1>2. windows' \in [Window -> WindowState]
  BY <1>1
<1>3. \A v \in Window : windows'[v] = IF v = w THEN state ELSE windows[v]
  BY <1>1
<1>4. ASSUME NEW v \in Window
      PROVE  /\ Once(windows'[v].resources)
             /\ \A r \in Resource : Lists(windows'[v].resources, r) <=> resources'[r].window = v
  <2>1. \A r \in Resource :
          resources'[r].window = IF resources[r].window = w THEN nil ELSE resources[r].window
    BY WithoutWindow
  <2>2. CASE v = w
    <3>1. windows'[v].resources = << >>
      BY <1>3, <2>2
    <3>2. Once(<< >>) /\ \A r \in Resource : ~Lists(<< >>, r)
      BY DEF Once, Lists
    <3>3. QED
      BY <2>1, <2>2, <3>1, <3>2
  <2>3. CASE v # w
    <3>1. windows'[v] = windows[v]
      BY <1>3, <2>3
    <3>2. QED
      BY <2>1, <2>3, <3>1 DEF IInv, ListsAgree
  <2>4. QED
    BY <2>2, <2>3
<1>5. SdlUsers' = IF state.sdl THEN (SdlUsers \ {w}) \cup {w} ELSE SdlUsers \ {w}
  <2>1. \A v : v \in SdlUsers' <=> v \in Window /\ windows'[v].sdl
    BY DEF SdlUsers
  <2>2. \A v : v \in SdlUsers <=> v \in Window /\ windows[v].sdl
    BY DEF SdlUsers
  <2>3. CASE state.sdl
    BY <1>3, <2>1, <2>2, <2>3
  <2>4. CASE ~state.sdl
    BY <1>3, <2>1, <2>2, <2>4
  <2>5. QED
    BY <2>3, <2>4
<1>6. resources' \in [Resource -> ResourceState]
  BY WithoutWindow
<1>7. QED
  BY <1>2, <1>4, <1>5, <1>6 DEF ListsAgree

\* Destroying a window tells its resources.
LEMMA DestroyKeeps ==
    ASSUME IInv, NEW w \in Window, Destroy(w)
    PROVE  IInv'
<1>1. Closed \in WindowState /\ Closed.resources = << >> /\ ~Closed.sdl
  <2>1. << >> \in Seq(Resource)
    OBVIOUS
  <2>2. QED
    BY <2>1, NativeType DEF Closed, WindowState
<1>2. /\ windows' = [windows EXCEPT ![w] = Closed]
      /\ resources' = Told(w) /\ users' = UsersWithout(w)
      /\ current' = CurrentWithout(w)
      /\ UNCHANGED <<cached, is_initialized, audio, made, calls>> /\ Idle
  BY DEF Destroy
<1>3. /\ windows' \in [Window -> WindowState] /\ resources' \in [Resource -> ResourceState]
      /\ ListsAgree' /\ SdlUsers' = SdlUsers \ {w}
  BY <1>1, <1>2, EmptiedKeeps
<1>4. Typed'
  BY <1>2, <1>3, WithoutWindow, IdleKeeps DEF IInv, Typed
<1>5. UsersCounted'
  BY <1>2, <1>3, WithoutWindow DEF UsersCounted
<1>6. QED
  BY <1>2, <1>3, <1>4, <1>5, IdleKeeps DEF IInv

\* Making a window: its predecessor is destroyed first.
LEMMA InitWindowKeeps ==
    ASSUME IInv, NEW w \in Window, InitWindow(w)
    PROVE  IInv'
<1> DEFINE n == made + 1
<1>1. PICK done \in 0 .. 4 :
        /\ Idle
        /\ done >= 2 => n <= MaxNatives
        /\ windows' = [windows EXCEPT ![w] =
                [native |-> IF done >= 2 THEN n ELSE 0,
                 context |-> IF done >= 3 THEN n ELSE 0,
                 open |-> done = 4,
                 sdl |-> done >= 1,
                 resources |-> << >>]]
        /\ resources' = Told(w)
        /\ users' = IF done >= 1 THEN UsersWithout(w) + 1 ELSE UsersWithout(w)
        /\ made' = IF done >= 2 THEN n ELSE made
        /\ current' = IF done >= 3 THEN [native |-> n, context |-> n] ELSE CurrentWithout(w)
        /\ cached' = IF done >= 3 THEN n ELSE cached
        /\ is_initialized' = (is_initialized \/ done = 4)
        /\ UNCHANGED <<audio, calls>>
  BY DEF InitWindow
<1> DEFINE state == [native |-> IF done >= 2 THEN n ELSE 0,
                     context |-> IF done >= 3 THEN n ELSE 0,
                     open |-> done = 4,
                     sdl |-> done >= 1,
                     resources |-> << >>]
<1>2. done >= 2 => n \in Native
  BY <1>1 DEF IInv, Typed, Native
<1>3. state \in WindowState /\ state.resources = << >> /\ state.sdl = (done >= 1)
  <2>1. << >> \in Seq(Resource) /\ (done = 4) \in BOOLEAN /\ (done >= 1) \in BOOLEAN
    OBVIOUS
  <2>2. /\ (IF done >= 2 THEN n ELSE 0) \in Native
        /\ (IF done >= 3 THEN n ELSE 0) \in Native
    BY <1>2, NativeType
  <2>3. QED
    BY <2>1, <2>2 DEF WindowState
<1>4. windows' = [windows EXCEPT ![w] = state]
  BY <1>1
<1> HIDE DEF state
<1>5. /\ windows' \in [Window -> WindowState] /\ resources' \in [Resource -> ResourceState]
      /\ ListsAgree'
      /\ SdlUsers' = IF done >= 1 THEN (SdlUsers \ {w}) \cup {w} ELSE SdlUsers \ {w}
  BY <1>1, <1>3, <1>4, EmptiedKeeps
<1>6. Typed'
  <2>1. /\ made' \in Native /\ cached' \in Native
        /\ is_initialized' \in BOOLEAN /\ audio' \in BOOLEAN
    BY <1>1, <1>2 DEF IInv, Typed
  <2>2. current' \in [native: Native, context: Native]
    <3>1. CASE done >= 3
      BY <1>1, <1>2, <3>1
    <3>2. CASE ~(done >= 3)
      BY <1>1, <3>2, WithoutWindow
    <3>3. QED
      BY <3>1, <3>2
  <2>3. calls' \in Seq(Call)
    BY <1>1, IdleKeeps
  <2>4. QED
    BY <1>5, <2>1, <2>2, <2>3 DEF Typed
<1>7. UsersCounted'
  <2>1. CASE done >= 1
    <3>1. Cardinality(SdlUsers') = Cardinality(SdlUsers \ {w}) + 1
      <4>1. w \notin SdlUsers \ {w}
        OBVIOUS
      <4>2. QED
        BY <1>5, <2>1, <4>1, WithoutWindow, FS_AddElement
    <3>2. users' = UsersWithout(w) + 1 /\ audio' = audio
      BY <1>1, <2>1
    <3>3. QED
      BY <3>1, <3>2, WithoutWindow DEF UsersCounted
  <2>2. CASE ~(done >= 1)
    BY <1>1, <1>5, <2>2, WithoutWindow DEF UsersCounted
  <2>3. QED
    BY <2>1, <2>2
<1>8. QED
  BY <1>1, <1>5, <1>6, <1>7, IdleKeeps DEF IInv

\* A step of a window may close it.
LEMMA StepWindowKeeps ==
    ASSUME IInv, NEW w \in Window, StepWindow(w)
    PROVE  IInv'
<1>1. windows[w].native \in Native /\ windows[w].context \in Native
  BY DEF IInv, Typed, WindowState
<1>2. /\ current' \in [native: Native, context: Native] /\ cached' \in Native
      /\ Idle /\ calls' = calls /\ UNCHANGED ResourceCalls
  BY <1>1 DEF StepWindow, ResourceCalls, IInv, Typed
<1>3. QED
  BY <1>2, IdleKeeps, CallKeeps

\* Audio adds a user of the initialization of SDL.
LEMMA StartAudioKeeps ==
    ASSUME IInv, StartAudio
    PROVE  IInv'
<1>1. /\ Idle /\ calls' = calls /\ audio' = TRUE /\ ~audio
      /\ users' = users + 1 \/ (users = 0 /\ users' = 0)
      /\ UNCHANGED <<windows, resources, current, cached, is_initialized, made>>
  BY DEF StartAudio
<1>2. Typed'
  BY <1>1, IdleKeeps DEF IInv, Typed
<1>3. ListsAgree' /\ SdlUsers' = SdlUsers
  BY <1>1 DEF IInv, ListsAgree, SdlUsers
<1>4. UsersCounted'
  BY <1>1, <1>3 DEF IInv, UsersCounted
<1>5. QED
  BY <1>1, <1>2, <1>3, <1>4, IdleKeeps DEF IInv
-----------------------------------------------------------------------------
(***************************************************************************)
(* The calls on resources.                                                 *)
(***************************************************************************)
\* A call returns, or the init it belongs to is given up.
LEMMA ReturnKeeps ==
    ASSUME IInv, ~Idle, calls' = Return \/ calls' = << >>, UNCHANGED <<current, cached>>
    PROVE  calls' \in Seq(Call) /\ CallsNested' /\ CacheOrScopes'
<1>1. calls' \in Seq(Nested) /\ (calls \in Seq(Faithful) => calls' \in Seq(Faithful))
  <2>1. CASE calls' = Return
    BY <2>1, ReturnType DEF IInv
  <2>2. CASE calls' = << >>
    BY <2>2
  <2>3. QED
    BY <2>1, <2>2
<1>2. Faithful' = Faithful
  BY DEF Faithful
<1>3. QED
  BY <1>1, <1>2, StackKeeps DEF IInv, CacheOrScopes

\* Starting a call on resources changes the calls alone.
LEMMA BeginKeeps ==
    ASSUME IInv, Idle, calls' \in Seq(Starting), UNCHANGED <<current, cached, ResourceCalls>>
    PROVE  IInv'
<1>1. calls' \in Seq(Nested) /\ calls' \in Seq(Faithful')
  BY StartingStack
<1>2. current' \in [native: Native, context: Native] /\ cached' \in Native
  BY DEF IInv, Typed
<1>3. QED
  BY <1>1, <1>2, StackKeeps, CallKeeps DEF CacheOrScopes

\* The destruction of a resource starts.
LEMMA DestroyResourceKeeps ==
    ASSUME IInv, NEW r \in Resource, DestroyResource(r)
    PROVE  IInv'
<1>1. "destroy" \in Step \ {"use", "end", "register"} /\ "fbo" \in Name /\ "texture" \in Name
      /\ "program" \in Name
  BY DEF Step, Name
<1>2. Freeing(r) \in Seq(Starting) /\ <<Of("destroy", r, "fbo")>> \in Seq(Starting)
  BY <1>1, OfType DEF Freeing
<1>3. calls' \in Seq(Starting) /\ Idle /\ UNCHANGED <<current, cached, ResourceCalls>>
  BY <1>2 DEF DestroyResource
<1>4. QED
  BY <1>3, BeginKeeps

\* The initialization of a resource starts.
LEMMA InitResourceKeeps ==
    ASSUME IInv, NEW r \in Resource, NEW w \in Window, InitResource(r, w)
    PROVE  IInv'
<1>1. /\ Making(r, w) \in Seq(Starting)
      /\ <<Of("destroy", r, "fbo")>> \in Seq(Starting)
      /\ <<Of("create", r, "fbo")>> \in Seq(Starting)
  BY MakingType
<1>2. <<Of("destroy", r, "fbo")>> \o Making(r, w) \o <<Of("create", r, "fbo")>>
         \in Seq(Starting)
  BY <1>1, ConcatProperties
<1>3. calls' \in Seq(Starting) /\ Idle /\ UNCHANGED <<current, cached, ResourceCalls>>
  BY <1>1, <1>2 DEF InitResource
<1>4. QED
  BY <1>3, BeginKeeps

\* A call that is not the end of a scope is one on a resource.
LEMMA TopOfStep ==
    ASSUME IInv, NEW step \in Step \ {"end"}, At(step)
    PROVE  /\ ~Idle /\ Top.step = step
           /\ Top.resource \in Resource /\ Top.name \in Name
           /\ Return \in Seq(Nested)
           /\ calls \in Seq(Faithful) => Return \in Seq(Faithful)
           /\ resources[Top.resource] \in ResourceState
           /\ step = "register" => Top.window \in Window
           /\ step = "use" => resources[Top.resource].window \in Window
<1>1. ~Idle /\ Top.step = step
  BY DEF At
<1>2. /\ Top \in Nested \cup Using /\ Top \in Call /\ Top.resource \in Resource
      /\ Return \in Seq(Nested)
      /\ calls \in Seq(Faithful) => Return \in Seq(Faithful)
  BY <1>1, ReturnType DEF IInv
<1>3. Top.name \in Name
  BY <1>2 DEF Call
<1>4. /\ step = "register" => Top.window \in Window
      /\ step = "use" => resources[Top.resource].window \in Window
  BY <1>1, <1>2 DEF Nested, Using
<1>5. resources[Top.resource] \in ResourceState
  BY <1>2 DEF IInv, Typed
<1>6. QED
  BY <1>1, <1>2, <1>3, <1>4, <1>5

\* The first step of a destruction binds the context of the window, if any.
LEMMA TryBindKeeps ==
    ASSUME IInv, TryBind
    PROVE  IInv'
<1> DEFINE r == Top.resource
           w == resources[r].window
           first == Of("delete", r, Top.name)
           second == IF Top.name = "fbo" THEN Freeing(r)[1] ELSE Of("unregister", r, Top.name)
           rest == <<first, second>>
<1>1. At("destroy") /\ "destroy" \in Step \ {"end"}
  BY DEF TryBind, Step
<1>2. /\ ~Idle /\ r \in Resource /\ Top.name \in Name /\ Return \in Seq(Nested)
      /\ calls \in Seq(Faithful) => Return \in Seq(Faithful)
      /\ resources[r] \in ResourceState
  BY <1>1, TopOfStep
<1>3. rest \in Seq(Starting)
  <2>1. {"destroy", "delete", "unregister"} \subseteq Step \ {"use", "end", "register"}
        /\ "texture" \in Name /\ "program" \in Name
    BY DEF Step, Name
  <2>2. first \in Starting /\ Of("unregister", r, Top.name) \in Starting
    BY <1>2, <2>1, OfType
  <2>3. Freeing(r)[1] \in Starting
    BY <1>2, <2>1, OfType DEF Freeing
  <2>4. second \in Starting
    BY <2>2, <2>3
  <2> HIDE DEF first, second
  <2>5. QED
    BY <2>2, <2>4
<1>4. CASE HasContext(w)
  <2>1. w \in Window
    BY <1>2, <1>4 DEF HasContext, ResourceState
  <2>2. Bind(w) /\ calls' = rest \o <<End(w)>> \o Return /\ UNCHANGED ResourceCalls
    BY <1>4 DEF TryBind
  <2> HIDE DEF w, rest
  <2>3. QED
    BY <1>2, <1>3, <2>1, <2>2, BoundStack
<1>5. CASE ~HasContext(w)
  <2>1. calls' = rest \o Return /\ UNCHANGED <<current, cached>> /\ UNCHANGED ResourceCalls
    BY <1>5 DEF TryBind
  <2> HIDE DEF w, rest
  <2>2. rest \in Seq(Nested) /\ rest \in Seq(Faithful)
    BY <1>3, StartingStack
  <2>3. calls' \in Seq(Nested) /\ (calls \in Seq(Faithful) => calls' \in Seq(Faithful))
    BY <1>2, <2>1, <2>2, ConcatProperties
  <2>4. Faithful' = Faithful
    BY <2>1 DEF Faithful
  <2>5. CacheOrScopes' /\ cached' \in Native /\ current' \in [native: Native, context: Native]
    BY <2>1, <2>3, <2>4 DEF IInv, Typed, CacheOrScopes
  <2>6. QED
    BY <2>1, <2>3, <2>5, StackKeeps, CallKeeps
<1>6. QED
  BY <1>4, <1>5

\* Steps that only change the names of a resource.
LEMMA NamesKeep ==
    ASSUME IInv, NEW r \in Resource, NEW names \in SUBSET Name,
           resources' = [resources EXCEPT ![r].names = names],
           ~Idle, calls' = Return,
           UNCHANGED <<windows, current, users, cached, is_initialized, audio, made>>
    PROVE  IInv'
<1>1. /\ resources' \in [Resource -> ResourceState]
      /\ \A q \in Resource : resources'[q].window = resources[q].window
  BY DEF IInv, Typed, ResourceState
<1>2. Typed' /\ CallsNested' /\ CacheOrScopes'
  BY <1>1, ReturnKeeps DEF IInv, Typed
<1>3. ListsAgree' /\ UsersCounted'
  BY <1>1 DEF IInv, ListsAgree, UsersCounted, SdlUsers
<1>4. QED
  BY <1>2, <1>3 DEF IInv

\* The names of a resource are deleted in the bound context.
LEMMA DeleteKeeps ==
    ASSUME IInv, Delete
    PROVE  IInv'
<1>1. At("delete") /\ "delete" \in Step \ {"end"}
  BY DEF Delete, Step
<1>2. ~Idle /\ Top.resource \in Resource /\ resources[Top.resource] \in ResourceState
  BY <1>1, TopOfStep
<1>3. resources[Top.resource].names \ {Top.name} \in SUBSET Name
  BY <1>2 DEF ResourceState
<1>4. resources' = [resources EXCEPT ![Top.resource].names =
                         resources[Top.resource].names \ {Top.name}]
  BY DEF Delete
<1>5. QED
  BY <1>2, <1>3, <1>4, NamesKeep DEF Delete

\* A resource gets a new name from the bound context.
LEMMA GenerateKeeps ==
    ASSUME IInv, Generate
    PROVE  IInv'
<1>1. At("generate") /\ "generate" \in Step \ {"end"}
  BY DEF Generate, Step
<1>2. ~Idle /\ Top.resource \in Resource /\ Top.name \in Name
      /\ resources[Top.resource] \in ResourceState
  BY <1>1, TopOfStep
<1>3. resources[Top.resource].names \cup {Top.name} \in SUBSET Name
  BY <1>2 DEF ResourceState
<1>4. resources' = [resources EXCEPT ![Top.resource].names =
                         resources[Top.resource].names \cup {Top.name}]
  BY DEF Generate
<1>5. QED
  BY <1>2, <1>3, <1>4, NamesKeep DEF Generate

\* odWindowResource_destroy, whether or not the resource is listed.
LEMMA UnregisteredKeeps ==
    ASSUME IInv, NEW r \in Resource
    PROVE  /\ Unregistered(windows, r) \in [Window -> WindowState]
           /\ \A w \in Window :
                 /\ Unregistered(windows, r)[w].sdl = windows[w].sdl
                 /\ Once(Unregistered(windows, r)[w].resources)
                 /\ \A q \in Resource : Lists(Unregistered(windows, r)[w].resources, q)
                                           <=> q # r /\ resources[q].window = w
<1> DEFINE after == Unregistered(windows, r)
           old == resources[r].window
<1>1. windows \in [Window -> WindowState] /\ old \in Window \cup {nil}
  BY DEF IInv, Typed, ResourceState
<1>2. \A w \in Window :
        /\ windows[w].resources \in Seq(Resource) /\ Once(windows[w].resources)
        /\ \A q \in Resource : Lists(windows[w].resources, q) <=> resources[q].window = w
  BY <1>1 DEF IInv, ListsAgree, WindowState
<1>3. CASE old = nil
  <2>1. after = windows
    BY <1>3 DEF Unregistered
  <2>2. QED
    BY <1>1, <1>2, <1>3, <2>1
<1>4. CASE old # nil
  <2>1. old \in Window
    BY <1>1, <1>4
  <2> DEFINE list == Unlisted(windows[old].resources, r)
  <2>2. after = [windows EXCEPT ![old].resources = list]
    BY <1>4 DEF Unregistered
  <2>3. /\ list \in Seq(Resource) /\ Once(list)
        /\ \A q \in Resource : Lists(list, q) <=> q # r /\ Lists(windows[old].resources, q)
    <3> DEFINE was == windows[old].resources
    <3>1. was \in Seq(Resource) /\ Once(was)
      BY <1>2, <2>1
    <3> HIDE DEF was
    <3>2. /\ Unlisted(was, r) \in Seq(Resource) /\ Once(Unlisted(was, r))
          /\ \A q \in Resource : Lists(Unlisted(was, r), q) <=> q # r /\ Lists(was, q)
      BY <3>1, UnlistedKeeps
    <3>3. QED
      BY <3>2 DEF was
  <2> HIDE DEF list
  <2>4. after \in [Window -> WindowState]
    BY <1>1, <2>1, <2>2, <2>3, ZenonT(60) DEF WindowState
  <2>5. ASSUME NEW w \in Window
        PROVE  /\ after[w].sdl = windows[w].sdl
               /\ Once(after[w].resources)
               /\ \A q \in Resource : Lists(after[w].resources, q)
                                         <=> q # r /\ resources[q].window = w
    <3>1. CASE w = old
      <4>1. after[w].sdl = windows[w].sdl /\ after[w].resources = list
        BY <1>1, <2>1, <2>2, <3>1 DEF WindowState
      <4>2. QED
        BY <1>2, <2>3, <3>1, <4>1
    <3>2. CASE w # old
      <4>1. after[w] = windows[w]
        BY <1>1, <2>1, <2>2, <3>2
      <4>2. resources[r].window # w
        BY <3>2
      <4>3. QED
        BY <1>2, <4>1, <4>2
    <3>3. QED
      BY <3>1, <3>2
  <2>6. QED
    BY <2>4, <2>5
<1>5. QED
  BY <1>3, <1>4

\* A resource leaves the list of its window.
LEMMA UnregisterKeeps ==
    ASSUME IInv, Unregister
    PROVE  IInv'
<1> DEFINE r == Top.resource
<1>1. At("unregister") /\ "unregister" \in Step \ {"end"}
  BY DEF Unregister, Step
<1>2. ~Idle /\ r \in Resource
  BY <1>1, TopOfStep
<1>3. /\ windows' = Unregistered(windows, r) /\ calls' = Return
      /\ resources' = [resources EXCEPT ![r].window = nil]
      /\ UNCHANGED <<current, users, cached, is_initialized, audio, made>>
  BY DEF Unregister
<1> HIDE DEF r
<1>4. /\ resources' \in [Resource -> ResourceState]
      /\ \A q \in Resource :
            resources'[q].window = IF q = r THEN nil ELSE resources[q].window
  BY <1>2, <1>3 DEF IInv, Typed, ResourceState
<1>5. /\ windows' \in [Window -> WindowState]
      /\ \A w \in Window :
            /\ windows'[w].sdl = windows[w].sdl /\ Once(windows'[w].resources)
            /\ \A q \in Resource : Lists(windows'[w].resources, q)
                                      <=> q # r /\ resources[q].window = w
  BY <1>2, <1>3, UnregisteredKeeps
<1>6. Typed' /\ CallsNested' /\ CacheOrScopes'
  BY <1>2, <1>3, <1>4, <1>5, ReturnKeeps DEF IInv, Typed
<1>7. ListsAgree'
  BY <1>4, <1>5 DEF ListsAgree
<1>8. UsersCounted'
  <2>1. SdlUsers' = SdlUsers
    BY <1>5 DEF SdlUsers
  <2>2. QED
    BY <1>3, <2>1 DEF IInv, UsersCounted
<1>9. QED
  BY <1>6, <1>7, <1>8 DEF IInv

\* A resource enters the list of its window.
LEMMA RegisterKeeps ==
    ASSUME IInv, Register
    PROVE  IInv'
<1> DEFINE r == Top.resource
           w == Top.window
           before == Unregistered(windows, r)
<1>1. At("register") /\ "register" \in Step \ {"end"}
  BY DEF Register, Step
<1>2. ~Idle /\ r \in Resource /\ w \in Window
  BY <1>1, TopOfStep
<1>3. UNCHANGED <<current, users, cached, is_initialized, audio, made>>
  BY DEF Register
<1>4. CASE windows[w].native = 0
  <2>1. calls' = << >> /\ UNCHANGED <<windows, resources>>
    BY <1>4 DEF Register
  <2>2. Typed' /\ CallsNested' /\ CacheOrScopes'
    BY <1>2, <1>3, <2>1, ReturnKeeps DEF IInv, Typed
  <2>3. ListsAgree' /\ UsersCounted'
    BY <1>3, <2>1 DEF IInv, ListsAgree, UsersCounted, SdlUsers
  <2>4. QED
    BY <2>2, <2>3 DEF IInv
<1>5. CASE windows[w].native # 0
  <2>1. /\ windows' = [before EXCEPT ![w].resources = Append(@, r)]
        /\ resources' = [resources EXCEPT ![r].window = w]
        /\ calls' = Return
    BY <1>5 DEF Register
  <2>2. /\ before \in [Window -> WindowState]
        /\ \A v \in Window :
              /\ before[v].sdl = windows[v].sdl /\ Once(before[v].resources)
              /\ \A q \in Resource : Lists(before[v].resources, q)
                                        <=> q # r /\ resources[q].window = v
    BY <1>2, UnregisteredKeeps
  <2> HIDE DEF r, w, before
  <2>3. /\ resources' \in [Resource -> ResourceState]
        /\ \A q \in Resource :
              resources'[q].window = IF q = r THEN w ELSE resources[q].window
    BY <1>2, <2>1 DEF IInv, Typed, ResourceState
  <2> DEFINE list == Append(before[w].resources, r)
  <2>4. /\ list \in Seq(Resource) /\ Once(list)
        /\ \A q \in Resource : Lists(list, q) <=> q = r \/ Lists(before[w].resources, q)
    <3>1. before[w].resources \in Seq(Resource) /\ ~Lists(before[w].resources, r)
      BY <1>2, <2>2 DEF WindowState
    <3>2. QED
      BY <1>2, <2>2, <3>1, AppendLists
  <2>5. windows' = [before EXCEPT ![w].resources = list]
    BY <2>1
  <2> HIDE DEF list
  <2>6. /\ windows' \in [Window -> WindowState]
        /\ \A v \in Window :
              /\ windows'[v].sdl = windows[v].sdl
              /\ windows'[v].resources = IF v = w THEN list ELSE before[v].resources
    <3> DEFINE state == [before[w] EXCEPT !.resources = list]
    <3>1. before[w] \in WindowState
      BY <1>2, <2>2
    <3>2. state \in WindowState /\ state.sdl = before[w].sdl /\ state.resources = list
      BY <2>4, <3>1 DEF WindowState
    <3>3. windows' = [before EXCEPT ![w] = state]
      BY <2>5
    <3> HIDE DEF state
    <3>4. windows' \in [Window -> WindowState]
          /\ \A v \in Window : windows'[v] = IF v = w THEN state ELSE before[v]
      BY <1>2, <2>2, <3>2, <3>3
    <3>5. QED
      BY <2>2, <3>2, <3>4
  <2>7. Typed' /\ CallsNested' /\ CacheOrScopes'
    BY <1>2, <1>3, <2>1, <2>3, <2>6, ReturnKeeps DEF IInv, Typed
  <2>8. ListsAgree'
    <3>1. ASSUME NEW v \in Window
          PROVE  /\ Once(windows'[v].resources)
                 /\ \A q \in Resource : Lists(windows'[v].resources, q)
                                           <=> resources'[q].window = v
      <4>1. CASE v = w
        BY <2>2, <2>3, <2>4, <2>6, <4>1
      <4>2. CASE v # w
        BY <2>2, <2>3, <2>6, <4>2
      <4>3. QED
        BY <4>1, <4>2
    <3>2. QED
      BY <3>1 DEF ListsAgree
  <2>9. UsersCounted'
    <3>1. SdlUsers' = SdlUsers
      BY <2>6 DEF SdlUsers
    <3>2. QED
      BY <1>3, <3>1 DEF IInv, UsersCounted
  <2>10. QED
    BY <2>7, <2>8, <2>9 DEF IInv
<1>6. QED
  BY <1>4, <1>5

\* The first step of a creation binds the context of the window.
LEMMA BindToCreateKeeps ==
    ASSUME IInv, BindToCreate
    PROVE  IInv'
<1> DEFINE r == Top.resource
           w == resources[r].window
           above == <<Of("generate", r, Top.name)>>
<1>1. /\ At("create") /\ "create" \in Step \ {"end"}
      /\ "generate" \in Step \ {"use", "end", "register"}
  BY DEF BindToCreate, Step
<1>2. /\ ~Idle /\ r \in Resource /\ Top.name \in Name /\ Return \in Seq(Nested)
      /\ calls \in Seq(Faithful) => Return \in Seq(Faithful)
      /\ resources[r] \in ResourceState
  BY <1>1, TopOfStep
<1>3. CASE HasContext(w)
  <2>1. w \in Window
    BY <1>2, <1>3 DEF HasContext, ResourceState
  <2>2. /\ Bind(w) /\ UNCHANGED ResourceCalls
        /\ calls' = <<Of("generate", r, Top.name), End(w)>> \o Return
    BY <1>3 DEF BindToCreate
  <2>3. Of("generate", r, Top.name) \in Starting /\ above \in Seq(Starting)
    BY <1>1, <1>2, OfType
  <2>4. End(w) \in Call /\ Of("generate", r, Top.name) \in Call
    BY <2>1, <2>3, EndType DEF IInv, Nested, Starting
  <2>5. <<Of("generate", r, Top.name), End(w)>> = above \o <<End(w)>>
    BY <2>4, PairConcat
  <2>6. calls' = above \o <<End(w)>> \o Return
    BY <2>2, <2>5
  <2> HIDE DEF w, above
  <2>7. QED
    BY <1>2, <2>1, <2>2, <2>3, <2>6, BoundStack
<1>4. CASE ~HasContext(w)
  <2>1. calls' = << >> /\ UNCHANGED <<current, cached>> /\ UNCHANGED ResourceCalls
    BY <1>4 DEF BindToCreate
  <2>2. cached' \in Native /\ current' \in [native: Native, context: Native]
    BY <2>1 DEF IInv, Typed
  <2>3. QED
    BY <1>2, <2>1, <2>2, ReturnKeeps, CallKeeps
<1>5. QED
  BY <1>3, <1>4

\* A scope is opened for a renderer that is ready, in a stack of three.
LEMMA DrawKeeps ==
    ASSUME IInv, NEW r \in Renderer, Draw(r)
    PROVE  IInv'
<1> DEFINE w == resources[r].window
           use == Of("use", r, "program")
           paint == Of("paint", r, "program")
           end == End(w)
<1>1. r \in Resource /\ resources[r] \in ResourceState
  BY DEF Resource, IInv, Typed
<1>2. w \in Window
  BY <1>1 DEF Draw, Ready, ResourceState
<1>3. Idle /\ Bind(w) /\ calls' = <<use, paint, end>> /\ UNCHANGED ResourceCalls
  BY DEF Draw
<1>4. use \in Using' /\ use \in Call /\ use.step = "use"
  <2>1. NoScope \in Scope
    BY NativeType DEF NoScope, Scope
  <2>2. use \in Call /\ use.step = "use" /\ use.resource = r
    BY <1>1, <2>1 DEF Of, Call, Step, Name
  <2>3. resources' = resources
    BY <1>3 DEF ResourceCalls
  <2>4. QED
    BY <1>1, <1>2, <2>2, <2>3 DEF Using
<1>5. paint \in Starting
  <2>1. "paint" \in Step \ {"use", "end", "register"} /\ "program" \in Name
    BY DEF Step, Name
  <2>2. QED
    BY <1>1, <2>1, OfType
<1>6. paint \in Nested /\ paint.step = "paint" /\ end \in Nested /\ end \in Faithful
  BY <1>2, <1>5, EndType DEF IInv, Faithful, Nested, Starting, Of
<1>7. /\ current' \in [native: Native, context: Native] /\ cached' \in Native
      /\ cached' = current'.context \/ UNCHANGED <<current, cached>>
  BY <1>2, <1>3, BindKeeps DEF IInv
<1> HIDE DEF w, use, paint, end
<1>8. calls' \in Seq(Call) /\ Head(calls') = use /\ Tail(calls') \in Seq(Nested)
  <2>1. Nested \subseteq Call
    BY DEF Nested
  <2>2. Tail(calls') = <<paint, end>>
    BY <1>3
  <2>3. QED
    BY <1>3, <1>4, <1>6, <2>1, <2>2
<1>9. CallsNested'
  BY <1>4, <1>8 DEF CallsNested
<1>10. CacheOrScopes'
  <2>1. CASE cached' = current'.context
    BY <2>1 DEF CacheOrScopes
  <2>2. CASE UNCHANGED <<current, cached>>
    <3>1. Faithful' = Faithful
      BY <2>2 DEF Faithful
    <3>2. use \in Faithful /\ paint \in Faithful /\ end \in Faithful
      BY <1>4, <1>6 DEF Faithful, Nested
    <3>3. calls' \in Seq(Faithful')
      BY <1>3, <3>1, <3>2
    <3>4. QED
      BY <3>3 DEF CacheOrScopes
  <2>3. QED
    BY <1>7, <2>1, <2>2
<1>11. QED
  BY <1>3, <1>7, <1>8, <1>9, <1>10, CallKeeps

\* The start of a scope remembers the context it found.
LEMMA UseKeeps ==
    ASSUME IInv, Use
    PROVE  IInv'
<1> DEFINE r == Top.resource
           w == resources[r].window
           above == <<Of("paint", r, "program")>>
<1>1. At("use") /\ "use" \in Step \ {"end"} /\ "paint" \in Step \ {"use", "end", "register"}
      /\ "program" \in Name
  BY DEF Use, Step, Name
<1>2. /\ r \in Resource /\ Return \in Seq(Nested) /\ w \in Window
      /\ calls \in Seq(Faithful) => Return \in Seq(Faithful)
  BY <1>1, TopOfStep
<1>3. /\ Bind(w) /\ UNCHANGED ResourceCalls
      /\ calls' = <<Of("paint", r, "program"), End(w)>> \o Return
  BY DEF Use
<1>4. Of("paint", r, "program") \in Starting /\ above \in Seq(Starting)
  BY <1>1, <1>2, OfType
<1>5. End(w) \in Call /\ Of("paint", r, "program") \in Call
  BY <1>2, <1>4, EndType DEF IInv, Nested, Starting
<1>6. calls' = above \o <<End(w)>> \o Return
  BY <1>3, <1>5, PairConcat
<1> HIDE DEF w, above
<1>7. QED
  BY <1>2, <1>3, <1>4, <1>6, BoundStack

\* Painting inside a scope binds the context of a window.
LEMMA PaintKeeps ==
    ASSUME IInv, Paint
    PROVE  IInv'
<1>1. ~Idle /\ calls' = Return /\ UNCHANGED <<current, cached>> /\ UNCHANGED ResourceCalls
  BY DEF Paint, At
<1>2. cached' \in Native /\ current' \in [native: Native, context: Native]
  BY <1>1 DEF IInv, Typed
<1>3. QED
  BY <1>1, <1>2, ReturnKeeps, CallKeeps

\* The end of a scope makes what it found current, and the cache right.
LEMMA EndScopeRestores ==
    ASSUME IInv, EndScope
    PROVE  /\ current' \in [native: Native, context: Native] /\ cached' \in Native
           /\ Top.scope.old # 0 => current'.context = Top.scope.old
           /\ cached' = current'.context \/ UNCHANGED <<current, cached>>
<1>1. ~Idle /\ Top.step = "end"
  BY DEF EndScope, At
<1>2. Top \in Call /\ (calls \in Seq(Faithful) => Top \in Faithful)
  BY <1>1, ReturnType DEF IInv
<1>3. Top.scope.native \in Native /\ Top.scope.old \in Native
  BY <1>2 DEF Call, Scope
<1>4. cached = current.context \/ Top.scope.old = current.context
  BY <1>1, <1>2 DEF IInv, CacheOrScopes, Faithful
<1>5. CASE Top.scope.old = 0
  <2>1. UNCHANGED <<current, cached>>
    BY <1>5 DEF EndScope
  <2>2. QED
    BY <1>5, <2>1 DEF IInv, Typed
<1>6. CASE Top.scope.old # 0
  <2>1. SetContext(Top.scope.native, Top.scope.old)
    BY <1>6 DEF EndScope
  <2>2. QED
    BY <1>3, <1>4, <2>1 DEF SetContext, IInv, Typed
<1>7. QED
  BY <1>5, <1>6

\* The end of a scope binds what it remembered.
LEMMA EndScopeKeeps ==
    ASSUME IInv, EndScope
    PROVE  IInv'
<1>1. ~Idle /\ calls' = Return /\ UNCHANGED ResourceCalls
  BY DEF EndScope, At
<1>2. /\ current' \in [native: Native, context: Native] /\ cached' \in Native
      /\ cached' = current'.context \/ UNCHANGED <<current, cached>>
  BY EndScopeRestores
<1>3. Return \in Seq(Nested) /\ (calls \in Seq(Faithful) => Return \in Seq(Faithful))
  BY <1>1, ReturnType DEF IInv
<1>4. CacheOrScopes'
  <2>1. CASE cached' = current'.context
    BY <2>1 DEF CacheOrScopes
  <2>2. CASE UNCHANGED <<current, cached>> /\ cached # current.context
    <3>1. Faithful' = Faithful
      BY <2>2 DEF Faithful
    <3>2. QED
      BY <1>1, <1>3, <2>2, <3>1 DEF IInv, CacheOrScopes
  <2>3. QED
    BY <1>2, <2>1, <2>2
<1>5. QED
  BY <1>1, <1>2, <1>3, <1>4, StackKeeps, CallKeeps
-----------------------------------------------------------------------------
\* The initial state satisfies the invariant.
LEMMA Initially == Init => IInv
<1> SUFFICES ASSUME Init PROVE IInv
  OBVIOUS
<1>1. << >> \in Seq(Resource) /\ << >> \in Seq(Call)
  OBVIOUS
<1>2. Closed \in WindowState /\ ~Closed.sdl /\ Closed.resources = << >>
  BY <1>1, NativeType DEF Closed, WindowState
<1>3. Typed
  BY <1>1, <1>2, NativeType DEF Init, Typed, ResourceState
<1>4. UsersCounted
  <2>1. SdlUsers = {}
    BY <1>2 DEF Init, SdlUsers
  <2>2. QED
    BY <2>1, FS_EmptySet DEF Init, UsersCounted
<1>5. ListsAgree
  <2>1. Once(<< >>) /\ \A r \in Resource : ~Lists(<< >>, r)
    BY DEF Once, Lists
  <2>2. QED
    BY <1>2, <2>1 DEF Init, ListsAgree
<1>6. CallsNested /\ CacheOrScopes
  BY DEF Init, CallsNested, CacheOrScopes
<1>7. QED
  BY <1>3, <1>4, <1>5, <1>6 DEF IInv

\* Every step keeps the invariant.
LEMMA Inductive == IInv /\ [Next]_vars => IInv'
<1> SUFFICES ASSUME IInv, [Next]_vars PROVE IInv'
  OBVIOUS
<1>1. ASSUME NEW w \in Window, InitWindow(w) \/ Destroy(w) \/ StepWindow(w) PROVE IInv'
  BY <1>1, InitWindowKeeps, DestroyKeeps, StepWindowKeeps
<1>2. ASSUME NEW r \in Resource,
             DestroyResource(r) \/ \E w \in Window : InitResource(r, w)
      PROVE  IInv'
  BY <1>2, DestroyResourceKeeps, InitResourceKeeps
<1>3. ASSUME NEW r \in Renderer, Draw(r) PROVE IInv'
  BY <1>3, DrawKeeps
<1>4. CASE StartAudio
  BY <1>4, StartAudioKeeps
<1>5. CASE TryBind \/ Delete \/ Unregister \/ Register
  BY <1>5, TryBindKeeps, DeleteKeeps, UnregisterKeeps, RegisterKeeps
<1>6. CASE BindToCreate \/ Generate \/ Use \/ Paint \/ EndScope
  BY <1>6, BindToCreateKeeps, GenerateKeeps, UseKeeps, PaintKeeps, EndScopeKeeps
<1>7. CASE UNCHANGED vars
  <2>1. Faithful' = Faithful /\ Using' = Using /\ SdlUsers' = SdlUsers
    BY <1>7 DEF vars, Faithful, Using, SdlUsers
  <2>2. QED
    BY <1>7, <2>1 DEF vars, IInv, Typed, UsersCounted, ListsAgree, CallsNested, CacheOrScopes
<1>8. QED
  BY <1>1, <1>2, <1>3, <1>4, <1>5, <1>6, <1>7 DEF Next

\* The invariants hold in every state the platform reaches.
THEOREM Invariance == Spec => []IInv
BY Initially, Inductive, PTL DEF Spec

\* odSDL_init_counter never counts more than the windows and the mixer, nor less than
\* none; everything else is what it was declared to be.
THEOREM TypeCorrect == Spec => []TypeOK
<1>1. ASSUME IInv PROVE TypeOK
  <2>1. SdlUsers \subseteq Window
    BY DEF SdlUsers
  <2>2. /\ Cardinality(SdlUsers) \in Nat /\ Cardinality(Window) \in Nat
        /\ Cardinality(SdlUsers) <= Cardinality(Window)
    BY <2>1, FS_Subset, FS_CardinalityType
  <2>3. users \in 0 .. Cardinality(Window) + 1
    BY <1>1, <2>2 DEF IInv, UsersCounted
  <2>4. QED
    BY <1>1, <2>3 DEF IInv, Typed, TypeOK
<1>2. QED
  BY <1>1, Invariance, PTL

\* odWindow_destroy and odWindowResource_destroy: each tells the other side, so that
\* lists and resources name each other, once, whatever is destroyed first.
THEOREM ListsFollowResources == Spec => []WindowsListTheirResources
<1>1. ASSUME IInv PROVE WindowsListTheirResources
  <2>1. ASSUME NEW w \in Window, NEW r \in Resource
        PROVE  Cardinality({i \in 1 .. Len(windows[w].resources) : windows[w].resources[i] = r})
                 = IF resources[r].window = w THEN 1 ELSE 0
    <3> DEFINE list == windows[w].resources
    <3>1. list \in Seq(Resource) /\ Once(list) /\ (Lists(list, r) <=> resources[r].window = w)
      BY <1>1 DEF IInv, Typed, ListsAgree, WindowState
    <3> HIDE DEF list
    <3>2. Cardinality({i \in 1 .. Len(list) : list[i] = r}) = IF Lists(list, r) THEN 1 ELSE 0
      BY <3>1, ListedOnce
    <3>3. QED
      BY <3>1, <3>2 DEF list
  <2>2. QED
    BY <2>1 DEF WindowsListTheirResources
<1>2. QED
  BY <1>1, Invariance, PTL

\* odWindowScope: a scope leaves the context current that it found, scopes inside it
\* included, even where the cache is wrong.
THEOREM ScopesRestore == Spec => ScopesRestoreContext
<1>1. IInv /\ [Next]_vars
        => [EndScope /\ Top.scope.old # 0 => current'.context = Top.scope.old]_vars
  BY EndScopeRestores
<1>2. QED
  BY <1>1, Invariance, PTL DEF Spec, ScopesRestoreContext
-----------------------------------------------------------------------------
(***************************************************************************)
(* As long as one native window is open, as in the game, the cache is      *)
(* right: the window is current with its context, cached too, and what     *)
(* every scope under way found.  A window that is open as well would be    *)
(* made current by its steps, behind the cache.                            *)
(***************************************************************************)
OneOpen ==
    \A v, w \in Window : windows[v].native # 0 /\ windows[w].native # 0 => v = w

\* Calls of which those that end a scope make the window current.
Reaching(w) ==
    {call \in Call :
        call.step = "end" =>
            call.scope = [native |-> windows[w].native, old |-> windows[w].context]}

Reached(w) ==
    /\ current = [native |-> windows[w].native, context |-> windows[w].context]
    /\ cached = windows[w].context
    /\ calls \in Seq(Reaching(w))

WindowReached ==
    \A w \in Window :
        /\ windows[w].native # 0 => windows[w].sdl
        /\ windows[w].open => windows[w].native # 0
        /\ HasContext(w) => Reached(w)

\* What a resource is registered with is a native window.
ResourcesInOpen ==
    \A r \in Resource : resources[r].window # nil => windows[resources[r].window].native # 0

OneReached == WindowReached /\ ResourcesInOpen

\* Calls that end no scope, and those already under way.
LEMMA ReachingStack ==
    ASSUME NEW v \in Window
    PROVE  /\ \A stack \in Seq(Starting) : stack \in Seq(Reaching(v))
           /\ calls \in Seq(Reaching(v)) /\ ~Idle =>
                 Top \in Reaching(v) /\ Return \in Seq(Reaching(v))
<1>1. Starting \subseteq Reaching(v)
  BY DEF Starting, Nested, Reaching
<1>2. ASSUME calls \in Seq(Reaching(v)), ~Idle
      PROVE  Top \in Reaching(v) /\ Return \in Seq(Reaching(v))
  BY <1>2, HeadTailProperties DEF Idle, Top, Return
<1>3. QED
  BY <1>1, <1>2

\* A scope of the window that is open changes nothing, and its end will not either.
LEMMA BoundReaches ==
    ASSUME IInv, OneReached, OneOpen, NEW w \in Window, windows[w].native # 0, Bind(w),
           NEW v \in Window, HasContext(v)
    PROVE  v = w /\ UNCHANGED <<current, cached>> /\ End(w) \in Reaching(v)
<1>1. v = w
  BY DEF OneOpen, HasContext
<1>2. Reached(w)
  BY <1>1 DEF OneReached, WindowReached
<1>3. current' = current /\ cached' = cached
  BY <1>2 DEF Bind, SetContext, Reached
<1>4. End(w) \in Call
  BY EndType DEF IInv, Nested
<1>5. End(w).scope = [native |-> windows[w].native, old |-> current.context]
  BY DEF End, Of
<1>6. End(w) \in Reaching(v)
  BY <1>1, <1>2, <1>4, <1>5 DEF Reaching, Reached
<1>7. QED
  BY <1>1, <1>3, <1>6

\* A step that opens no window and closes none.
LEMMA SameWindows ==
    ASSUME OneReached,
           \A w \in Window :
              /\ windows'[w].native = windows[w].native
              /\ windows'[w].context = windows[w].context
              /\ windows'[w].sdl = windows[w].sdl /\ windows'[w].open = windows[w].open,
           \A w \in Window : HasContext(w) =>
              current' = current /\ cached' = cached /\ calls' \in Seq(Reaching(w)),
           \A r \in Resource : resources'[r].window # nil =>
              resources'[r].window \in Window /\ windows[resources'[r].window].native # 0
    PROVE  OneReached'
<1>1. ASSUME NEW w \in Window
      PROVE  /\ windows'[w].native # 0 => windows'[w].sdl
             /\ windows'[w].open => windows'[w].native # 0
             /\ HasContext(w)' => Reached(w)'
  <2>1. Reaching(w)' = Reaching(w) /\ (HasContext(w)' <=> HasContext(w))
    BY DEF Reaching, HasContext
  <2>2. HasContext(w) => Reached(w)'
    BY <2>1 DEF OneReached, WindowReached, Reached
  <2>3. QED
    BY <2>1, <2>2 DEF OneReached, WindowReached
<1>2. QED
  BY <1>1 DEF OneReached, WindowReached, ResourcesInOpen

\* A step that leaves windows and resources alone.
LEMMA CallReaches ==
    ASSUME IInv, OneReached, UNCHANGED ResourceCalls,
           \A w \in Window : HasContext(w) =>
              current' = current /\ cached' = cached /\ calls' \in Seq(Reaching(w))
    PROVE  OneReached'
<1>1. windows' = windows /\ resources' = resources
  BY DEF ResourceCalls
<1>2. \A r \in Resource : resources[r].window # nil => resources[r].window \in Window
  BY DEF IInv, Typed, ResourceState
<1>3. \A r \in Resource : resources'[r].window # nil =>
         resources'[r].window \in Window /\ windows[resources'[r].window].native # 0
  BY <1>1, <1>2 DEF OneReached, ResourcesInOpen
<1>4. QED
  BY <1>1, <1>3, SameWindows

\* A step that leaves all of it alone.
LEMMA UnchangedReaches ==
    ASSUME IInv, OneReached, UNCHANGED <<windows, resources, current, cached, calls>>
    PROVE  OneReached'
<1>1. \A r \in Resource : resources[r].window # nil => resources[r].window \in Window
  BY DEF IInv, Typed, ResourceState
<1>2. \A w \in Window : HasContext(w) => calls \in Seq(Reaching(w))
  BY DEF OneReached, WindowReached, Reached
<1>3. \A r \in Resource : resources'[r].window # nil =>
         resources'[r].window \in Window /\ windows[resources'[r].window].native # 0
  BY <1>1 DEF OneReached, ResourcesInOpen
<1>4. QED
  BY <1>2, <1>3, SameWindows

\* A step that only ends the call at the top, or all.
LEMMA ReturnReaches ==
    ASSUME OneReached, ~Idle, calls' = Return \/ calls' = << >>, NEW w \in Window, HasContext(w)
    PROVE  calls' \in Seq(Reaching(w))
<1>1. calls \in Seq(Reaching(w))
  BY DEF OneReached, WindowReached, Reached
<1>2. << >> \in Seq(Reaching(w))
  OBVIOUS
<1>3. QED
  BY <1>1, <1>2, ReachingStack

\* A step that begins calls on resources.
LEMMA BeginReaches ==
    ASSUME IInv, OneReached, calls' \in Seq(Starting),
           UNCHANGED <<current, cached, ResourceCalls>>
    PROVE  OneReached'
BY ReachingStack, CallReaches

\* A window is destroyed, and may be made again: what another window has is not lost, as
\* SDL is only quit with its last user.
LEMMA EmptiedReaches ==
    ASSUME IInv, OneReached, OneOpen', NEW w \in Window, NEW state \in WindowState,
           windows' = [windows EXCEPT ![w] = state], resources' = Told(w),
           Idle, calls' = calls,
           state.native # 0 => state.sdl, state.open => state.native # 0,
           state.native # 0 /\ state.context # 0 =>
              /\ current' = [native |-> state.native, context |-> state.context]
              /\ cached' = state.context,
           state.native = 0 => current' = CurrentWithout(w) /\ cached' = cached
    PROVE  OneReached'
<1>1. \A v \in Window : windows'[v] = IF v = w THEN state ELSE windows[v]
  BY DEF IInv, Typed
<1>2. ASSUME NEW v \in Window
      PROVE  /\ windows'[v].native # 0 => windows'[v].sdl
             /\ windows'[v].open => windows'[v].native # 0
             /\ HasContext(v)' => Reached(v)'
  <2>1. calls' \in Seq(Reaching(v)')
    BY DEF Idle
  <2>2. CASE v = w
    <3>1. windows'[v] = state
      BY <1>1, <2>2
    <3>2. QED
      BY <2>1, <3>1 DEF HasContext, Reached
  <2>3. CASE v # w
    <3>1. windows'[v] = windows[v] /\ windows'[w] = state
      BY <1>1, <2>3
    <3>2. ASSUME HasContext(v)'
          PROVE  Reached(v)'
      <4>1. HasContext(v) /\ Reached(v) /\ windows[v].sdl
        BY <3>1, <3>2 DEF HasContext, OneReached, WindowReached
      <4>2. state.native = 0
        BY <2>3, <3>1, <3>2 DEF OneOpen, HasContext
      <4>3. CurrentWithout(w) = current
        <5>1. v \in SdlUsers \ {w}
          BY <2>3, <4>1 DEF SdlUsers
        <5>2. Cardinality(SdlUsers \ {w}) # 0
          BY <5>1, WithoutWindow, FS_EmptySet
        <5>3. /\ Cardinality(SdlUsers \ {w}) \in Nat
              /\ \/ UsersWithout(w) = Cardinality(SdlUsers \ {w})
                 \/ UsersWithout(w) = Cardinality(SdlUsers \ {w}) + 1
          BY WithoutWindow
        <5>4. UsersWithout(w) # 0
          BY <5>2, <5>3
        <5>5. QED
          BY <5>4 DEF CurrentWithout
      <4>4. QED
        BY <2>1, <3>1, <4>1, <4>2, <4>3 DEF Reached
    <3>3. QED
      BY <3>1, <3>2 DEF OneReached, WindowReached
  <2>4. QED
    BY <2>2, <2>3
<1>3. ASSUME NEW r \in Resource, resources'[r].window # nil
      PROVE  windows'[resources'[r].window].native # 0
  <2>1. resources'[r].window = resources[r].window /\ resources[r].window # w
    BY <1>3, WithoutWindow, ZenonT(60)
  <2>2. resources[r].window \in Window
    BY <1>3, <2>1 DEF IInv, Typed, ResourceState
  <2>3. QED
    BY <1>1, <1>3, <2>1, <2>2 DEF OneReached, ResourcesInOpen
<1>4. QED
  BY <1>2, <1>3 DEF OneReached, WindowReached, ResourcesInOpen

\* odWindow_destroy.
LEMMA DestroyReaches ==
    ASSUME IInv, OneReached, OneOpen', NEW w \in Window, Destroy(w)
    PROVE  OneReached'
<1>1. Closed \in WindowState /\ Closed.native = 0 /\ ~Closed.open
  <2>1. << >> \in Seq(Resource)
    OBVIOUS
  <2>2. QED
    BY <2>1, NativeType DEF Closed, WindowState
<1>2. /\ windows' = [windows EXCEPT ![w] = Closed] /\ resources' = Told(w)
      /\ Idle /\ calls' = calls /\ current' = CurrentWithout(w) /\ cached' = cached
  BY DEF Destroy
<1>3. QED
  BY <1>1, <1>2, EmptiedReaches

\* odWindow_init, as far as it comes.
LEMMA InitWindowReaches ==
    ASSUME IInv, OneReached, OneOpen', NEW w \in Window, InitWindow(w)
    PROVE  OneReached'
<1> DEFINE n == made + 1
<1>1. PICK done \in 0 .. 4 :
        /\ Idle /\ calls' = calls
        /\ done >= 2 => n <= MaxNatives
        /\ windows' = [windows EXCEPT ![w] =
                [native |-> IF done >= 2 THEN n ELSE 0,
                 context |-> IF done >= 3 THEN n ELSE 0,
                 open |-> done = 4,
                 sdl |-> done >= 1,
                 resources |-> << >>]]
        /\ resources' = Told(w)
        /\ current' = IF done >= 3 THEN [native |-> n, context |-> n] ELSE CurrentWithout(w)
        /\ cached' = IF done >= 3 THEN n ELSE cached
  BY DEF InitWindow
<1> DEFINE state == [native |-> IF done >= 2 THEN n ELSE 0,
                     context |-> IF done >= 3 THEN n ELSE 0,
                     open |-> done = 4,
                     sdl |-> done >= 1,
                     resources |-> << >>]
<1>2. (done >= 2 => n \in Native) /\ n # 0
  BY <1>1, NativeType DEF IInv, Typed, Native
<1>3. state \in WindowState
  <2>1. << >> \in Seq(Resource) /\ (done = 4) \in BOOLEAN /\ (done >= 1) \in BOOLEAN
    OBVIOUS
  <2>2. /\ (IF done >= 2 THEN n ELSE 0) \in Native
        /\ (IF done >= 3 THEN n ELSE 0) \in Native
    BY <1>2, NativeType
  <2>3. QED
    BY <2>1, <2>2 DEF WindowState
<1>4. /\ state.native = IF done >= 2 THEN n ELSE 0
      /\ state.context = IF done >= 3 THEN n ELSE 0
      /\ (state.open => done = 4) /\ (done >= 1 => state.sdl)
      /\ windows' = [windows EXCEPT ![w] = state]
  BY <1>1
<1> HIDE DEF state, n
<1>5. (state.native # 0 => state.sdl) /\ (state.open => state.native # 0)
  BY <1>2, <1>4
<1>6. state.native # 0 /\ state.context # 0 =>
         /\ current' = [native |-> state.native, context |-> state.context]
         /\ cached' = state.context
  BY <1>1, <1>4
<1>7. state.native = 0 => current' = CurrentWithout(w) /\ cached' = cached
  BY <1>1, <1>2, <1>4
<1>8. QED
  BY <1>1, <1>3, <1>4, <1>5, <1>6, <1>7, EmptiedReaches

\* odWindow_step makes its window current, which it is.
LEMMA StepWindowReaches ==
    ASSUME IInv, OneReached, OneOpen, NEW w \in Window, StepWindow(w)
    PROVE  OneReached'
<1>1. windows[w].native # 0
  BY DEF StepWindow, OneReached, WindowReached
<1>2. /\ current' = [native |-> windows[w].native, context |-> windows[w].context]
      /\ cached' = cached /\ calls' = calls /\ UNCHANGED ResourceCalls
  BY DEF StepWindow, ResourceCalls
<1>3. ASSUME NEW v \in Window, HasContext(v)
      PROVE  current' = current /\ cached' = cached /\ calls' \in Seq(Reaching(v))
  <2>1. v = w
    BY <1>1, <1>3 DEF OneOpen, HasContext
  <2>2. Reached(v)
    BY <1>3 DEF OneReached, WindowReached
  <2>3. QED
    BY <1>2, <2>1, <2>2 DEF Reached
<1>4. QED
  BY <1>2, <1>3, CallReaches

\* A destruction binds the context of the window, if there is one.
LEMMA TryBindReaches ==
    ASSUME IInv, OneReached, OneOpen, TryBind
    PROVE  OneReached'
<1> DEFINE r == Top.resource
           w == resources[r].window
           first == Of("delete", r, Top.name)
           second == IF Top.name = "fbo" THEN Freeing(r)[1] ELSE Of("unregister", r, Top.name)
           rest == <<first, second>>
<1>1. At("destroy") /\ "destroy" \in Step \ {"end"}
  BY DEF TryBind, Step
<1>2. /\ ~Idle /\ r \in Resource /\ Top.name \in Name
      /\ resources[r] \in ResourceState
  BY <1>1, TopOfStep
<1>3. rest \in Seq(Starting)
  <2>1. {"destroy", "delete", "unregister"} \subseteq Step \ {"use", "end", "register"}
        /\ "texture" \in Name /\ "program" \in Name
    BY DEF Step, Name
  <2>2. first \in Starting /\ Of("unregister", r, Top.name) \in Starting
    BY <1>2, <2>1, OfType
  <2>3. Freeing(r)[1] \in Starting
    BY <1>2, <2>1, OfType DEF Freeing
  <2>4. second \in Starting
    BY <2>2, <2>3
  <2> HIDE DEF first, second
  <2>5. QED
    BY <2>2, <2>4
<1>4. UNCHANGED ResourceCalls
  BY DEF TryBind
<1>5. ASSUME NEW v \in Window, HasContext(v)
      PROVE  current' = current /\ cached' = cached /\ calls' \in Seq(Reaching(v))
  <2>1. rest \in Seq(Reaching(v)) /\ Return \in Seq(Reaching(v))
    <3> HIDE DEF rest, w
    <3>1. calls \in Seq(Reaching(v))
      BY <1>5 DEF OneReached, WindowReached, Reached
    <3>2. QED
      BY <1>2, <1>3, <3>1, ReachingStack
  <2>2. CASE HasContext(w)
    <3>1. w \in Window /\ windows[w].native # 0
      BY <1>2, <2>2 DEF HasContext, ResourceState
    <3>2. Bind(w) /\ calls' = rest \o <<End(w)>> \o Return
      BY <2>2 DEF TryBind
    <3> HIDE DEF w, rest
    <3>3. UNCHANGED <<current, cached>> /\ End(w) \in Reaching(v)
      BY <1>5, <3>1, <3>2, BoundReaches
    <3>4. <<End(w)>> \in Seq(Reaching(v))
      BY <3>3
    <3>5. QED
      BY <2>1, <3>2, <3>3, <3>4, ConcatProperties
  <2>3. CASE ~HasContext(w)
    <3>1. calls' = rest \o Return /\ UNCHANGED <<current, cached>>
      BY <2>3 DEF TryBind
    <3> HIDE DEF w, rest
    <3>2. QED
      BY <2>1, <3>1, ConcatProperties
  <2>4. QED
    BY <2>2, <2>3
<1>6. QED
  BY <1>4, <1>5, CallReaches

\* A creation binds the context of the window, or is given up.
LEMMA BindToCreateReaches ==
    ASSUME IInv, OneReached, OneOpen, BindToCreate
    PROVE  OneReached'
<1> DEFINE r == Top.resource
           w == resources[r].window
           generate == Of("generate", r, Top.name)
<1>1. /\ At("create") /\ "create" \in Step \ {"end"}
      /\ "generate" \in Step \ {"use", "end", "register"}
  BY DEF BindToCreate, Step
<1>2. ~Idle /\ r \in Resource /\ Top.name \in Name /\ resources[r] \in ResourceState
  BY <1>1, TopOfStep
<1>3. generate \in Starting
  BY <1>1, <1>2, OfType
<1>4. UNCHANGED ResourceCalls
  BY DEF BindToCreate
<1>5. ASSUME NEW v \in Window, HasContext(v)
      PROVE  current' = current /\ cached' = cached /\ calls' \in Seq(Reaching(v))
  <2>1. CASE HasContext(w)
    <3>1. w \in Window /\ windows[w].native # 0
      BY <1>2, <2>1 DEF HasContext, ResourceState
    <3>2. Bind(w) /\ calls' = <<generate, End(w)>> \o Return
      BY <2>1 DEF BindToCreate
    <3> HIDE DEF w, generate
    <3>3. Return \in Seq(Reaching(v))
      <4>1. calls \in Seq(Reaching(v))
        BY <1>5 DEF OneReached, WindowReached, Reached
      <4>2. QED
        BY <1>2, <4>1, ReachingStack
    <3>4. UNCHANGED <<current, cached>> /\ End(w) \in Reaching(v)
      BY <1>5, <3>1, <3>2, BoundReaches
    <3>5. generate \in Reaching(v)
      BY <1>3 DEF Starting, Nested, Reaching
    <3>6. <<generate, End(w)>> \in Seq(Reaching(v))
      BY <3>4, <3>5
    <3>7. QED
      BY <3>2, <3>3, <3>4, <3>6, ConcatProperties
  <2>2. CASE ~HasContext(w)
    <3>1. calls' = << >> /\ UNCHANGED <<current, cached>>
      BY <2>2 DEF BindToCreate
    <3>2. QED
      BY <3>1
  <2>3. QED
    BY <2>1, <2>2
<1>6. QED
  BY <1>4, <1>5, CallReaches

\* Drawing binds the context of the window of the renderer.
LEMMA DrawReaches ==
    ASSUME IInv, OneReached, OneOpen, NEW r \in Renderer, Draw(r)
    PROVE  OneReached'
<1> DEFINE w == resources[r].window
           use == Of("use", r, "program")
           paint == Of("paint", r, "program")
<1>1. r \in Resource /\ resources[r] \in ResourceState
  BY DEF Resource, IInv, Typed
<1>2. w \in Window /\ windows[w].native # 0
  BY <1>1 DEF Draw, Ready, ResourceState, OneReached, ResourcesInOpen
<1>3. Bind(w) /\ calls' = <<use, paint, End(w)>> /\ UNCHANGED ResourceCalls
  BY DEF Draw
<1>4. /\ use \in Call /\ use.step = "use"
      /\ paint \in Call /\ paint.step = "paint"
  <2>1. NoScope \in Scope
    BY NativeType DEF NoScope, Scope
  <2>2. QED
    BY <1>1, <2>1 DEF Of, Call, Step, Name
<1> HIDE DEF w, use, paint
<1>5. ASSUME NEW v \in Window, HasContext(v)
      PROVE  current' = current /\ cached' = cached /\ calls' \in Seq(Reaching(v))
  <2>1. UNCHANGED <<current, cached>> /\ End(w) \in Reaching(v)
    BY <1>2, <1>3, <1>5, BoundReaches
  <2>2. use \in Reaching(v) /\ paint \in Reaching(v)
    BY <1>4 DEF Reaching
  <2>3. QED
    BY <1>3, <2>1, <2>2
<1>6. QED
  BY <1>3, <1>5, CallReaches

\* The renderer is bound, a scope in the scope.
LEMMA UseReaches ==
    ASSUME IInv, OneReached, OneOpen, Use
    PROVE  OneReached'
<1> DEFINE r == Top.resource
           w == resources[r].window
           paint == Of("paint", r, "program")
<1>1. At("use") /\ "use" \in Step \ {"end"} /\ "paint" \in Step \ {"use", "end", "register"}
      /\ "program" \in Name
  BY DEF Use, Step, Name
<1>2. ~Idle /\ r \in Resource /\ w \in Window
  BY <1>1, TopOfStep
<1>3. windows[w].native # 0
  BY <1>2 DEF OneReached, ResourcesInOpen
<1>4. /\ Bind(w) /\ UNCHANGED ResourceCalls
      /\ calls' = <<paint, End(w)>> \o Return
  BY DEF Use
<1>5. paint \in Starting
  BY <1>1, <1>2, OfType
<1>6. ASSUME NEW v \in Window, HasContext(v)
      PROVE  current' = current /\ cached' = cached /\ calls' \in Seq(Reaching(v))
  <2> HIDE DEF w, paint
  <2>1. Return \in Seq(Reaching(v))
    <3>1. calls \in Seq(Reaching(v))
      BY <1>6 DEF OneReached, WindowReached, Reached
    <3>2. QED
      BY <1>2, <3>1, ReachingStack
  <2>2. UNCHANGED <<current, cached>> /\ End(w) \in Reaching(v)
    BY <1>2, <1>3, <1>4, <1>6, BoundReaches
  <2>3. paint \in Reaching(v)
    BY <1>5 DEF Starting, Nested, Reaching
  <2>4. <<paint, End(w)>> \in Seq(Reaching(v))
    BY <2>2, <2>3
  <2>5. QED
    BY <1>4, <2>1, <2>2, <2>4, ConcatProperties
<1>7. QED
  BY <1>4, <1>6, CallReaches

\* The end of a scope binds the context that is cached.
LEMMA EndScopeReaches ==
    ASSUME IInv, OneReached, EndScope
    PROVE  OneReached'
<1>1. ~Idle /\ Top.step = "end" /\ calls' = Return /\ UNCHANGED ResourceCalls
  BY DEF EndScope, At
<1>2. ASSUME NEW v \in Window, HasContext(v)
      PROVE  current' = current /\ cached' = cached /\ calls' \in Seq(Reaching(v))
  <2>1. Reached(v)
    BY <1>2 DEF OneReached, WindowReached
  <2>2. Top \in Reaching(v) /\ Return \in Seq(Reaching(v))
    BY <1>1, <2>1, ReachingStack DEF Reached
  <2>3. Top.scope.old = cached
    BY <1>1, <2>1, <2>2 DEF Reaching, Reached
  <2>4. current' = current /\ cached' = cached
    BY <2>3 DEF EndScope, SetContext
  <2>5. QED
    BY <1>1, <2>2, <2>4
<1>3. QED
  BY <1>1, <1>2, CallReaches

\* A resource enters or leaves a list, or gets or loses a name.
LEMMA ResourceReaches ==
    ASSUME IInv, OneReached, Delete \/ Generate \/ Unregister \/ Register
    PROVE  OneReached'
<1> DEFINE r == Top.resource
<1>1. {"delete", "generate", "unregister", "register"} \subseteq Step \ {"end"}
  BY DEF Step
<1>2. /\ ~Idle /\ r \in Resource
      /\ At("register") => Top.window \in Window
  BY <1>1, TopOfStep DEF Delete, Generate, Unregister, Register
<1>3. UNCHANGED <<current, cached>> /\ (calls' = Return \/ calls' = << >>)
  BY DEF Delete, Generate, Unregister, Register
<1> HIDE DEF r
<1>4. \A w \in Window : HasContext(w) =>
         current' = current /\ cached' = cached /\ calls' \in Seq(Reaching(w))
  BY <1>2, <1>3, ReturnReaches
<1>5. \A q \in Resource :
         /\ resources[q] \in ResourceState
         /\ resources[q].window # nil =>
               resources[q].window \in Window /\ windows[resources[q].window].native # 0
  BY DEF IInv, Typed, ResourceState, OneReached, ResourcesInOpen
<1> DEFINE before == Unregistered(windows, r)
<1>6. /\ before \in [Window -> WindowState]
      /\ \A w \in Window :
            /\ before[w].native = windows[w].native /\ before[w].context = windows[w].context
            /\ before[w].sdl = windows[w].sdl /\ before[w].open = windows[w].open
  <2>1. before \in [Window -> WindowState]
    BY <1>2, UnregisteredKeeps
  <2>2. windows \in [Window -> WindowState]
    BY DEF IInv, Typed
  <2>3. QED
    BY <2>1, <2>2 DEF Unregistered, WindowState
<1>7. CASE Delete \/ Generate
  <2>1. PICK names : resources' = [resources EXCEPT ![r].names = names]
    BY <1>7 DEF Delete, Generate, r
  <2>2. resources \in [Resource -> ResourceState] /\ windows' = windows
    BY <1>7 DEF IInv, Typed, Delete, Generate
  <2>3. \A q \in Resource : resources'[q].window = resources[q].window
    BY <2>1, <2>2 DEF ResourceState
  <2>4. QED
    BY <1>4, <1>5, <2>2, <2>3, SameWindows
<1>8. CASE Unregister
  <2>1. windows' = before /\ resources' = [resources EXCEPT ![r].window = nil]
    BY <1>8 DEF Unregister, r
  <2> HIDE DEF before
  <2>2. resources \in [Resource -> ResourceState]
    BY DEF IInv, Typed
  <2>3. \A q \in Resource : resources'[q].window = IF q = r THEN nil ELSE resources[q].window
    BY <2>1, <2>2 DEF ResourceState
  <2>4. QED
    BY <1>4, <1>5, <1>6, <2>1, <2>3, SameWindows
<1>9. CASE Register
  <2> DEFINE w == Top.window
  <2>1. w \in Window
    BY <1>2, <1>9 DEF Register
  <2>2. CASE windows[w].native = 0
    <3>1. windows' = windows /\ resources' = resources
      BY <1>9, <2>2 DEF Register
    <3>2. QED
      BY <1>4, <1>5, <3>1, SameWindows
  <2>3. CASE windows[w].native # 0
    <3>1. /\ windows' = [before EXCEPT ![w].resources = Append(@, r)]
          /\ resources' = [resources EXCEPT ![r].window = w]
      BY <1>9, <2>3 DEF Register, r
    <3> HIDE DEF before, w
    <3>2. resources \in [Resource -> ResourceState]
      BY DEF IInv, Typed
    <3>3. \A q \in Resource : resources'[q].window = IF q = r THEN w ELSE resources[q].window
      BY <3>1, <3>2 DEF ResourceState
    <3>4. \A v \in Window :
             /\ windows'[v].native = windows[v].native
             /\ windows'[v].context = windows[v].context
             /\ windows'[v].sdl = windows[v].sdl /\ windows'[v].open = windows[v].open
      BY <1>6, <3>1 DEF WindowState
    <3>5. QED
      BY <1>4, <1>5, <2>1, <2>3, <3>3, <3>4, SameWindows
  <2>4. QED
    BY <2>2, <2>3
<1>10. QED
  BY <1>7, <1>8, <1>9

\* Every step with one window open before and after.
LEMMA StepReaches ==
    ASSUME IInv, OneReached, OneOpen, OneOpen', [Next]_vars
    PROVE  OneReached'
<1>1. ASSUME NEW w \in Window, InitWindow(w) \/ Destroy(w) \/ StepWindow(w) PROVE OneReached'
  BY <1>1, InitWindowReaches, DestroyReaches, StepWindowReaches
<1>2. ASSUME NEW r \in Resource,
             DestroyResource(r) \/ \E w \in Window : InitResource(r, w)
      PROVE  OneReached'
  <2>1. /\ Freeing(r) \in Seq(Starting) /\ <<Of("destroy", r, "fbo")>> \in Seq(Starting)
        /\ <<Of("create", r, "fbo")>> \in Seq(Starting)
        /\ \A w \in Window : Making(r, w) \in Seq(Starting)
    <3>1. /\ {"destroy", "create"} \subseteq Step \ {"use", "end", "register"}
          /\ "fbo" \in Name /\ "texture" \in Name /\ "program" \in Name
      BY DEF Step, Name
    <3>2. /\ Freeing(r) \in Seq(Starting) /\ <<Of("destroy", r, "fbo")>> \in Seq(Starting)
          /\ <<Of("create", r, "fbo")>> \in Seq(Starting)
      BY <3>1, OfType DEF Freeing
    <3>3. QED
      BY <3>2, MakingType
  <2>2. CASE DestroyResource(r)
    <3>1. calls' \in Seq(Starting) /\ UNCHANGED <<current, cached, ResourceCalls>>
      BY <2>1, <2>2 DEF DestroyResource
    <3>2. QED
      BY <3>1, BeginReaches
  <2>3. ASSUME NEW w \in Window, InitResource(r, w) PROVE OneReached'
    <3>1. <<Of("destroy", r, "fbo")>> \o Making(r, w) \o <<Of("create", r, "fbo")>>
             \in Seq(Starting)
      BY <2>1, ConcatProperties
    <3>2. calls' \in Seq(Starting) /\ UNCHANGED <<current, cached, ResourceCalls>>
      BY <2>1, <2>3, <3>1 DEF InitResource
    <3>3. QED
      BY <3>2, BeginReaches
  <2>4. QED
    BY <1>2, <2>2, <2>3
<1>3. CASE StartAudio
  <2>1. /\ windows' = windows /\ resources' = resources
        /\ current' = current /\ cached' = cached /\ calls' = calls
    BY <1>3 DEF StartAudio
  <2>2. QED
    BY <2>1, UnchangedReaches
<1>4. ASSUME NEW r \in Renderer, Draw(r) PROVE OneReached'
  BY <1>4, DrawReaches
<1>5. CASE TryBind \/ BindToCreate \/ Use \/ EndScope
  BY <1>5, TryBindReaches, BindToCreateReaches, UseReaches, EndScopeReaches
<1>6. CASE Delete \/ Generate \/ Unregister \/ Register
  BY <1>6, ResourceReaches
<1>7. CASE Paint
  <2>1. ~Idle /\ calls' = Return /\ UNCHANGED <<current, cached>> /\ UNCHANGED ResourceCalls
    BY <1>7 DEF Paint, At
  <2>2. QED
    BY <2>1, ReturnReaches, CallReaches
<1>8. CASE UNCHANGED vars
  <2>1. /\ windows' = windows /\ resources' = resources
        /\ current' = current /\ cached' = cached /\ calls' = calls
    BY <1>8 DEF vars
  <2>2. QED
    BY <2>1, UnchangedReaches
<1>9. QED
  BY <1>1, <1>2, <1>3, <1>4, <1>5, <1>6, <1>7, <1>8 DEF Next

\* odWindowScope_bind asserts that the window it is for is current: as long as no second
\* native window is open, what OpenGL makes, deletes and draws is in the window of the
\* resource, whatever fails, however scopes nest, and although windows come and go.
THEOREM OneWindowIsReached == Spec /\ []OneOpen => []CallsReachTheirWindow
<1>1. Init => OneReached
  <2>1. Closed.native = 0 /\ ~Closed.open
    BY DEF Closed
  <2>2. QED
    BY <2>1 DEF Init, OneReached, WindowReached, ResourcesInOpen, HasContext
<1>2. IInv /\ OneReached /\ OneOpen /\ OneOpen' /\ [Next]_vars => OneReached'
  BY StepReaches
<1>3. ASSUME IInv, OneReached PROVE CallsReachTheirWindow
  <2> SUFFICES ASSUME ~Idle, Top.step \in {"delete", "generate", "paint"},
                      HasContext(resources[Top.resource].window)
               PROVE  LET w == resources[Top.resource].window
                      IN  current = [native |-> windows[w].native,
                                     context |-> windows[w].context]
    BY DEF CallsReachTheirWindow
  <2>1. {"delete", "generate", "paint"} \subseteq Step \ {"end"}
    BY DEF Step
  <2>2. resources[Top.resource] \in ResourceState
    BY <1>3, <2>1, TopOfStep DEF At
  <2>3. resources[Top.resource].window \in Window
    BY <2>2 DEF ResourceState, HasContext
  <2>4. QED
    BY <1>3, <2>3 DEF OneReached, WindowReached, Reached
<1>4. QED
  BY <1>1, <1>2, <1>3, Invariance, PTL DEF Spec
=============================================================================
