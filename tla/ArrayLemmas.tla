---------------------------- MODULE ArrayLemmas ----------------------------
(***************************************************************************)
(* What every user of odTrivialArray relies on, proved once.               *)
(***************************************************************************)
EXTENDS Arrays, SequenceTheorems, WellFoundedInduction, TLAPS

\* odTrivialArray_swap_pop leaves an array of the same elements, one shorter.
LEMMA SwapPopType ==
    ASSUME NEW S, NEW s \in Seq(S), NEW i \in 1 .. Len(s)
    PROVE  /\ SwapPop(s, i) \in Seq(S)
           /\ Len(SwapPop(s, i)) = Len(s) - 1
           /\ DOMAIN SwapPop(s, i) = 1 .. Len(s) - 1
<1>1. Len(s) \in Nat \ {0} /\ \A k \in 1 .. Len(s) : s[k] \in S
  OBVIOUS
<1>2. SwapPop(s, i) \in [1 .. Len(s) - 1 -> S]
  BY <1>1 DEF SwapPop
<1>3. QED
  BY <1>1, <1>2, SeqDef, LenProperties

\* Append, element by element.
LEMMA AppendElements ==
    ASSUME NEW S, NEW s \in Seq(S), NEW e \in S
    PROVE  /\ Append(s, e) \in Seq(S)
           /\ Len(Append(s, e)) = Len(s) + 1
           /\ \A k \in 1 .. Len(s) + 1 :
                 Append(s, e)[k] = IF k = Len(s) + 1 THEN e ELSE s[k]
OBVIOUS

\* Two arrays of one element, put end to end.
LEMMA PairConcat ==
    ASSUME NEW S, NEW d \in S, NEW e \in S
    PROVE  <<d>> \o <<e>> = <<d, e>>
<1>1. <<d>> \in Seq(S) /\ <<e>> \in Seq(S) /\ <<d, e>> \in Seq(S)
  OBVIOUS
<1>2. /\ <<d>> \o <<e>> \in Seq(S) /\ Len(<<d>> \o <<e>>) = 2
      /\ \A i \in 1 .. 2 : (<<d>> \o <<e>>)[i] = IF i <= 1 THEN d ELSE e
  BY <1>1, ConcatProperties
<1>3. \A i \in 1 .. 2 : (<<d>> \o <<e>>)[i] = <<d, e>>[i]
  BY <1>2
<1>4. QED
  BY <1>1, <1>2, <1>3, SeqEqual

\* A search from the first element finds the first there is.
LEMMA FirstExists ==
    ASSUME NEW T \in SUBSET Nat, T # {}
    PROVE  \E i \in T : \A j \in T : i <= j
<1>1. PICK i \in T : \A j \in T : <<j, i>> \notin OpToRel(<, Nat)
  BY NatLessThanWellFounded, WFMin
<1>2. \A j \in T : ~(j < i)
  BY <1>1 DEF OpToRel
<1>3. QED
  BY <1>2

-----------------------------------------------------------------------------
(***************************************************************************)
(* Selected, whose recursion has a solution at every length.               *)
(***************************************************************************)
SelectedUpTo(upTo, s, places, n) ==
    upTo = [k \in 0 .. n |->
              IF k = 0 THEN << >>
              ELSE IF k \in places THEN Append(upTo[k - 1], s[k]) ELSE upTo[k - 1]]

\* One more place of the array extends the solution by one.
LEMMA SelectedExtends ==
    ASSUME NEW s, NEW places, NEW n \in Nat, NEW f, SelectedUpTo(f, s, places, n)
    PROVE  \E g : SelectedUpTo(g, s, places, n + 1)
<1> DEFINE last == IF n + 1 \in places THEN Append(f[n], s[n + 1]) ELSE f[n]
           g == [k \in 0 .. n + 1 |-> IF k = n + 1 THEN last ELSE f[k]]
<1>1. \A k \in 0 .. n :
         f[k] = IF k = 0 THEN << >>
                ELSE IF k \in places THEN Append(f[k - 1], s[k]) ELSE f[k - 1]
  BY DEF SelectedUpTo
<1>2. ASSUME NEW k \in 0 .. n + 1
      PROVE  g[k] = IF k = 0 THEN << >>
                    ELSE IF k \in places THEN Append(g[k - 1], s[k]) ELSE g[k - 1]
  <2>1. CASE k = n + 1
    <3>1. k # 0 /\ k - 1 = n /\ n \in 0 .. n + 1 /\ n # n + 1
      BY <2>1
    <3>2. g[k] = last /\ g[k - 1] = f[n]
      BY <2>1, <3>1
    <3>3. QED
      BY <2>1, <3>1, <3>2
  <2>2. CASE k = 0
    BY <1>1, <2>2
  <2>3. CASE k \in 1 .. n
    <3>1. /\ k \in 0 .. n /\ k - 1 \in 0 .. n /\ k # n + 1 /\ k - 1 # n + 1 /\ k # 0
          /\ k - 1 \in 0 .. n + 1
      BY <2>3
    <3>2. g[k] = f[k] /\ g[k - 1] = f[k - 1]
      BY <3>1
    <3>3. QED
      BY <1>1, <3>1, <3>2
  <2>4. QED
    BY <2>1, <2>2, <2>3
<1>3. g = [k \in 0 .. n + 1 |->
             IF k = 0 THEN << >>
             ELSE IF k \in places THEN Append(g[k - 1], s[k]) ELSE g[k - 1]]
  BY <1>2
<1>4. QED
  BY <1>3 DEF SelectedUpTo

\* So there is one at the length of the array.
LEMMA SelectedExists ==
    ASSUME NEW s, NEW places, NEW n \in Nat
    PROVE  \E f : SelectedUpTo(f, s, places, n)
<1> DEFINE T == {k \in Nat : ~\E f : SelectedUpTo(f, s, places, k)}
<1> SUFFICES ASSUME T # {} PROVE FALSE
  OBVIOUS
<1>1. PICK k \in T : \A j \in T : k <= j
  BY FirstExists
<1>2. k # 0
  <2> DEFINE f == [j \in 0 .. 0 |-> << >>]
  <2>1. f = [j \in 0 .. 0 |->
               IF j = 0 THEN << >>
               ELSE IF j \in places THEN Append(f[j - 1], s[j]) ELSE f[j - 1]]
    OBVIOUS
  <2>2. SelectedUpTo(f, s, places, 0)
    BY <2>1 DEF SelectedUpTo
  <2>3. QED
    BY <2>2
<1>3. k - 1 \in Nat /\ k - 1 \notin T
  BY <1>1, <1>2
<1>4. PICK f : SelectedUpTo(f, s, places, k - 1)
  BY <1>3
<1>5. \E g : SelectedUpTo(g, s, places, (k - 1) + 1)
  BY <1>3, <1>4, SelectedExtends
<1>6. (k - 1) + 1 = k
  BY <1>1
<1>7. QED
  BY <1>1, <1>5, <1>6

\* Selected is the last value of that solution.
LEMMA SelectedIs ==
    ASSUME NEW s, Len(s) \in Nat, NEW places
    PROVE  \E f : SelectedUpTo(f, s, places, Len(s)) /\ Selected(s, places) = f[Len(s)]
<1> DEFINE f == CHOOSE f : SelectedUpTo(f, s, places, Len(s))
<1>1. SelectedUpTo(f, s, places, Len(s))
  BY SelectedExists
<1>2. Selected(s, places) = f[Len(s)]
  BY DEF Selected, SelectedUpTo
<1>3. QED
  BY <1>1, <1>2

\* A sequence has the elements of an array at some of its first n places, in their
\* order: m gives the place of each.
Keeps(kept, s, places, n, m) ==
    /\ m \in [1 .. Len(kept) -> places \cap 1 .. n]
    /\ \A i \in 1 .. Len(kept) : kept[i] = s[m[i]]
    /\ \A i, j \in 1 .. Len(kept) : i < j => m[i] < m[j]
    /\ \A p \in places \cap 1 .. n : \E i \in 1 .. Len(kept) : m[i] = p

\* One step of the loop that appends.
LEMMA KeepsNext ==
    ASSUME NEW S, NEW s \in Seq(S), NEW places, NEW n \in 0 .. Len(s) - 1,
           NEW kept \in Seq(S), NEW m, Keeps(kept, s, places, n, m), Len(kept) <= n,
           NEW next, next = IF n + 1 \in places THEN Append(kept, s[n + 1]) ELSE kept
    PROVE  /\ next \in Seq(S) /\ Len(next) <= n + 1
           /\ \E o : Keeps(next, s, places, n + 1, o)
<1>1. /\ Len(s) \in Nat /\ n \in Nat /\ n + 1 \in 1 .. Len(s) /\ s[n + 1] \in S
      /\ Len(kept) \in Nat
  OBVIOUS
<1>2. CASE n + 1 \in places
  <2> DEFINE l == Len(kept)
             o == [i \in 1 .. l + 1 |-> IF i = l + 1 THEN n + 1 ELSE m[i]]
  <2>1. /\ next \in Seq(S) /\ Len(next) = l + 1 /\ next[l + 1] = s[n + 1]
        /\ \A i \in 1 .. l : next[i] = kept[i]
    BY <1>1, <1>2, AppendProperties
  <2>2. \A i \in 1 .. l : m[i] \in places \cap 1 .. n
    BY DEF Keeps
  <2>3. o \in [1 .. l + 1 -> places \cap 1 .. n + 1]
    <3>1. \A i \in 1 .. l + 1 : o[i] \in places \cap 1 .. n + 1
      BY <1>1, <1>2, <2>2
    <3>2. QED
      BY <3>1
  <2>4. \A i \in 1 .. l + 1 : next[i] = s[o[i]]
    BY <1>1, <2>1 DEF Keeps
  <2>5. \A i, j \in 1 .. l + 1 : i < j => o[i] < o[j]
    <3>1. SUFFICES ASSUME NEW i \in 1 .. l + 1, NEW j \in 1 .. l + 1, i < j
                   PROVE  o[i] < o[j]
      OBVIOUS
    <3>2. i \in 1 .. l /\ o[i] = m[i]
      BY <1>1, <3>1
    <3>3. CASE j = l + 1
      BY <1>1, <2>2, <3>2, <3>3
    <3>4. CASE j \in 1 .. l
      BY <1>1, <3>1, <3>2, <3>4 DEF Keeps
    <3>5. QED
      BY <1>1, <3>3, <3>4
  <2>6. \A p \in places \cap 1 .. n + 1 : \E i \in 1 .. l + 1 : o[i] = p
    <3>1. SUFFICES ASSUME NEW p \in places \cap 1 .. n + 1
                   PROVE  \E i \in 1 .. l + 1 : o[i] = p
      OBVIOUS
    <3>2. CASE p = n + 1
      <4>1. l + 1 \in 1 .. l + 1 /\ o[l + 1] = p
        BY <1>1, <3>2
      <4>2. QED
        BY <4>1
    <3>3. CASE p # n + 1
      <4>1. PICK i \in 1 .. l : m[i] = p
        BY <1>1, <3>3 DEF Keeps
      <4>2. i \in 1 .. l + 1 /\ o[i] = p
        BY <1>1, <4>1
      <4>3. QED
        BY <4>2
    <3>4. QED
      BY <3>2, <3>3
  <2> HIDE DEF o
  <2>7. Keeps(next, s, places, n + 1, o)
    BY <2>1, <2>3, <2>4, <2>5, <2>6 DEF Keeps
  <2>8. QED
    BY <1>1, <2>1, <2>7
<1>3. CASE n + 1 \notin places
  <2>1. places \cap 1 .. n + 1 = places \cap 1 .. n
    BY <1>1, <1>3
  <2>2. Keeps(next, s, places, n + 1, m)
    BY <1>3, <2>1 DEF Keeps
  <2>3. QED
    BY <1>1, <1>3, <2>2
<1>4. QED
  BY <1>2, <1>3

\* Selected has the elements at the places, all of them, in their order.
LEMMA SelectedKeeps ==
    ASSUME NEW S, NEW s \in Seq(S), NEW places
    PROVE  /\ Selected(s, places) \in Seq(S) /\ Len(Selected(s, places)) <= Len(s)
           /\ \E m : Keeps(Selected(s, places), s, places, Len(s), m)
<1>1. Len(s) \in Nat
  OBVIOUS
<1>2. PICK f : SelectedUpTo(f, s, places, Len(s)) /\ Selected(s, places) = f[Len(s)]
  BY <1>1, SelectedIs
<1> DEFINE Right(k) == /\ f[k] \in Seq(S) /\ Len(f[k]) <= k
                       /\ \E m : Keeps(f[k], s, places, k, m)
           T == {k \in 0 .. Len(s) : ~Right(k)}
<1>3. /\ f[0] = << >>
      /\ \A k \in 1 .. Len(s) :
            f[k] = IF k \in places THEN Append(f[k - 1], s[k]) ELSE f[k - 1]
  <2>1. \A k \in 0 .. Len(s) :
           f[k] = IF k = 0 THEN << >>
                  ELSE IF k \in places THEN Append(f[k - 1], s[k]) ELSE f[k - 1]
    BY <1>2 DEF SelectedUpTo
  <2>2. 0 \in 0 .. Len(s) /\ \A k \in 1 .. Len(s) : k \in 0 .. Len(s) /\ k # 0
    BY <1>1
  <2>3. QED
    BY <2>1, <2>2
<1>4. Right(0)
  <2>1. Keeps(<< >>, s, places, 0, << >>)
    BY DEF Keeps
  <2>2. QED
    BY <1>3, <2>1
<1>5. ASSUME NEW k \in 1 .. Len(s), Right(k - 1)
      PROVE  Right(k)
  <2>1. k - 1 \in 0 .. Len(s) - 1 /\ (k - 1) + 1 = k
    BY <1>1
  <2>2. PICK m : Keeps(f[k - 1], s, places, k - 1, m)
    BY <1>5
  <2>3. f[k] = IF (k - 1) + 1 \in places THEN Append(f[k - 1], s[(k - 1) + 1]) ELSE f[k - 1]
    BY <1>3, <2>1
  <2>4. /\ f[k] \in Seq(S) /\ Len(f[k]) <= (k - 1) + 1
        /\ \E o : Keeps(f[k], s, places, (k - 1) + 1, o)
    BY <1>5, <2>1, <2>2, <2>3, KeepsNext
  <2>5. QED
    BY <2>1, <2>4
<1> HIDE DEF Right
<1>6. T = {}
  <2>1. SUFFICES ASSUME T # {} PROVE FALSE
    OBVIOUS
  <2>2. PICK k \in T : \A j \in T : k <= j
    <3>1. T \in SUBSET Nat
      OBVIOUS
    <3>2. QED
      BY <2>1, <3>1, FirstExists
  <2>3. k \in 1 .. Len(s) /\ k - 1 \in 0 .. Len(s) /\ ~(k <= k - 1)
    BY <1>1, <1>4, <2>2
  <2>4. Right(k - 1)
    BY <2>2, <2>3
  <2>5. QED
    BY <1>5, <2>2, <2>3, <2>4
<1>7. Right(Len(s))
  BY <1>1, <1>6
<1>8. QED
  BY <1>2, <1>7 DEF Right

\* Nothing is selected at no place, and one element at one.
LEMMA SelectedFew ==
    ASSUME NEW S, NEW s \in Seq(S)
    PROVE  /\ Selected(s, {}) = << >>
           /\ \A p \in 1 .. Len(s) : Selected(s, {p}) = <<s[p]>>
<1>1. Selected(s, {}) = << >>
  <2>1. PICK m : Keeps(Selected(s, {}), s, {}, Len(s), m)
    BY SelectedKeeps
  <2>2. Selected(s, {}) \in Seq(S)
    BY SelectedKeeps
  <2>3. Len(Selected(s, {})) \in Nat
    BY <2>2
  <2>4. 1 \notin 1 .. Len(Selected(s, {}))
    BY <2>1 DEF Keeps
  <2>5. QED
    BY <2>2, <2>3, <2>4, EmptySeq
<1>2. ASSUME NEW p \in 1 .. Len(s)
      PROVE  Selected(s, {p}) = <<s[p]>>
  <2> DEFINE kept == Selected(s, {p})
  <2>1. PICK m : Keeps(kept, s, {p}, Len(s), m)
    BY SelectedKeeps
  <2>2. kept \in Seq(S)
    BY SelectedKeeps
  <2> HIDE DEF kept
  <2>3. Len(kept) \in Nat /\ s[p] \in S
    BY <2>2
  <2>4. \A i \in 1 .. Len(kept) : m[i] = p
    BY <2>1 DEF Keeps
  <2>5. PICK i \in 1 .. Len(kept) : m[i] = p
    BY <2>1 DEF Keeps
  <2>6. ~(2 <= Len(kept))
    <3>1. SUFFICES ASSUME 2 <= Len(kept) PROVE FALSE
      OBVIOUS
    <3>2. 1 \in 1 .. Len(kept) /\ 2 \in 1 .. Len(kept) /\ 1 < 2
      BY <2>3, <3>1
    <3>3. m[1] < m[2] /\ m[1] = p /\ m[2] = p
      BY <2>1, <2>4, <3>2 DEF Keeps
    <3>4. QED
      BY <3>3
  <2>7. Len(kept) = 1 /\ 1 \in 1 .. Len(kept)
    <3>1. \A n \in Nat : i \in 1 .. n /\ ~(2 <= n) => n = 1
      OBVIOUS
    <3>2. Len(kept) = 1
      BY <2>3, <2>6, <3>1
    <3>3. QED
      BY <3>2
  <2>8. kept[1] = s[p]
    BY <2>1, <2>4, <2>7 DEF Keeps
  <2>9. /\ <<s[p]>> \in Seq(S) /\ Len(<<s[p]>>) = 1
        /\ \A j \in 1 .. 1 : kept[j] = <<s[p]>>[j]
    BY <2>3, <2>8
  <2>10. kept = <<s[p]>>
    BY <2>2, <2>7, <2>9, SeqEqual
  <2>11. QED
    BY <2>10 DEF kept
<1>3. QED
  BY <1>1, <1>2
=============================================================================
