------------------------------- MODULE Arrays -------------------------------
(***************************************************************************)
(* What the code uses odTrivialArray for, client/src/od/core/array.cpp, as *)
(* an operation on the sequence of its elements, and the loop that appends *)
(* to an array what it keeps of another.                                   *)
(***************************************************************************)
EXTENDS Integers, Sequences

\* SwapPop that drops the last element whichever was asked for (a mutated form).
PopLast(s, i) == [k \in 1 .. Len(s) - 1 |-> s[k]]

\* odTrivialArray_swap_pop: the last element takes the place of the i-th.
SwapPop(s, i) == [k \in 1 .. Len(s) - 1 |-> IF k = i THEN s[Len(s)] ELSE s[k]]

\* The elements of an array at some of its places, in their order.
Selected(s, places) ==
    LET upTo[k \in 0 .. Len(s)] ==
            IF k = 0 THEN << >>
            ELSE IF k \in places THEN Append(upTo[k - 1], s[k]) ELSE upTo[k - 1]
    IN  upTo[Len(s)]
=============================================================================
