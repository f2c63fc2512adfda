------------------------------- MODULE Vectors -------------------------------
(***************************************************************************)
(* What the models do with a Vec: running sums, the elements a loop keeps,  *)
(* concatenation, swap_remove.  Loops are recursive functions of the        *)
(* number of rounds.                                                        *)
(***************************************************************************)
EXTENDS Naturals, Sequences

\* The sums of the first n elements.
PartialSums(s) ==
    LET sum[n \in 0 .. Len(s)] == IF n = 0 THEN 0 ELSE sum[n - 1] + s[n] IN sum

Sum(s) == PartialSums(s)[Len(s)]

\* The positions up to k that are in S, in order.
Selections(n, S) ==
    LET selected[k \in 0 .. n] ==
            IF k = 0 THEN << >>
            ELSE IF k \in S THEN Append(selected[k - 1], k) ELSE selected[k - 1]
    IN  selected

Select(n, S) == Selections(n, S)[n]

\* The first n sequences, one after the other.
Concatenations(s) ==
    LET all[n \in 0 .. Len(s)] == IF n = 0 THEN << >> ELSE all[n - 1] \o s[n] IN all

Flatten(s) == Concatenations(s)[Len(s)]

\* The elements that are in S, in order.
Filter(s, S) == Flatten([i \in DOMAIN s |-> IF s[i] \in S THEN <<s[i]>> ELSE << >>])

\* Vec::swap_remove of the element at i (from 1).
SwapRemove(s, i) == [k \in 1 .. (Len(s) - 1) |-> IF k = i THEN s[Len(s)] ELSE s[k]]
=============================================================================
