---------------------------- MODULE SampleVariant ----------------------------
(***************************************************************************)
(* sample_variant (function.rs): the weighted draw without replacement that *)
(* the inference and batch endpoints call until a variant succeeds.  All    *)
(* draws of one request use the same hash of function name and episode id.  *)
(*                                                                          *)
(* Weights are integers, and the uniform value h / u32::MAX is kept as the  *)
(* pair h, MaxHash: `cumulative > u * total` is compared multiplied by      *)
(* MaxHash.  In f64 the products are exact to far less than total / 2^32,   *)
(* and the last cumulative weight is the total (the same sum in the same    *)
(* order), so no draw with h < MaxHash is rounded past the last candidate.  *)
(***************************************************************************)
EXTENDS Naturals, Sequences, FiniteSets, Functions, SequencesExt, Vectors

CONSTANTS Variants,   \* the variants of the function
          MaxWeight,  \* bound: weights
          MaxHash     \* u32::MAX

ASSUME SampleAssumption ==
    IsFiniteSet(Variants) /\ MaxWeight \in Nat /\ MaxHash \in Nat \ {0}

VARIABLES weight,  \* weight.unwrap_or(0.0) of each variant
          hash,    \* truncated_hash
          asked,   \* the candidates of the first call
          names,   \* candidate_variant_names
          drawn,   \* what the calls returned so far
          failed   \* what ended the calls: "no", "error" or "panic"

vars == <<weight, hash, asked, names, drawn, failed>>

\* Candidates come in the order of a HashMap's keys: in any order.
Init ==
    /\ weight \in [Variants -> 0 .. MaxWeight]
    /\ hash \in 0 .. MaxHash
    /\ asked \in (SUBSET Variants) \ {{}}
    /\ names \in SetToSeqs(asked)
    /\ drawn = << >>
    /\ failed = "no"

-----------------------------------------------------------------------------
\* The weight of the first n names.
Cumulative(s, n) == PartialSums([i \in 1 .. Len(s) |-> weight[s[i]]])[n]

TotalWeight(s) == Cumulative(s, Len(s))

\* The positions whose cumulative weight exceeds the threshold; the loop stops at the
\* first.
Above(s, h) ==
    {i \in 1 .. Len(s) : Cumulative(s, i) * MaxHash > h * TotalWeight(s)}

\* The weighted draw; past the end it takes index variants.len() - 1.
WeightedPosition(s, h) ==
    IF Above(s, h) # {} THEN CHOOSE i \in Above(s, h) : \A j \in Above(s, h) : i <= j
                        ELSE Cardinality(Variants)

\* Mutant: the index is rounded up.
UniformPosition_RoundedUp(s, h) == ((h * Len(s) + MaxHash - 1) \div MaxHash) + 1

\* The uniform draw: floor(u * len).
UniformPosition(s, h) == ((h * Len(s)) \div MaxHash) + 1

Position(s, h) ==
    IF TotalWeight(s) > 0 THEN WeightedPosition(s, h) ELSE UniformPosition(s, h)

-----------------------------------------------------------------------------
\* Mutant: after the first failure the weights are forgotten.
Draw_UniformFallback ==
    LET at == IF drawn = << >> THEN Position(names, hash) ELSE UniformPosition(names, hash)
    IN  /\ names # << >> /\ failed = "no"
        /\ at <= Len(names)
        /\ drawn' = Append(drawn, names[at])
        /\ names' = SwapRemove(names, at)
        /\ UNCHANGED <<weight, hash, asked, failed>>

\* One call that returns a variant; the caller calls again if the variant fails.
Draw ==
    /\ names # << >> /\ failed = "no"
    /\ Position(names, hash) <= Len(names)
    /\ drawn' = Append(drawn, names[Position(names, hash)])
    /\ names' = SwapRemove(names, Position(names, hash))
    /\ UNCHANGED <<weight, hash, asked, failed>>

\* The uniform draw checks its index; swap_remove panics.
DrawFails ==
    /\ names # << >> /\ failed = "no"
    /\ Position(names, hash) > Len(names)
    /\ failed' = IF TotalWeight(names) > 0 THEN "panic" ELSE "error"
    /\ UNCHANGED <<weight, hash, asked, names, drawn>>

Finished == (names = << >> \/ failed # "no") /\ UNCHANGED vars

Next == Draw \/ DrawFails \/ Finished

Spec == Init /\ [][Next]_vars

-----------------------------------------------------------------------------
(***************************************************************************)
(* Properties                                                               *)
(***************************************************************************)

\* Repeated draws return every candidate at most once and lose none, though swap_remove
\* reorders the rest; and while a candidate with a positive weight is left, no other is
\* returned, whatever the order of the names; only the hash u32::MAX can draw another one.
WeightedFirst ==
    /\ Range(drawn) \cup Range(names) = asked
    /\ Len(drawn) + Len(names) = Cardinality(asked)
    /\ hash < MaxHash =>
          \A i, j \in 1 .. Len(drawn) : i < j /\ weight[drawn[j]] > 0 => weight[drawn[i]] > 0

\* The hashes below u32::MAX that draw a candidate are as many as its share of the
\* weight (or an equal share, if none has weight), to less than one hash.
Proportional ==
    names # << >> =>
        LET share(v) == IF TotalWeight(names) > 0 THEN weight[v] ELSE 1
            total == IF TotalWeight(names) > 0 THEN TotalWeight(names) ELSE Len(names)
            hits(i) == Cardinality({h \in 0 .. (MaxHash - 1) : Position(names, h) = i})
        IN  \A i \in 1 .. Len(names) :
                /\ hits(i) * total < MaxHash * share(names[i]) + total
                /\ hits(i) * total + total > MaxHash * share(names[i])
=============================================================================
