---------------------------- MODULE VariantProofs ----------------------------
(***************************************************************************)
(* Theorems about the components that go through lists: the draw of a       *)
(* variant (SampleVariant), the token accounting of a stream (StreamUsage), *)
(* and best-of-n and mixture-of-n (CandidateVariants).  What a loop         *)
(* computes (a sum, a selection, a concatenation, an index) is proved by    *)
(* induction, in the form that every set of natural numbers has a least     *)
(* element.                                                                 *)
(***************************************************************************)
EXTENDS StreamUsage, SampleVariant, CandidateVariants, SequenceTheorems, FiniteSetTheorems,
        WellFoundedInduction, TLAPS

-----------------------------------------------------------------------------
(***************************************************************************)
(* Sums                                                                     *)
(***************************************************************************)

\* Induction, as the least element of a set of numbers.
LEMMA Least ==
    ASSUME NEW T, T \subseteq Nat, T # {}
    PROVE  \E x \in T : \A y \in T : x <= y
<1> DEFINE R == OpToRel(<, Nat)
<1>1. IsWellFoundedOn(R, Nat)
  BY NatLessThanWellFounded
<1>2. \A x, y \in Nat : x < y => <<x, y>> \in R
  BY DEF OpToRel
<1> HIDE DEF R
<1>3. PICK x \in T : \A y \in T : ~(<<y, x>> \in R)
  BY <1>1, WFMin
<1>4. \A y \in T : ~(y < x)
  BY <1>2, <1>3
<1>5. \A y \in T : x <= y
  BY <1>4
<1> QED
  BY <1>5

AreSums(f, s, n) == f = [i \in 0 .. n |-> IF i = 0 THEN 0 ELSE f[i - 1] + s[i]]

\* The recursive definition of the sums is satisfied by some function.
LEMMA SumsExist ==
    ASSUME NEW s, NEW n \in Nat
    PROVE  \E f : AreSums(f, s, n)
<1> DEFINE T == {k \in Nat : ~\E f : AreSums(f, s, k)}
<1> SUFFICES ASSUME T # {}
             PROVE  FALSE
  OBVIOUS
<1>1. PICK k \in T : \A j \in T : k <= j
  BY Least
<1>2. k # 0
  <2>1. AreSums([i \in 0 .. 0 |-> 0], s, 0)
    BY DEF AreSums
  <2> QED
    BY <2>1
<1>3. PICK f : AreSums(f, s, k - 1)
  BY <1>1, <1>2
<1> DEFINE h == [i \in 0 .. k |-> IF i = k THEN f[k - 1] + s[k] ELSE f[i]]
<1>4. \A i \in 0 .. k : h[i] = IF i = 0 THEN 0 ELSE h[i - 1] + s[i]
  BY <1>1, <1>2, <1>3 DEF AreSums
<1>5. AreSums(h, s, k)
  BY <1>4 DEF AreSums
<1> QED
  BY <1>1, <1>5

\* The recursive definition defines the sums.
LEMMA SumsUnfold ==
    ASSUME NEW s \in Seq(Nat)
    PROVE  /\ PartialSums(s) \in [0 .. Len(s) -> Nat]
           /\ PartialSums(s)[0] = 0
           /\ \A i \in 1 .. Len(s) : PartialSums(s)[i] = PartialSums(s)[i - 1] + s[i]
<1> DEFINE f == PartialSums(s)
           n == Len(s)
<1>1. AreSums(f, s, n)
  <2>1. n \in Nat
    OBVIOUS
  <2>2. PICK g : AreSums(g, s, n)
    <3> HIDE DEF n
    <3> QED
      BY <2>1, SumsExist
  <2> QED
    BY <2>2 DEF PartialSums, AreSums
<1> HIDE DEF f
<1>2. /\ DOMAIN f = 0 .. Len(s) /\ f[0] = 0 /\ Len(s) \in Nat
      /\ \A i \in 1 .. Len(s) : f[i] = f[i - 1] + s[i] /\ s[i] \in Nat
  <2>1. n \in Nat /\ \A i \in 1 .. n : s[i] \in Nat
    OBVIOUS
  <2> HIDE DEF n
  <2>2. DOMAIN f = 0 .. n
    BY <1>1 DEF AreSums
  <2>3. \A i \in 0 .. n : f[i] = IF i = 0 THEN 0 ELSE f[i - 1] + s[i]
    <3> DEFINE v(i) == IF i = 0 THEN 0 ELSE f[i - 1] + s[i]
    <3>1. f = [i \in 0 .. n |-> v(i)]
      BY <1>1 DEF AreSums
    <3> HIDE DEF v
    <3>2. \A i \in 0 .. n : f[i] = v(i)
      BY <3>1
    <3> QED
      BY <3>2 DEF v
  <2> QED
    BY <2>1, <2>2, <2>3 DEF n
<1>3. \A i \in 0 .. Len(s) : f[i] \in Nat
  <2> DEFINE T == {i \in 0 .. Len(s) : f[i] \notin Nat}
  <2> SUFFICES ASSUME T # {}
               PROVE  FALSE
    OBVIOUS
  <2>0. T \subseteq Nat
    BY <1>2
  <2>1. PICK i \in T : \A j \in T : i <= j
    <3> HIDE DEF T
    <3> QED
      BY <2>0, Least
  <2>2. i # 0 /\ i \in 1 .. Len(s)
    BY <1>2, <2>1
  <2>3. f[i - 1] \in Nat
    BY <2>1, <2>2
  <2>4. f[i] = f[i - 1] + s[i] /\ s[i] \in Nat
    BY <1>2, <2>2
  <2>5. f[i] \in Nat
    BY <2>3, <2>4
  <2> QED
    BY <2>1, <2>5
<1>4. f \in [0 .. Len(s) -> Nat]
  BY <1>1, <1>3 DEF AreSums
<1> QED
  BY <1>2, <1>4 DEF f

\* Sums of equal numbers are equal.
LEMMA SumsAgree ==
    ASSUME NEW s \in Seq(Nat), NEW t \in Seq(Nat), NEW n \in 0 .. Len(s), n <= Len(t),
           \A i \in 1 .. n : s[i] = t[i]
    PROVE  PartialSums(s)[n] = PartialSums(t)[n]
<1> DEFINE T == {i \in 0 .. n : PartialSums(s)[i] # PartialSums(t)[i]}
<1> SUFFICES ASSUME T # {}
             PROVE  FALSE
  OBVIOUS
<1>0. T \subseteq Nat /\ Len(s) \in Nat
  OBVIOUS
<1>1. PICK i \in T : \A j \in T : i <= j
  <2> HIDE DEF T
  <2> QED
    BY <1>0, Least
<1>2. i # 0
  BY <1>1, SumsUnfold
<1>3. i - 1 \in 0 .. n /\ i \in 1 .. n /\ PartialSums(s)[i - 1] = PartialSums(t)[i - 1]
  BY <1>1, <1>2
<1>4. PartialSums(s)[i] = PartialSums(s)[i - 1] + s[i] /\ PartialSums(t)[i] = PartialSums(t)[i - 1] + t[i]
  BY <1>3, SumsUnfold
<1> QED
  BY <1>1, <1>3, <1>4

\* A number appended to a list is added to its sum.
LEMMA SumAppend ==
    ASSUME NEW s \in Seq(Nat), NEW x \in Nat
    PROVE  Sum(Append(s, x)) = Sum(s) + x /\ Sum(s) \in Nat
<1> DEFINE t == Append(s, x)
           n == Len(s)
<1>1. t \in Seq(Nat) /\ Len(t) = n + 1 /\ n \in Nat /\ t[n + 1] = x /\ \A i \in 1 .. n : t[i] = s[i]
  OBVIOUS
<1> HIDE DEF t
<1>2. PartialSums(t)[n + 1] = PartialSums(t)[n] + x
  <2>1. \A i \in 1 .. Len(t) : PartialSums(t)[i] = PartialSums(t)[i - 1] + t[i]
    BY <1>1, SumsUnfold
  <2> QED
    BY <1>1, <2>1
<1>3. PartialSums(s)[n] = PartialSums(t)[n]
  <2>1. n \in 0 .. Len(s) /\ n <= Len(t) /\ \A i \in 1 .. n : s[i] = t[i]
    BY <1>1
  <2> HIDE DEF n
  <2> QED
    BY <1>1, <2>1, SumsAgree
<1>4. Sum(s) \in Nat
  <2>1. PartialSums(s) \in [0 .. n -> Nat]
    BY SumsUnfold
  <2> QED
    BY <1>1, <2>1 DEF Sum
<1> QED
  BY <1>1, <1>2, <1>3, <1>4 DEF Sum, t

\* Sums of natural numbers never decrease.
LEMMA SumsGrow ==
    ASSUME NEW s \in Seq(Nat), NEW i \in 0 .. Len(s), NEW j \in 0 .. Len(s), i <= j
    PROVE  PartialSums(s)[i] <= PartialSums(s)[j]
<1> DEFINE T == {k \in i .. Len(s) : ~(PartialSums(s)[i] <= PartialSums(s)[k])}
<1> SUFFICES ASSUME T # {}
             PROVE  FALSE
  BY DEF T
<1>0. T \subseteq Nat /\ Len(s) \in Nat
  OBVIOUS
<1>1. PICK k \in T : \A l \in T : k <= l
  <2> HIDE DEF T
  <2> QED
    BY <1>0, Least
<1>2. PartialSums(s) \in [0 .. Len(s) -> Nat]
  BY SumsUnfold
<1>3. k # i
  BY <1>1, <1>2
<1>4. k \in 1 .. Len(s) /\ k - 1 \in i .. Len(s) /\ k - 1 \notin T
  BY <1>1, <1>3
<1>5. PartialSums(s)[k] = PartialSums(s)[k - 1] + s[k] /\ s[k] \in Nat
  BY <1>4, SumsUnfold
<1>6. PartialSums(s)[i] <= PartialSums(s)[k - 1]
  BY <1>4
<1>7. PartialSums(s)[i] \in Nat /\ PartialSums(s)[k - 1] \in Nat
  <2>1. i \in 0 .. Len(s) /\ k - 1 \in 0 .. Len(s)
    BY <1>0, <1>4
  <2> QED
    BY <1>2, <2>1
<1>8. PartialSums(s)[i] <= PartialSums(s)[k]
  BY <1>5, <1>6, <1>7
<1> QED
  BY <1>1, <1>8

-----------------------------------------------------------------------------
(***************************************************************************)
(* The usage of a stream                                                    *)
(***************************************************************************)
Numbers == Nat \cup {None}

\* The chunks of a buffer: those of the model's stream, and that of extra_usage.
Buffered == [empty : BOOLEAN, usage : Numbers]

\* A chunk appended to a list adds its own tokens to the usage.
LEMMA UsageAppend ==
    ASSUME NEW s \in Seq(Buffered), NEW c \in Buffered
    PROVE  /\ TotalUsage(Append(s, c)) = TotalUsage(s) + UsageOrZero(c.usage)
           /\ TotalUsage(s) \in Nat /\ UsageOrZero(c.usage) \in Nat
<1> DEFINE u(t) == [i \in DOMAIN t |-> UsageOrZero(t[i].usage)]
<1>1. \A d \in Buffered : UsageOrZero(d.usage) \in Nat
  BY DEF Buffered, Numbers, UsageOrZero
<1>2. u(s) \in Seq(Nat)
  BY <1>1
<1>3. u(Append(s, c)) = Append(u(s), UsageOrZero(c.usage))
  OBVIOUS
<1>4. \A t : TotalUsage(t) = Sum(u(t))
  BY DEF TotalUsage
<1> HIDE DEF u
<1> QED
  BY <1>1, <1>2, <1>3, <1>4, SumAppend

\* The usage of the earlier calls is a number.
LEMMA PreviousIsNumber ==
    ASSUME NEW R, R \subseteq [usage : Nat, cached : BOOLEAN], prev \in Seq(R)
    PROVE  /\ PreviousUsage \in Nat
           /\ PreviousUsage = Sum([i \in DOMAIN prev |-> IF prev[i].cached THEN 0 ELSE prev[i].usage])
<1> DEFINE u == [i \in DOMAIN prev |-> IF prev[i].cached THEN 0 ELSE prev[i].usage]
<1>1. u \in Seq(Nat)
  <2>1. \A i \in 1 .. Len(prev) : prev[i] \in [usage : Nat, cached : BOOLEAN]
    OBVIOUS
  <2>2. \A i \in 1 .. Len(prev) : (IF prev[i].cached THEN 0 ELSE prev[i].usage) \in Nat
    BY <2>1
  <2> QED
    BY <2>2
<1>2. PreviousUsage = Sum(u)
  BY DEF PreviousUsage, UsageConsideringCached
<1> HIDE DEF u
<1>3. Sum(u) \in Nat
  BY <1>1, SumAppend
<1> QED
  BY <1>2, <1>3 DEF u

\* Until the stream ends, everything received is buffered and what extra_usage holds is
\* still to be reported; then the buffer may have a chunk for it.
StreamInv ==
    /\ cached \in BOOLEAN /\ pc \in {"streaming", "storing", "done"}
    /\ prev \in Seq([usage : Nat, cached : BOOLEAN])
    /\ received \in Seq(Buffered) /\ buffer \in Seq(Buffered)
    /\ reported \in Nat
    /\ extra \in {None, PreviousUsage}
    /\ pc = "streaming" =>
           /\ buffer = received /\ stored = None
           /\ ~cached => reported + UsageOrZero(extra) = TotalUsage(received) + PreviousUsage
           /\ cached => reported + UsageOrZero(extra) <= PreviousUsage
    /\ pc # "streaming" =>
           /\ TotalUsage(buffer) \in
                  {TotalUsage(received), TotalUsage(received) + PreviousUsage}
           /\ ~cached => reported = TotalUsage(received) + PreviousUsage
           /\ cached => reported <= PreviousUsage
    /\ stored \in {None, TotalUsage(buffer)}

\* No chunk, no usage.
LEMMA EmptyUsage == TotalUsage(<< >>) = 0
<1>1. TotalUsage(<< >>) = Sum(<< >>)
  BY DEF TotalUsage
<1>2. << >> \in Seq(Nat) /\ Len(<< >>) = 0
  OBVIOUS
<1> QED
  BY <1>1, <1>2, SumsUnfold DEF Sum

\* A stream starts with nothing received, reported or stored.
LEMMA InitIsAccounted == ASSUME StreamInit PROVE StreamInv
<1>1. prev \in Seq([usage : Nat, cached : BOOLEAN])
  <2>1. PICK m \in 0 .. MaxPrev : prev \in [1 .. m -> [usage : 0 .. MaxTokens, cached : BOOLEAN]]
    BY DEF StreamInit, BoundedSeq, SeqOf, Tokens
  <2>2. m \in Nat /\ [usage : 0 .. MaxTokens, cached : BOOLEAN] \subseteq [usage : Nat, cached : BOOLEAN]
    BY <2>1, UsageAssumption DEF UsageAssumption
  <2>3. prev \in [1 .. m -> [usage : Nat, cached : BOOLEAN]]
    BY <2>1, <2>2
  <2> DEFINE R == [usage : Nat, cached : BOOLEAN]
  <2> HIDE DEF R
  <2>4. \A f \in [1 .. m -> R] : f \in Seq(R)
    BY <2>2
  <2> QED
    BY <2>3, <2>4 DEF R
<1>2. PreviousUsage \in Nat
  BY <1>1, PreviousIsNumber
<1> QED
  BY <1>1, <1>2, EmptyUsage, UsageAssumption DEF StreamInit, StreamInv, UsageOrZero, UsageAssumption

\* Every step of a stream keeps the account.
LEMMA StepIsAccounted ==
    ASSUME StreamInv, [StreamNext]_streamVars
    PROVE  StreamInv'
<1>1. PreviousUsage \in Nat
  BY PreviousIsNumber DEF StreamInv
<1>2. /\ TotalUsage(received) \in Nat /\ TotalUsage(buffer) \in Nat
      /\ None \notin Nat
  <2>1. [empty |-> TRUE, usage |-> 0] \in Buffered
    BY DEF Buffered, Numbers
  <2> QED
    BY <2>1, UsageAppend, UsageAssumption DEF StreamInv, UsageAssumption
<1>3. CASE Chunk
  <2>1. PICK chunk \in Chunks :
            /\ received' = Append(received, chunk)
            /\ buffer' = Append(buffer, chunk)
            /\ reported' = reported + Reported(chunk, extra)
            /\ extra' = IF TakesExtra(chunk) THEN None ELSE extra
    BY <1>3 DEF Chunk
  <2>2. chunk \in Buffered /\ UNCHANGED <<cached, prev, pc, stored>> /\ pc = "streaming"
    BY <1>3, UsageAssumption DEF Chunk, Chunks, Tokens, Buffered, Numbers, UsageAssumption
  <2> DEFINE total == TotalUsage(received)
             u == UsageOrZero(chunk.usage)
             before == UsageOrZero(extra)
             after == UsageOrZero(extra')
             r == Reported(chunk, extra)
  <2>3. TotalUsage(received') = total + u /\ u \in Nat
    BY <2>1, <2>2, UsageAppend DEF StreamInv
  <2>4. before \in Nat /\ after \in Nat
    BY <1>1, <2>1 DEF StreamInv, UsageOrZero
  <2>5. ~cached => r + after = u + before /\ r \in Nat
    <3> SUFFICES ASSUME ~cached
                 PROVE  r + after = u + before /\ r \in Nat
      OBVIOUS
    <3>1. ResultUsage(chunk) = chunk.usage
      BY DEF ResultUsage
    <3>2. UsageOrZero(None) = 0
      BY DEF UsageOrZero
    <3>3. CASE chunk.usage = None
      <4>1. r = 0 /\ after = before /\ u = 0
        BY <2>1, <3>1, <3>2, <3>3 DEF Reported, TakesExtra
      <4> HIDE DEF r, after, before, u
      <4> QED
        BY <2>4, <4>1
    <3>4. CASE chunk.usage # None /\ chunk.empty
      <4>1. r = u + before /\ after = 0
        BY <2>1, <3>1, <3>2, <3>4 DEF Reported, TakesExtra, Dropped
      <4> HIDE DEF r, after, before, u
      <4> QED
        BY <2>3, <2>4, <4>1
    <3>5. CASE chunk.usage # None /\ ~chunk.empty
      <4>1. r = u + 0 /\ after = before
        BY <2>1, <3>1, <3>5 DEF Reported, TakesExtra, Dropped
      <4> HIDE DEF r, after, before, u
      <4> QED
        BY <2>3, <2>4, <4>1
    <3> QED
      BY <3>3, <3>4, <3>5
  <2>6. cached => r + after <= before /\ r \in Nat
    <3> SUFFICES ASSUME cached
                 PROVE  r + after <= before /\ r \in Nat
      OBVIOUS
    <3>1. ResultUsage(chunk) = 0 /\ (TakesExtra(chunk) <=> chunk.empty)
      BY <1>2, <2>2 DEF ResultUsage, TakesExtra, Buffered
    <3>2. UsageOrZero(0) = 0 /\ UsageOrZero(None) = 0
      BY DEF UsageOrZero
    <3>3. CASE chunk.empty
      <4>1. r \in {0, before} /\ after = 0
        BY <2>1, <2>4, <3>1, <3>2, <3>3 DEF Reported
      <4> HIDE DEF r, after, before
      <4> QED
        BY <2>4, <4>1
    <3>4. CASE ~chunk.empty
      <4>1. r = 0 /\ after = before
        BY <2>1, <3>1, <3>2, <3>4 DEF Reported
      <4> HIDE DEF r, after, before
      <4> QED
        BY <2>4, <4>1
    <3> QED
      BY <3>3, <3>4
  <2>7. PreviousUsage' = PreviousUsage
    BY <2>2 DEF PreviousUsage, UsageConsideringCached
  <2>8. received' \in Seq(Buffered) /\ buffer' = received'
    BY <2>1, <2>2 DEF StreamInv
  <2>9. /\ ~cached => reported' + after = (total + u) + PreviousUsage
        /\ cached => reported' + after <= PreviousUsage
        /\ reported' \in Nat
    <3>1. /\ reported \in Nat /\ reported' = reported + r
          /\ ~cached => reported + before = total + PreviousUsage
          /\ cached => reported + before <= PreviousUsage
          /\ cached \in BOOLEAN
      BY <2>1, <2>2 DEF StreamInv
    <3> HIDE DEF total, u, before, after, r
    <3>2. total \in Nat
      BY <1>2 DEF total
    <3> QED
      BY <1>1, <2>3, <2>4, <2>5, <2>6, <3>1, <3>2
  <2> QED
    BY <2>1, <2>2, <2>3, <2>7, <2>8, <2>9 DEF StreamInv
<1>4. CASE StreamEnds
  <2>1. /\ pc = "streaming" /\ pc' = "storing" /\ UNCHANGED <<cached, prev, extra, received, stored>>
        /\ buffer = received /\ stored = None
    BY <1>4 DEF StreamEnds, StreamInv
  <2>2. PreviousUsage' = PreviousUsage
    BY <2>1 DEF PreviousUsage, UsageConsideringCached
  <2>3. CASE extra = None
    BY <1>1, <1>2, <1>4, <2>1, <2>2, <2>3 DEF StreamEnds, StreamInv, UsageOrZero
  <2>4. CASE extra # None
    <3> DEFINE chunk == [empty |-> TRUE, usage |-> extra]
    <3>1. extra = PreviousUsage /\ extra \in Nat
      BY <1>1, <2>4 DEF StreamInv
    <3>2. chunk \in Buffered
      BY <3>1 DEF Buffered, Numbers
    <3>3. /\ buffer' = Append(received, chunk)
          /\ reported' = reported + Reported(chunk, None)
      BY <1>4, <2>1, <2>4 DEF StreamEnds
    <3>4. Reported(chunk, None) = IF cached THEN 0 ELSE extra
      BY <1>2, <3>1 DEF Reported, Dropped, TakesExtra, ResultUsage, UsageOrZero
    <3>5. UsageOrZero(extra) = extra
      BY <2>4 DEF UsageOrZero
    <3>6. TotalUsage(buffer') = TotalUsage(received) + extra
      BY <3>2, <3>3, <3>5, UsageAppend DEF StreamInv
    <3>7. buffer' \in Seq(Buffered)
      BY <3>2, <3>3 DEF StreamInv
    <3>8. /\ reported' \in Nat
          /\ ~cached => reported' = TotalUsage(received) + PreviousUsage
          /\ cached => reported' <= PreviousUsage
      BY <1>1, <1>2, <2>1, <3>1, <3>3, <3>4, <3>5 DEF StreamInv
    <3> QED
      BY <2>1, <2>2, <3>1, <3>6, <3>7, <3>8 DEF StreamInv
  <2> QED
    BY <2>3, <2>4
<1>5. CASE CollectChunks
  <2>1. /\ pc = "storing" /\ pc' = "done" /\ stored' \in {None, TotalUsage(buffer)}
        /\ UNCHANGED <<cached, prev, extra, buffer, received, reported>>
    BY <1>5 DEF CollectChunks
  <2>2. PreviousUsage' = PreviousUsage
    BY <2>1 DEF PreviousUsage, UsageConsideringCached
  <2> QED
    BY <2>1, <2>2 DEF StreamInv
<1>6. CASE UNCHANGED streamVars
  <2>1. UNCHANGED <<cached, prev, pc, extra, buffer, received, reported, stored>>
    BY <1>6 DEF streamVars
  <2>2. PreviousUsage' = PreviousUsage
    BY <2>1 DEF PreviousUsage, UsageConsideringCached
  <2> QED
    BY <2>1, <2>2 DEF StreamInv
<1> QED
  BY <1>3, <1>4, <1>5, <1>6 DEF StreamNext, StreamFinished

\* The inductive invariant of a stream's accounting, for streams of any length.
THEOREM StreamInvariance == StreamSpec => []StreamInv
<1>1. StreamInit => StreamInv
  BY InitIsAccounted
<1>2. StreamInv /\ [StreamNext]_streamVars => StreamInv'
  BY StepIsAccounted
<1> QED
  BY <1>1, <1>2, PTL DEF StreamSpec

\* The client is never reported more tokens than it is billed, and all of them by a stream
\* that was not cached (create_stream and InferenceResponseChunk::new).
THEOREM UsageIsBilled == StreamSpec => []ReportedIsBilled
<1>1. StreamInv => ReportedIsBilled
  <2> SUFFICES ASSUME StreamInv
               PROVE  ReportedIsBilled
    OBVIOUS
  <2>1. PreviousUsage \in Nat /\ Billed = (IF cached THEN 0 ELSE TotalUsage(received)) + PreviousUsage
    BY PreviousIsNumber DEF StreamInv, Billed
  <2>2. TotalUsage(received) \in Nat
    <3>1. [empty |-> TRUE, usage |-> 0] \in Buffered
      BY DEF Buffered, Numbers
    <3> QED
      BY <3>1, UsageAppend DEF StreamInv
  <2>3. UsageOrZero(extra) \in Nat
    BY <2>1 DEF StreamInv, UsageOrZero
  <2> QED
    BY <2>1, <2>2, <2>3 DEF StreamInv, ReportedIsBilled
<1> QED
  BY <1>1, StreamInvariance, PTL

\* The row stored for a stream has the tokens of all its chunks, and those of the previous
\* results at most once (collect_chunks).
THEOREM StoredUsageIsWhole == StreamSpec => []StoredCoversUsage
<1>1. StreamInv => StoredCoversUsage
  BY DEF StreamInv, StoredCoversUsage
<1> QED
  BY <1>1, StreamInvariance, PTL

-----------------------------------------------------------------------------
(***************************************************************************)
(* Draws                                                                    *)
(***************************************************************************)
LEMMA Products ==
    /\ \A a, b \in Nat : a * b \in Nat
    /\ \A a, b, c \in Nat : a <= b => a * c <= b * c
    /\ \A a, b, c \in Nat : a < b /\ c > 0 => a * c < b * c
    /\ \A a, b, c \in Nat : a * c < b * c => a < b
    /\ \A a, b \in Nat : (a + 1) * b = a * b + b
    /\ \A a, b \in Nat : a > 0 => (a - 1) * b = a * b - b
<1>1. \A a, b \in Nat : a * b \in Nat
  OBVIOUS
<1>2. \A a, b, c \in Nat : a <= b => a * c <= b * c
  OBVIOUS
<1>3. \A a, b, c \in Nat : a < b /\ c > 0 => a * c < b * c
  OBVIOUS
<1>4. \A a, b, c \in Nat : a * c < b * c => a < b
  OBVIOUS
<1>5. \A a, b \in Nat : (a + 1) * b = a * b + b
  OBVIOUS
<1>6. \A a, b \in Nat : a > 0 => (a - 1) * b = a * b - b
  OBVIOUS
<1> QED
  BY <1>1, <1>2, <1>3, <1>4, <1>5, <1>6

\* A number is its quotient and its remainder.
LEMMA Division ==
    ASSUME NEW a \in Nat, NEW m \in Nat \ {0}
    PROVE  a \div m \in Nat /\ (a \div m) * m <= a /\ a < (a \div m) * m + m
  OBVIOUS

\* The first position where a growing function is above q.
LEMMA FirstAbove ==
    ASSUME NEW n \in Nat \ {0}, NEW d \in [0 .. n -> Nat], NEW q \in Nat, d[0] <= q,
           \A i, j \in 0 .. n : i <= j => d[i] <= d[j],
           NEW p \in 1 .. n, d[p] > q, \A j \in 1 .. n : d[j] > q => p <= j
    PROVE  \A i \in 1 .. n : p = i <=> d[i - 1] <= q /\ q < d[i]
<1>1. \A i \in 1 .. n : i - 1 \in 0 .. n /\ i \in 0 .. n
  OBVIOUS
<1>2. d[p - 1] <= q
  <2>1. CASE p = 1
    BY <2>1
  <2>2. CASE p # 1
    <3>1. p - 1 \in 1 .. n /\ ~(p <= p - 1)
      BY <2>2
    <3>2. ~(d[p - 1] > q)
      BY <3>1
    <3> QED
      BY <1>1, <3>2
  <2> QED
    BY <2>1, <2>2
<1>3. ASSUME NEW i \in 1 .. n, d[i - 1] <= q, q < d[i]
      PROVE  p = i
  <2>1. d[i] \in Nat /\ d[i - 1] \in Nat /\ d[p] \in Nat
    BY <1>1
  <2>2. p <= i
    BY <1>3, <2>1
  <2>3. p <= i - 1 => d[p] <= d[i - 1]
    BY <1>1
  <2>4. ~(p <= i - 1)
    BY <1>3, <2>1, <2>3
  <2> QED
    BY <2>2, <2>4
<1> QED
  BY <1>2, <1>3

SharesAbove(C, n, m, h) == {i \in 1 .. n : C[i] * m > h * C[n]}
LeastOf(A) == CHOOSE i \in A : \A j \in A : i <= j

\* A draw below the largest hash takes the position whose share of the weight it falls into.
LEMMA WeightedShare ==
    ASSUME NEW n \in Nat \ {0}, NEW C \in [0 .. n -> Nat], C[0] = 0, C[n] > 0,
           \A i, j \in 0 .. n : i <= j => C[i] <= C[j], NEW m \in Nat \ {0}, NEW h \in 0 .. (m - 1)
    PROVE  /\ SharesAbove(C, n, m, h) # {} /\ LeastOf(SharesAbove(C, n, m, h)) \in 1 .. n
           /\ \A i \in 1 .. n : LeastOf(SharesAbove(C, n, m, h)) = i
                                  <=> C[i - 1] * m <= h * C[n] /\ h * C[n] < C[i] * m
<1> DEFINE d == [i \in 0 .. n |-> C[i] * m]
           q == h * C[n]
           A == SharesAbove(C, n, m, h)
           p == LeastOf(A)
<1>1. \A i \in 0 .. n : C[i] \in Nat
  OBVIOUS
<1>2. C[n] \in Nat /\ h \in Nat /\ m \in Nat /\ h < m
  OBVIOUS
<1>3. d \in [0 .. n -> Nat] /\ q \in Nat
  BY <1>1, <1>2, Products
<1>4. d[0] <= q
  <2>1. d[0] = 0
    BY <1>2
  <2> QED
    BY <1>3, <2>1
<1>5. \A i, j \in 0 .. n : i <= j => d[i] <= d[j]
  BY <1>1, <1>2, Products
<1>6. d[n] > q
  <2>1. h * C[n] < m * C[n]
    BY <1>2, Products
  <2>2. m * C[n] = C[n] * m
    BY <1>2
  <2> QED
    BY <2>1, <2>2
<1>7. A = {i \in 1 .. n : d[i] > q} /\ \A i \in 1 .. n : d[i - 1] = C[i - 1] * m /\ d[i] = C[i] * m
  BY DEF SharesAbove
<1> HIDE DEF d
<1>8. SUFFICES A # {} /\ p \in 1 .. n /\ \A i \in 1 .. n : p = i <=> d[i - 1] <= q /\ q < d[i]
  BY <1>7
<1> HIDE DEF A, q
<1>9. n \in A /\ A \subseteq Nat /\ A \subseteq 1 .. n
  BY <1>6, <1>7
<1>10. p \in A /\ \A j \in A : p <= j
  <2>1. \E i \in A : \A j \in A : i <= j
    BY <1>9, Least
  <2> QED
    BY <2>1 DEF LeastOf
<1> HIDE DEF p
<1>11. p \in 1 .. n /\ d[p] > q /\ \A j \in 1 .. n : d[j] > q => p <= j
  BY <1>7, <1>10
<1> QED
  BY <1>3, <1>4, <1>5, <1>9, <1>11, FirstAbove

\* As many multiples of t lie between a and b as t goes into b - a, to less than one.
LEMMA Multiples ==
    ASSUME NEW m \in Nat \ {0}, NEW t \in Nat \ {0}, NEW a \in Nat, NEW b \in Nat, a <= b, b <= m * t,
           NEW S, S = {h \in 0 .. (m - 1) : a <= h * t /\ h * t < b}
    PROVE  /\ Cardinality(S) \in Nat
           /\ Cardinality(S) * t < (b - a) + t
           /\ Cardinality(S) * t + t > b - a
<1>1. ASSUME NEW x \in Nat, x <= m * t
      PROVE  \E l \in 0 .. m : /\ x <= l * t /\ (l > 0 => l * t - t < x)
                               /\ \A h \in Nat : x <= h * t <=> l <= h
  <2> DEFINE L == {h \in Nat : x <= h * t}
  <2>1. m \in L /\ L \subseteq Nat
    BY <1>1
  <2>2. PICK l \in L : \A h \in L : l <= h
    <3> HIDE DEF L
    <3> QED
      BY <2>1, Least
  <2>3. l \in 0 .. m /\ x <= l * t
    BY <2>1, <2>2
  <2>4. l > 0 => l * t - t < x
    <3> SUFFICES ASSUME l > 0
                 PROVE  l * t - t < x
      OBVIOUS
    <3>1. l - 1 \in Nat /\ l - 1 \notin L
      BY <2>2, <2>3
    <3>2. ~(x <= (l - 1) * t)
      BY <3>1
    <3>3. (l - 1) * t = l * t - t /\ l * t \in Nat
      BY <2>3, Products
    <3> QED
      BY <1>1, <3>2, <3>3
  <2>5. ASSUME NEW h \in Nat
        PROVE  x <= h * t <=> l <= h
    <3>1. x <= h * t => l <= h
      BY <2>2
    <3>2. l <= h => l * t <= h * t
      BY <2>3, Products
    <3>3. l * t \in Nat /\ h * t \in Nat
      BY <2>3, Products
    <3> QED
      BY <1>1, <2>3, <3>1, <3>2, <3>3
  <2> QED
    BY <2>3, <2>4, <2>5
<1>2. a <= m * t
  <2>1. m * t \in Nat
    BY Products
  <2> QED
    BY <2>1
<1>3. PICK lo \in 0 .. m : /\ a <= lo * t /\ (lo > 0 => lo * t - t < a)
                           /\ \A h \in Nat : a <= h * t <=> lo <= h
  BY <1>1, <1>2
<1>4. PICK hi \in 0 .. m : /\ b <= hi * t /\ (hi > 0 => hi * t - t < b)
                           /\ \A h \in Nat : b <= h * t <=> hi <= h
  BY <1>1
<1>5. lo * t \in Nat /\ hi * t \in Nat /\ lo \in Nat /\ hi \in Nat
  BY Products
<1>6. lo <= hi
  BY <1>3, <1>4, <1>5
<1>7. S = lo .. (hi - 1)
  <2>1. \A h \in 0 .. (m - 1) : h \in Nat /\ h * t \in Nat
    BY Products
  <2>2. \A h \in 0 .. (m - 1) : h * t < b <=> ~(b <= h * t)
    BY <2>1
  <2>3. \A h \in 0 .. (m - 1) : h \in S <=> lo <= h /\ ~(hi <= h)
    BY <1>3, <1>4, <2>1, <2>2
  <2>4. S \subseteq 0 .. (m - 1)
    OBVIOUS
  <2>5. \A h \in lo .. (hi - 1) : h \in 0 .. (m - 1) /\ lo <= h /\ ~(hi <= h)
    BY <1>5
  <2>6. \A h \in 0 .. (m - 1) : lo <= h /\ ~(hi <= h) => h \in lo .. (hi - 1)
    BY <1>5
  <2> QED
    BY <2>3, <2>4, <2>5, <2>6
<1>8. Cardinality(S) = hi - lo
  <2>1. Cardinality(lo .. (hi - 1)) = IF lo > hi - 1 THEN 0 ELSE (hi - 1) - lo + 1
    <3>1. lo \in Int /\ hi - 1 \in Int
      BY <1>5
    <3> QED
      BY <3>1, FS_Interval
  <2>2. Cardinality(lo .. (hi - 1)) = hi - lo
    BY <1>5, <1>6, <2>1
  <2> QED
    BY <1>7, <2>2
<1>9. (hi - lo) * t = hi * t - lo * t
  BY <1>5, <1>6
<1>10. hi = 0 => hi * t = 0 /\ lo = 0
  BY <1>5, <1>6
<1>11. lo = 0 => lo * t = 0
  BY <1>5
<1>12. hi - lo \in Nat
  BY <1>5, <1>6
<1> QED
  BY <1>3, <1>4, <1>5, <1>8, <1>9, <1>10, <1>11, <1>12

\* The cumulative weights of a list of variants.
LEMMA Cumulated ==
    ASSUME weight \in [Variants -> Nat], NEW s \in Seq(Variants)
    PROVE  LET C == [i \in 0 .. Len(s) |-> Cumulative(s, i)]
           IN  /\ C \in [0 .. Len(s) -> Nat] /\ C[0] = 0
               /\ \A i \in 1 .. Len(s) : C[i] = C[i - 1] + weight[s[i]] /\ weight[s[i]] \in Nat
               /\ \A i, j \in 0 .. Len(s) : i <= j => C[i] <= C[j]
               /\ C[Len(s)] = TotalWeight(s)
<1> DEFINE w == [i \in 1 .. Len(s) |-> weight[s[i]]]
           C == [i \in 0 .. Len(s) |-> Cumulative(s, i)]
<1>1. w \in Seq(Nat) /\ Len(w) = Len(s) /\ Len(s) \in Nat
      /\ \A i \in 1 .. Len(s) : w[i] = weight[s[i]] /\ weight[s[i]] \in Nat
  OBVIOUS
<1>2. \A i : Cumulative(s, i) = PartialSums(w)[i]
  BY DEF Cumulative
<1> HIDE DEF w
<1>3. /\ PartialSums(w) \in [0 .. Len(s) -> Nat] /\ PartialSums(w)[0] = 0
      /\ \A i \in 1 .. Len(s) : PartialSums(w)[i] = PartialSums(w)[i - 1] + w[i]
  BY <1>1, SumsUnfold
<1>4. \A i, j \in 0 .. Len(s) : i <= j => PartialSums(w)[i] <= PartialSums(w)[j]
  BY <1>1, SumsGrow
<1>5. \A i \in 0 .. Len(s) : C[i] = PartialSums(w)[i]
  BY <1>2
<1>6. C \in [0 .. Len(s) -> Nat]
  BY <1>2, <1>3
<1>7. C[Len(s)] = TotalWeight(s)
  BY <1>1 DEF TotalWeight
<1> HIDE DEF C
<1>8. \A i \in 1 .. Len(s) : i - 1 \in 0 .. Len(s) /\ i \in 0 .. Len(s)
  BY <1>1
<1>9. \A i \in 1 .. Len(s) : C[i] = C[i - 1] + weight[s[i]] /\ weight[s[i]] \in Nat
  BY <1>1, <1>3, <1>5, <1>8
<1>10. C[0] = 0 /\ \A i, j \in 0 .. Len(s) : i <= j => C[i] <= C[j]
  BY <1>1, <1>3, <1>4, <1>5
<1> QED
  BY <1>6, <1>7, <1>9, <1>10 DEF C

\* A list without weight has only variants without weight.
LEMMA NoWeight ==
    ASSUME weight \in [Variants -> Nat], NEW s \in Seq(Variants), ~(TotalWeight(s) > 0)
    PROVE  \A i \in 1 .. Len(s) : weight[s[i]] = 0
<1> SUFFICES ASSUME NEW i \in 1 .. Len(s)
             PROVE  weight[s[i]] = 0
  OBVIOUS
<1> DEFINE C == [j \in 0 .. Len(s) |-> Cumulative(s, j)]
           n == Len(s)
<1>1. /\ C \in [0 .. n -> Nat] /\ C[i] = C[i - 1] + weight[s[i]] /\ weight[s[i]] \in Nat
      /\ (i <= n => C[i] <= C[n]) /\ C[n] = TotalWeight(s)
  <2>1. i \in 0 .. n /\ n \in 0 .. n
    OBVIOUS
  <2> QED
    BY <2>1, Cumulated
<1>2. n \in Nat
  OBVIOUS
<1> HIDE DEF C, n
<1>3. i \in 1 .. n
  BY DEF n
<1>4. C[i] \in Nat /\ C[i - 1] \in Nat /\ C[n] \in Nat /\ i <= n
  BY <1>1, <1>2, <1>3
<1> QED
  BY <1>1, <1>4

\* Which hashes below the largest one draw which position.
LEMMA WeightedDraw ==
    ASSUME weight \in [Variants -> Nat], NEW s \in Seq(Variants),
           TotalWeight(s) > 0, s # << >>, NEW h \in 0 .. (MaxHash - 1)
    PROVE  /\ Position(s, h) \in 1 .. Len(s)
           /\ \A i \in 1 .. Len(s) : Position(s, h) = i <=>
                  /\ Cumulative(s, i - 1) * MaxHash <= h * TotalWeight(s)
                  /\ h * TotalWeight(s) < Cumulative(s, i) * MaxHash
<1> DEFINE C == [i \in 0 .. Len(s) |-> Cumulative(s, i)]
           n == Len(s)
           A == SharesAbove(C, n, MaxHash, h)
           p == LeastOf(A)
<1>1. /\ C \in [0 .. n -> Nat] /\ C[0] = 0 /\ \A i, j \in 0 .. n : i <= j => C[i] <= C[j]
      /\ C[n] = TotalWeight(s)
  BY Cumulated
<1>2. n \in Nat \ {0} /\ MaxHash \in Nat \ {0}
  BY SampleAssumption DEF SampleAssumption
<1>3. \A i \in 0 .. n : C[i] = Cumulative(s, i)
  OBVIOUS
<1>4. \A i \in 1 .. n : i \in 0 .. n /\ i - 1 \in 0 .. n
  BY <1>2
<1> HIDE DEF C, n
<1>5. A # {} /\ p \in 1 .. n /\ \A i \in 1 .. n : p = i <=> C[i - 1] * MaxHash <= h * C[n] /\ h * C[n] < C[i] * MaxHash
  <2>1. C[n] > 0
    BY <1>1
  <2>2. ASSUME NEW D \in [0 .. n -> Nat], D[0] = 0, D[n] > 0,
               \A i, j \in 0 .. n : i <= j => D[i] <= D[j], NEW B, B = SharesAbove(D, n, MaxHash, h)
        PROVE  B # {} /\ LeastOf(B) \in 1 .. n /\ \A i \in 1 .. n : LeastOf(B) = i
                   <=> D[i - 1] * MaxHash <= h * D[n] /\ h * D[n] < D[i] * MaxHash
    BY <1>2, <2>2, WeightedShare
  <2> QED
    BY <1>1, <2>1, <2>2
<1>6. Above(s, h) = A
  BY <1>1, <1>3, <1>4 DEF Above, SharesAbove, n
<1>7. Position(s, h) = p
  <2> HIDE DEF A
  <2> QED
    BY <1>5, <1>6 DEF Position, WeightedPosition, LeastOf
<1> HIDE DEF p
<1> QED
  BY <1>1, <1>3, <1>4, <1>5, <1>7 DEF n

\* A uniform draw is a name of the list.
LEMMA UniformDraw ==
    ASSUME NEW s \in Seq(Variants), ~(TotalWeight(s) > 0),
           NEW h \in 0 .. MaxHash
    PROVE  /\ Position(s, h) \in Nat \ {0}
           /\ \A i \in 1 .. Len(s) : Position(s, h) = i <=>
                  (i - 1) * MaxHash <= h * Len(s) /\ h * Len(s) < i * MaxHash
<1> DEFINE n == Len(s)
           a == h * n
           q == a \div MaxHash
<1>1. n \in Nat /\ h \in Nat /\ MaxHash \in Nat \ {0}
  BY SampleAssumption DEF SampleAssumption
<1>2. Position(s, h) = q + 1
  BY DEF Position, UniformPosition
<1>3. a \in Nat
  BY <1>1, Products
<1> HIDE DEF a
<1>4. q \in Nat /\ q * MaxHash <= a /\ a < q * MaxHash + MaxHash
  BY <1>1, <1>3, Division
<1> HIDE DEF q
<1>5. ASSUME NEW i \in 1 .. n
      PROVE  q + 1 = i <=> (i - 1) * MaxHash <= a /\ a < i * MaxHash
  <2> DEFINE k == i - 1
  <2>1. k \in Nat /\ i = k + 1
    BY <1>1
  <2> HIDE DEF k
  <2>2. (k + 1) * MaxHash = k * MaxHash + MaxHash /\ k * MaxHash \in Nat /\ q * MaxHash \in Nat
    BY <1>1, <1>4, <2>1, Products
  <2>3. ASSUME k < q
        PROVE  k * MaxHash + MaxHash <= q * MaxHash
    <3>1. k + 1 <= q
      BY <1>4, <2>1, <2>3
    <3>2. (k + 1) * MaxHash <= q * MaxHash
      BY <1>1, <1>4, <2>1, <3>1, Products
    <3> QED
      BY <2>2, <3>2
  <2>4. ASSUME q < k
        PROVE  q * MaxHash + MaxHash <= k * MaxHash
    <3>1. q + 1 <= k
      BY <1>4, <2>1, <2>4
    <3>2. (q + 1) * MaxHash <= k * MaxHash
      BY <1>1, <1>4, <2>1, <3>1, Products
    <3>3. (q + 1) * MaxHash = q * MaxHash + MaxHash
      BY <1>1, <1>4, Products
    <3> QED
      BY <3>2, <3>3
  <2>5. q + 1 = k + 1 <=> k * MaxHash <= a /\ a < k * MaxHash + MaxHash
    <3>1. CASE k < q
      BY <1>1, <1>3, <1>4, <2>1, <2>2, <2>3, <3>1
    <3>2. CASE q < k
      BY <1>1, <1>3, <1>4, <2>1, <2>2, <2>4, <3>2
    <3>3. CASE q = k
      BY <1>4, <3>3
    <3> QED
      BY <1>4, <2>1, <3>1, <3>2, <3>3
  <2>6. i - 1 = k
    BY DEF k
  <2> QED
    BY <2>1, <2>2, <2>5, <2>6
<1> QED
  BY <1>2, <1>4, <1>5 DEF a

-----------------------------------------------------------------------------
(***************************************************************************)
(* Drawing without replacement                                              *)
(***************************************************************************)
\* While a variant with weight is left, none without weight has been drawn.
Ordered ==
    hash < MaxHash =>
        /\ \A i, j \in 1 .. Len(drawn) : i < j /\ weight[drawn[j]] > 0 => weight[drawn[i]] > 0
        /\ \A i \in 1 .. Len(drawn), k \in 1 .. Len(names) : weight[names[k]] > 0 => weight[drawn[i]] > 0

DrawInv ==
    /\ weight \in [Variants -> Nat] /\ hash \in 0 .. MaxHash
    /\ asked \subseteq Variants /\ IsFiniteSet(asked)
    /\ names \in Seq(Variants) /\ drawn \in Seq(Variants)
    /\ Range(drawn) \cup Range(names) = asked
    /\ Len(drawn) + Len(names) = Cardinality(asked)
    /\ Ordered

\* Nothing is drawn or failed yet.
LEMMA DrawInit == ASSUME Init PROVE DrawInv
<1> DEFINE n == Cardinality(asked)
<1>1. asked \subseteq Variants /\ IsFiniteSet(asked) /\ n \in Nat
  BY FS_Subset, FS_CardinalityType, SampleAssumption DEF Init, SampleAssumption
<1>2. names \in [1 .. n -> asked] /\ \A i, j \in 1 .. n : i # j => names[i] # names[j]
  BY DEF Init, SetToSeqs
<1> HIDE DEF n
<1>3. names \in Injection(1 .. n, asked)
  BY <1>2 DEF Injection, IsInjective
<1>4. Cardinality(1 .. n) = Cardinality(asked)
  <2>1. Cardinality(1 .. n) = IF 1 > n THEN 0 ELSE n - 1 + 1
    BY <1>1, FS_Interval
  <2> QED
    BY <1>1, <2>1 DEF n
<1>5. names \in Surjection(1 .. n, asked)
  BY <1>1, <1>3, <1>4, FS_Injection
<1>6. Range(names) = asked
  BY <1>2, <1>5 DEF Range, Surjection
<1>7. names \in Seq(Variants) /\ Len(names) = n
  <2>1. names \in [1 .. n -> Variants]
    BY <1>1, <1>2
  <2> QED
    BY <1>1, <2>1
<1>8. drawn = << >> /\ Range(<< >>) = {} /\ Len(<< >>) = 0
  BY DEF Init, Range
<1>9. weight \in [Variants -> Nat] /\ hash \in 0 .. MaxHash
  BY SampleAssumption DEF Init, SampleAssumption
<1>10. Ordered
  BY <1>8 DEF Ordered
<1> QED
  BY <1>1, <1>6, <1>7, <1>8, <1>9, <1>10 DEF DrawInv, n

\* swap_remove takes out one element and keeps the others.
LEMMA Removed ==
    ASSUME NEW V, NEW s \in Seq(V), NEW p \in 1 .. Len(s)
    PROVE  LET t == SwapRemove(s, p)
           IN  /\ t \in Seq(V) /\ Len(t) = Len(s) - 1
               /\ Range(t) \cup {s[p]} = Range(s)
               /\ \A k \in 1 .. Len(t) : \E l \in 1 .. Len(s) : t[k] = s[l]
<1> DEFINE n == Len(s)
           t == [k \in 1 .. (n - 1) |-> IF k = p THEN s[n] ELSE s[k]]
<1>1. n \in Nat /\ n > 0 /\ \A i \in 1 .. n : s[i] \in V
  OBVIOUS
<1>2. t = SwapRemove(s, p)
  BY DEF SwapRemove
<1>3. \A k \in 1 .. (n - 1) : t[k] = (IF k = p THEN s[n] ELSE s[k]) /\ t[k] \in V
  BY <1>1
<1>4. t \in Seq(V) /\ Len(t) = n - 1
  BY <1>1, <1>3
<1> HIDE DEF t
<1>5. \A k \in 1 .. (n - 1) : \E l \in 1 .. n : t[k] = s[l]
  BY <1>1, <1>3
<1>6. Range(s) = {s[i] : i \in 1 .. n} /\ Range(t) = {t[i] : i \in 1 .. (n - 1)}
  BY <1>1, <1>4 DEF Range
<1>7. \A i \in 1 .. n : s[i] \in Range(t) \cup {s[p]}
  <2> SUFFICES ASSUME NEW i \in 1 .. n, i # p
               PROVE  s[i] \in Range(t)
    OBVIOUS
  <2>1. CASE i = n
    <3>1. p \in 1 .. (n - 1) /\ t[p] = s[n]
      BY <1>1, <1>3, <2>1
    <3> QED
      BY <1>6, <2>1, <3>1
  <2>2. CASE i # n
    <3>1. i \in 1 .. (n - 1) /\ t[i] = s[i]
      BY <1>1, <1>3, <2>2
    <3> QED
      BY <1>6, <3>1
  <2> QED
    BY <2>1, <2>2
<1> QED
  BY <1>2, <1>4, <1>5, <1>6, <1>7

\* A hash below the largest one draws a variant with weight, if there is one.
LEMMA DrawsWeight ==
    ASSUME DrawInv, hash < MaxHash, names # << >>,
           NEW k \in 1 .. Len(names), weight[names[k]] > 0
    PROVE  /\ Position(names, hash) \in 1 .. Len(names)
           /\ weight[names[Position(names, hash)]] > 0
<1> DEFINE p == Position(names, hash)
           C(i) == Cumulative(names, i)
           q == hash * TotalWeight(names)
<1>1. weight \in [Variants -> Nat] /\ names \in Seq(Variants) /\ hash \in 0 .. (MaxHash - 1)
  BY SampleAssumption DEF DrawInv, SampleAssumption
<1>2. TotalWeight(names) > 0
  BY <1>1, NoWeight
<1>3. p \in 1 .. Len(names) /\ C(p - 1) * MaxHash <= q /\ q < C(p) * MaxHash
  BY <1>1, <1>2, WeightedDraw
<1>4. \A i \in 1 .. Len(names) : C(i) = C(i - 1) + weight[names[i]] /\ weight[names[i]] \in Nat /\ C(i - 1) \in Nat
  <2> DEFINE D == [i \in 0 .. Len(names) |-> C(i)]
  <2>1. /\ D \in [0 .. Len(names) -> Nat]
        /\ \A i \in 1 .. Len(names) : D[i] = D[i - 1] + weight[names[i]] /\ weight[names[i]] \in Nat
    BY <1>1, Cumulated
  <2>2. \A i \in 1 .. Len(names) : i \in 0 .. Len(names) /\ i - 1 \in 0 .. Len(names)
    BY <1>1
  <2>3. \A i \in 0 .. Len(names) : D[i] = C(i)
    OBVIOUS
  <2> HIDE DEF D, C
  <2> QED
    BY <2>1, <2>2, <2>3
<1>5. TotalWeight(names) \in Nat
  <2> DEFINE D == [i \in 0 .. Len(names) |-> C(i)]
  <2>1. Len(names) \in 0 .. Len(names)
    BY <1>1
  <2>2. D \in [0 .. Len(names) -> Nat] /\ D[Len(names)] = TotalWeight(names)
    BY <1>1, Cumulated
  <2> HIDE DEF D, C
  <2> QED
    BY <2>1, <2>2
<1>6. q \in Nat
  BY <1>1, <1>5, Products
<1> HIDE DEF p, C, q
<1>7. weight[names[p]] \in Nat /\ C(p - 1) \in Nat /\ C(p) = C(p - 1) + weight[names[p]]
  BY <1>3, <1>4
<1>8. C(p - 1) * MaxHash \in Nat
  BY <1>7, Products, SampleAssumption DEF SampleAssumption
<1>9. weight[names[p]] # 0
  <2> SUFFICES ASSUME weight[names[p]] = 0
               PROVE  FALSE
    OBVIOUS
  <2>1. C(p) = C(p - 1)
    BY <1>7
  <2> QED
    BY <1>3, <1>6, <1>8, <2>1
<1>10. weight[names[p]] > 0
  BY <1>7, <1>9
<1> QED
  BY <1>3, <1>10 DEF p

\* Every draw and every failure keeps the invariant.
LEMMA DrawStep ==
    ASSUME DrawInv, [Next]_vars
    PROVE  DrawInv'
<1>1. CASE Draw
  <2> DEFINE p == Position(names, hash)
  <2>1. /\ names # << >> /\ p <= Len(names) /\ drawn' = Append(drawn, names[p])
        /\ names' = SwapRemove(names, p) /\ UNCHANGED <<weight, hash, asked>>
    BY <1>1 DEF Draw
  <2>2. p \in Nat \ {0}
    <3>1. weight \in [Variants -> Nat] /\ names \in Seq(Variants)
      BY DEF DrawInv
    <3>2. CASE ~(TotalWeight(names) > 0)
      BY <3>1, <3>2, UniformDraw DEF DrawInv
    <3>3. CASE TotalWeight(names) > 0 /\ Above(names, hash) # {}
      <4>1. Above(names, hash) \subseteq Nat /\ Above(names, hash) \subseteq 1 .. Len(names)
        BY DEF Above
      <4>2. \E i \in Above(names, hash) : \A j \in Above(names, hash) : i <= j
        BY <3>3, <4>1, Least
      <4>3. p \in Above(names, hash)
        BY <3>3, <4>2 DEF Position, WeightedPosition
      <4> QED
        BY <4>1, <4>3
    <3>4. CASE TotalWeight(names) > 0 /\ Above(names, hash) = {}
      <4>1. p = Cardinality(Variants)
        BY <3>4 DEF Position, WeightedPosition
      <4>2. Variants # {}
        <5>1. 1 \in 1 .. Len(names)
          BY <2>1, <3>1
        <5> QED
          BY <3>1, <5>1
      <4> QED
        BY <4>1, <4>2, FS_CardinalityType, FS_EmptySet, SampleAssumption DEF SampleAssumption
    <3> QED
      BY <3>2, <3>3, <3>4
  <2>3. p \in 1 .. Len(names) /\ names \in Seq(Variants) /\ drawn \in Seq(Variants)
    BY <2>1, <2>2 DEF DrawInv
  <2>4. weight[names[p]] > 0 \/ (hash < MaxHash => \A k \in 1 .. Len(names) : ~(weight[names[k]] > 0))
    BY <2>1, DrawsWeight
  <2> HIDE DEF p
  <2>5. /\ names' \in Seq(Variants) /\ Len(names') = Len(names) - 1
        /\ Range(names') \cup {names[p]} = Range(names)
        /\ \A k \in 1 .. Len(names') : \E l \in 1 .. Len(names) : names'[k] = names[l]
    BY <2>1, <2>3, Removed
  <2>6. names[p] \in Variants
    BY <2>3
  <2>7. /\ drawn' \in Seq(Variants) /\ Len(drawn') = Len(drawn) + 1
        /\ \A i \in 1 .. Len(drawn) : drawn'[i] = drawn[i] /\ drawn'[Len(drawn) + 1] = names[p]
        /\ drawn'[Len(drawn) + 1] = names[p]
    BY <2>1, <2>3, <2>6
  <2>8. Range(drawn') = Range(drawn) \cup {names[p]}
    <3>1. Range(drawn) = {drawn[i] : i \in 1 .. Len(drawn)} /\ Range(drawn') = {drawn'[i] : i \in 1 .. (Len(drawn) + 1)}
      BY <2>3, <2>7 DEF Range
    <3>2. Len(drawn) \in Nat
      BY <2>3
    <3> QED
      BY <2>7, <3>1, <3>2
  <2>9. Range(drawn') \cup Range(names') = asked
    BY <2>5, <2>8 DEF DrawInv
  <2>10. Len(drawn') + Len(names') = Cardinality(asked)
    <3>1. Len(drawn) \in Nat /\ Len(names) \in Nat /\ Len(drawn) + Len(names) = Cardinality(asked)
      BY <2>3 DEF DrawInv
    <3> QED
      BY <2>5, <2>7, <3>1
  <2>11. Ordered'
    <3> SUFFICES ASSUME hash < MaxHash
                 PROVE  /\ \A i, j \in 1 .. Len(drawn') : i < j /\ weight[drawn'[j]] > 0 => weight[drawn'[i]] > 0
                        /\ \A i \in 1 .. Len(drawn'), k \in 1 .. Len(names') :
                               weight[names'[k]] > 0 => weight[drawn'[i]] > 0
      BY <2>1 DEF Ordered
    <3>1. /\ \A i, j \in 1 .. Len(drawn) : i < j /\ weight[drawn[j]] > 0 => weight[drawn[i]] > 0
          /\ \A i \in 1 .. Len(drawn), k \in 1 .. Len(names) : weight[names[k]] > 0 => weight[drawn[i]] > 0
      BY DEF DrawInv, Ordered
    <3>2. Len(drawn) \in Nat
      BY <2>3
    <3>3. \A i \in 1 .. Len(drawn') : i \in 1 .. Len(drawn) \/ i = Len(drawn) + 1
      BY <2>7, <3>2
    <3>4. ASSUME NEW i \in 1 .. Len(drawn'), NEW j \in 1 .. Len(drawn'), i < j, weight[drawn'[j]] > 0
          PROVE  weight[drawn'[i]] > 0
      <4>1. i \in 1 .. Len(drawn) /\ drawn'[i] = drawn[i]
        BY <2>7, <3>2, <3>3, <3>4
      <4>2. CASE j \in 1 .. Len(drawn)
        BY <2>7, <3>1, <3>4, <4>1, <4>2
      <4>3. CASE j = Len(drawn) + 1
        BY <2>3, <2>7, <3>1, <3>4, <4>1, <4>3
      <4> QED
        BY <3>3, <4>2, <4>3
    <3>5. ASSUME NEW i \in 1 .. Len(drawn'), NEW k \in 1 .. Len(names'), weight[names'[k]] > 0
          PROVE  weight[drawn'[i]] > 0
      <4>1. PICK l \in 1 .. Len(names) : names'[k] = names[l]
        BY <2>5
      <4>2. weight[names[p]] > 0
        BY <2>4, <3>5, <4>1
      <4>3. CASE i \in 1 .. Len(drawn)
        BY <2>7, <3>1, <3>5, <4>1, <4>3
      <4>4. CASE i = Len(drawn) + 1
        BY <2>7, <4>2, <4>4
      <4> QED
        BY <3>3, <4>3, <4>4
    <3> QED
      BY <3>4, <3>5
  <2> QED
    BY <2>1, <2>5, <2>7, <2>9, <2>10, <2>11 DEF DrawInv
<1>2. CASE DrawFails \/ UNCHANGED vars
  <2>1. UNCHANGED <<weight, hash, asked, names, drawn>>
    BY <1>2 DEF DrawFails, vars
  <2> QED
    BY <2>1 DEF DrawInv, Ordered
<1> QED
  BY <1>1, <1>2 DEF Next, Finished

\* The inductive invariant of repeated draws, for any weights, hash and order of the names.
THEOREM DrawInvariance == Spec => []DrawInv
<1>1. Init => DrawInv
  BY DrawInit
<1>2. DrawInv /\ [Next]_vars => DrawInv'
  BY DrawStep
<1> QED
  BY <1>1, <1>2, PTL DEF Spec

\* Repeated calls of sample_variant return every candidate at most once and lose none, and
\* one with weight before any without, unless the hash is u32::MAX.
THEOREM WeightDrawsFirst == Spec => []WeightedFirst
<1>1. DrawInv => WeightedFirst
  BY DEF DrawInv, Ordered, WeightedFirst
<1> QED
  BY <1>1, DrawInvariance, PTL

\* The hashes below u32::MAX that draw a candidate are its share of all of them, to less than
\* one hash: sample_variant draws in proportion to the weights, or evenly without any.
THEOREM DrawsAreProportional == Spec => []Proportional
<1>1. DrawInv => Proportional
  <2> SUFFICES ASSUME DrawInv, names # << >>, NEW i \in 1 .. Len(names)
               PROVE  LET share == IF TotalWeight(names) > 0 THEN weight[names[i]] ELSE 1
                          total == IF TotalWeight(names) > 0 THEN TotalWeight(names) ELSE Len(names)
                          hits == Cardinality({h \in 0 .. (MaxHash - 1) : Position(names, h) = i})
                      IN  hits * total < MaxHash * share + total /\ hits * total + total > MaxHash * share
    BY DEF Proportional
  <2> DEFINE T == TotalWeight(names)
             n == Len(names)
             C(k) == Cumulative(names, k)
             S == {h \in 0 .. (MaxHash - 1) : Position(names, h) = i}
  <2>1. /\ weight \in [Variants -> Nat] /\ names \in Seq(Variants) /\ MaxHash \in Nat \ {0}
        /\ n \in Nat \ {0} /\ i \in 1 .. n
    BY SampleAssumption DEF DrawInv, SampleAssumption
  <2>2. CASE T > 0
    <3>1. /\ C(i) = C(i - 1) + weight[names[i]] /\ weight[names[i]] \in Nat /\ C(i - 1) \in Nat
          /\ C(i) \in Nat /\ C(i) <= T /\ T \in Nat
      <4> DEFINE D == [k \in 0 .. n |-> C(k)]
      <4>1. /\ D \in [0 .. n -> Nat] /\ D[n] = T
            /\ \A k \in 1 .. n : D[k] = D[k - 1] + weight[names[k]] /\ weight[names[k]] \in Nat
            /\ \A k, l \in 0 .. n : k <= l => D[k] <= D[l]
        BY <2>1, Cumulated
      <4>2. i \in 0 .. n /\ i - 1 \in 0 .. n /\ n \in 0 .. n /\ i <= n
        BY <2>1
      <4>3. \A k \in 0 .. n : D[k] = C(k)
        OBVIOUS
      <4> HIDE DEF D, C, T, n
      <4> QED
        BY <2>1, <4>1, <4>2, <4>3
    <3> DEFINE a == C(i - 1) * MaxHash
               b == C(i) * MaxHash
    <3>2. S = {h \in 0 .. (MaxHash - 1) : a <= h * T /\ h * T < b}
      BY <2>1, <2>2, WeightedDraw
    <3> HIDE DEF T, n, C, S
    <3>3. a \in Nat /\ b \in Nat /\ a <= b /\ b <= MaxHash * T
      <4>1. C(i - 1) <= C(i)
        BY <3>1
      <4>2. a <= b /\ a \in Nat /\ b \in Nat
        BY <2>1, <3>1, <4>1, Products
      <4>3. b <= T * MaxHash
        BY <2>1, <3>1, Products
      <4>4. T * MaxHash = MaxHash * T
        BY <2>1, <3>1
      <4> QED
        BY <4>2, <4>3, <4>4
    <3>4. b - a = MaxHash * weight[names[i]]
      BY <2>1, <3>1
    <3> HIDE DEF a, b
    <3>5. Cardinality(S) * T < (b - a) + T /\ Cardinality(S) * T + T > b - a
      <4>1. T \in Nat \ {0}
        BY <2>2, <3>1
      <4>2. ASSUME NEW t \in Nat \ {0}, NEW c \in Nat, NEW d \in Nat, c <= d, d <= MaxHash * t,
                   NEW H, H = {h \in 0 .. (MaxHash - 1) : c <= h * t /\ h * t < d}
            PROVE  Cardinality(H) * t < (d - c) + t /\ Cardinality(H) * t + t > d - c
        BY <2>1, <4>2, Multiples
      <4> QED
        BY <3>2, <3>3, <4>1, <4>2
    <3> QED
      BY <2>2, <3>4, <3>5 DEF T, S
  <2>3. CASE ~(T > 0)
    <3> DEFINE a == (i - 1) * MaxHash
               b == i * MaxHash
    <3>1. S = {h \in 0 .. (MaxHash - 1) : a <= h * n /\ h * n < b}
      <4>1. \A h \in 0 .. (MaxHash - 1) : h \in 0 .. MaxHash
        BY <2>1
      <4> QED
        BY <2>1, <2>3, <4>1, UniformDraw
    <3> HIDE DEF T, n, C, S
    <3>2. a \in Nat /\ b \in Nat /\ a <= b /\ b <= MaxHash * n
      <4>1. i - 1 \in Nat /\ i \in Nat /\ i - 1 <= i /\ i <= n /\ n \in Nat /\ MaxHash \in Nat
        BY <2>1
      <4>2. a <= b /\ a \in Nat /\ b \in Nat
        BY <4>1, Products
      <4>3. b <= n * MaxHash
        BY <4>1, Products
      <4>4. n * MaxHash = MaxHash * n
        BY <4>1
      <4> QED
        BY <4>2, <4>3, <4>4
    <3>3. b - a = MaxHash * 1
      BY <2>1
    <3> HIDE DEF a, b
    <3>4. Cardinality(S) * n < (b - a) + n /\ Cardinality(S) * n + n > b - a
      BY <2>1, <3>1, <3>2, Multiples
    <3> QED
      BY <2>3, <3>3, <3>4 DEF T, S, n
  <2> QED
    BY <2>2, <2>3
<1> QED
  BY <1>1, DrawInvariance, PTL

-----------------------------------------------------------------------------
(***************************************************************************)
(* Selections and concatenations                                            *)
(***************************************************************************)
AreSelections(f, n, S) ==
    f = [k \in 0 .. n |-> IF k = 0 THEN << >> ELSE IF k \in S THEN Append(f[k - 1], k) ELSE f[k - 1]]

\* The loop that pushes the selected positions computes some function.
LEMMA SelectionsExist ==
    ASSUME NEW n \in Nat, NEW S
    PROVE  \E f : AreSelections(f, n, S)
<1> DEFINE T == {k \in Nat : ~\E f : AreSelections(f, k, S)}
<1> SUFFICES ASSUME T # {}
             PROVE  FALSE
  OBVIOUS
<1>1. PICK k \in T : \A j \in T : k <= j
  BY Least
<1>2. k # 0
  <2>1. AreSelections([i \in 0 .. 0 |-> << >>], 0, S)
    BY DEF AreSelections
  <2> QED
    BY <2>1
<1>3. PICK f : AreSelections(f, k - 1, S)
  BY <1>1, <1>2
<1> DEFINE h == [i \in 0 .. k |-> IF i = k THEN (IF k \in S THEN Append(f[k - 1], k) ELSE f[k - 1]) ELSE f[i]]
<1>4. \A i \in 0 .. k : h[i] = IF i = 0 THEN << >> ELSE IF i \in S THEN Append(h[i - 1], i) ELSE h[i - 1]
  <2> SUFFICES ASSUME NEW i \in 0 .. k
               PROVE  h[i] = IF i = 0 THEN << >> ELSE IF i \in S THEN Append(h[i - 1], i) ELSE h[i - 1]
    OBVIOUS
  <2> DEFINE v(j) == IF j = 0 THEN << >> ELSE IF j \in S THEN Append(f[j - 1], j) ELSE f[j - 1]
  <2>1. \A j \in 0 .. (k - 1) : f[j] = v(j)
    <3>1. f = [j \in 0 .. (k - 1) |-> v(j)]
      BY <1>3 DEF AreSelections
    <3> HIDE DEF v
    <3> QED
      BY <3>1
  <2>2. k \in Nat /\ \A j \in 0 .. (k - 1) : h[j] = f[j]
    OBVIOUS
  <2>3. CASE i = k
    <3>1. k - 1 \in 0 .. (k - 1)
      BY <1>2
    <3> QED
      BY <1>2, <2>2, <2>3, <3>1
  <2>4. CASE i = 0
    BY <1>2, <2>1, <2>2, <2>4
  <2>5. CASE i # k /\ i # 0
    <3>1. i \in 0 .. (k - 1) /\ i - 1 \in 0 .. (k - 1)
      BY <2>5
    <3> QED
      BY <2>1, <2>2, <2>5, <3>1
  <2> QED
    BY <2>3, <2>4, <2>5
<1>5. AreSelections(h, k, S)
  BY <1>4 DEF AreSelections
<1> QED
  BY <1>1, <1>5

\* The recursive definition defines the selections.
LEMMA SelectionsUnfold ==
    ASSUME NEW n \in Nat, NEW S
    PROVE  /\ Selections(n, S)[0] = << >>
           /\ \A k \in 1 .. n : Selections(n, S)[k] =
                  IF k \in S THEN Append(Selections(n, S)[k - 1], k) ELSE Selections(n, S)[k - 1]
<1> DEFINE f == Selections(n, S)
           v(k) == IF k = 0 THEN << >> ELSE IF k \in S THEN Append(f[k - 1], k) ELSE f[k - 1]
<1>1. AreSelections(f, n, S)
  <2>1. PICK g : AreSelections(g, n, S)
    BY SelectionsExist
  <2> QED
    BY <2>1 DEF Selections, AreSelections
<1> HIDE DEF f
<1>2. f = [k \in 0 .. n |-> v(k)]
  BY <1>1 DEF AreSelections
<1> HIDE DEF v
<1>3. \A k \in 0 .. n : f[k] = v(k)
  BY <1>2
<1>4. \A k \in 1 .. n : k \in 0 .. n /\ k # 0
  OBVIOUS
<1> QED
  BY <1>3, <1>4 DEF f, v

Elements(s) == {s[i] : i \in 1 .. Len(s)}
Distinct(s) == \A i, j \in 1 .. Len(s) : s[i] = s[j] => i = j
Ascending(s) == \A i, j \in 1 .. Len(s) : i < j => s[i] < s[j]

\* What has been selected after k rounds.
Selected(f, k, S) ==
    f \in Seq(Nat) /\ Elements(f) = {i \in 1 .. k : i \in S} /\ Ascending(f)

\* One round: the position is pushed or passed over.
LEMMA SelectedStep ==
    ASSUME NEW k \in Nat, NEW S, NEW f, Selected(f, k, S)
    PROVE  Selected(IF k + 1 \in S THEN Append(f, k + 1) ELSE f, k + 1, S)
<1>1. f \in Seq(Nat) /\ Len(f) \in Nat /\ \A i \in 1 .. Len(f) : f[i] \in 1 .. k /\ f[i] \in S
  BY DEF Selected, Elements
<1>2. CASE k + 1 \in S
  <2> DEFINE g == Append(f, k + 1)
  <2>1. g \in Seq(Nat) /\ Len(g) = Len(f) + 1 /\ g[Len(f) + 1] = k + 1
        /\ \A i \in 1 .. Len(f) : g[i] = f[i]
    BY <1>1
  <2> HIDE DEF g
  <2>2. \A i \in 1 .. Len(g) : i \in 1 .. Len(f) \/ i = Len(f) + 1
    BY <1>1, <2>1
  <2>3. Elements(g) = Elements(f) \cup {k + 1}
    <3>1. \A i \in 1 .. Len(f) : i \in 1 .. Len(g)
      BY <1>1, <2>1
    <3>2. Len(f) + 1 \in 1 .. Len(g)
      BY <1>1, <2>1
    <3> QED
      BY <2>1, <2>2, <3>1, <3>2 DEF Elements
  <2>4. Elements(g) = {i \in 1 .. (k + 1) : i \in S}
    BY <1>2, <2>3 DEF Selected
  <2>5. ASSUME NEW i \in 1 .. Len(g), NEW j \in 1 .. Len(g), i < j
        PROVE  g[i] < g[j]
    <3>1. i \in 1 .. Len(f)
      BY <1>1, <2>1, <2>5
    <3>2. CASE j \in 1 .. Len(f)
      BY <2>1, <2>5, <3>1, <3>2 DEF Selected, Ascending
    <3>3. CASE j = Len(f) + 1
      BY <1>1, <2>1, <3>1, <3>3
    <3> QED
      BY <2>2, <3>2, <3>3
  <2> QED
    BY <1>2, <2>1, <2>4, <2>5 DEF Selected, Ascending, g
<1>3. CASE k + 1 \notin S
  <2>1. {i \in 1 .. (k + 1) : i \in S} = {i \in 1 .. k : i \in S}
    BY <1>3
  <2> QED
    BY <1>3, <2>1 DEF Selected
<1> QED
  BY <1>2, <1>3

\* After k rounds the list holds the selected positions up to k, in order.
LEMMA SelectionsSelect ==
    ASSUME NEW n \in Nat, NEW S
    PROVE  \A k \in 0 .. n : Selected(Selections(n, S)[k], k, S)
<1> DEFINE T == {k \in 0 .. n : ~Selected(Selections(n, S)[k], k, S)}
<1> SUFFICES ASSUME T # {}
             PROVE  FALSE
  OBVIOUS
<1>1. PICK k \in T : \A j \in T : k <= j
  <2>1. T \subseteq Nat
    OBVIOUS
  <2> HIDE DEF T
  <2> QED
    BY <2>1, Least
<1>2. k # 0
  <2>1. Selected(<< >>, 0, S)
    BY DEF Selected, Elements, Ascending
  <2> QED
    BY <2>1, SelectionsUnfold
<1>3. k - 1 \in Nat /\ k - 1 \in 0 .. n /\ k \in 1 .. n /\ (k - 1) + 1 = k /\ k - 1 \notin T
  BY <1>1, <1>2
<1>4. Selected(Selections(n, S)[k - 1], k - 1, S)
  BY <1>3
<1> DEFINE m == k - 1
           f == Selections(n, S)[m]
<1> HIDE DEF m, f
<1>5. Selected(IF m + 1 \in S THEN Append(f, m + 1) ELSE f, m + 1, S)
  BY <1>3, <1>4, SelectedStep DEF m, f
<1>6. Selections(n, S)[k] = IF k \in S THEN Append(f, k) ELSE f
  BY <1>3, SelectionsUnfold DEF m, f
<1> QED
  BY <1>1, <1>3, <1>5, <1>6 DEF m

\* s begins with r.
Begins(r, s) == Len(r) <= Len(s) /\ \A i \in 1 .. Len(r) : s[i] = r[i]

\* Later selections keep the earlier ones.
LEMMA SelectionsGrow ==
    ASSUME NEW n \in Nat, NEW S, NEW k \in 0 .. n
    PROVE  \A l \in 0 .. n : k <= l => Begins(Selections(n, S)[k], Selections(n, S)[l])
<1> DEFINE F(l) == Selections(n, S)[l]
           Kept(l) == Len(F(k)) <= Len(F(l)) /\ \A i \in 1 .. Len(F(k)) : F(l)[i] = F(k)[i]
           T == {l \in 0 .. n : k <= l /\ ~Kept(l)}
<1> SUFFICES ASSUME T # {}
             PROVE  FALSE
  BY DEF Begins
<1>1. PICK l \in T : \A j \in T : l <= j
  <2>1. T \subseteq Nat
    OBVIOUS
  <2> HIDE DEF T
  <2> QED
    BY <2>1, Least
<1>2. \A j \in 0 .. n : F(j) \in Seq(Nat) /\ Len(F(j)) \in Nat
  <2> SUFFICES ASSUME NEW j \in 0 .. n
               PROVE  F(j) \in Seq(Nat) /\ Len(F(j)) \in Nat
    OBVIOUS
  <2>1. Selected(Selections(n, S)[j], j, S)
    BY SelectionsSelect
  <2>2. F(j) \in Seq(Nat)
    BY <2>1 DEF Selected
  <2> HIDE DEF F
  <2> QED
    BY <2>2
<1>3. l # k
  BY <1>1, <1>2
<1>4. l - 1 \in 0 .. n /\ l \in 1 .. n /\ k <= l - 1 /\ l - 1 \notin T
  BY <1>1, <1>3
<1>5. Kept(l - 1)
  BY <1>4
<1>6. F(l) = IF l \in S THEN Append(F(l - 1), l) ELSE F(l - 1)
  BY <1>4, SelectionsUnfold
<1> HIDE DEF F
<1>7. l \in Nat /\ F(l - 1) \in Seq(Nat) /\ Len(F(l - 1)) \in Nat /\ Len(F(k)) \in Nat
  BY <1>2, <1>4
<1>8. Len(F(l - 1)) <= Len(F(l)) /\ \A i \in 1 .. Len(F(l - 1)) : F(l)[i] = F(l - 1)[i]
  BY <1>6, <1>7
<1>9. Len(F(l)) \in Nat
  BY <1>2, <1>4
<1>10. \A i \in 1 .. Len(F(k)) : i \in 1 .. Len(F(l - 1))
  BY <1>5, <1>7
<1>11. Kept(l)
  BY <1>5, <1>7, <1>8, <1>9, <1>10
<1> QED
  BY <1>1, <1>11

\* One list after another.
LEMMA Joined ==
    ASSUME NEW X, NEW s \in Seq(X), NEW t \in Seq(X)
    PROVE  /\ s \o t \in Seq(X)
           /\ Elements(s \o t) = Elements(s) \cup Elements(t)
           /\ Distinct(s) /\ Distinct(t) /\ Elements(s) \cap Elements(t) = {} => Distinct(s \o t)
           /\ s # << >> => (s \o t)[1] = s[1]
<1> DEFINE u == s \o t
           n == Len(s)
<1>1. /\ u \in Seq(X) /\ Len(u) = n + Len(t) /\ n \in Nat /\ Len(t) \in Nat
      /\ \A i \in 1 .. n : u[i] = s[i]
      /\ \A i \in 1 .. Len(u) : i > n => u[i] = t[i - n]
      /\ (s # << >> => n > 0)
  OBVIOUS
<1>2. s \o t = u
  OBVIOUS
<1> HIDE DEF u, n
<1>3. \A i \in 1 .. Len(u) : i \in 1 .. n \/ (i > n /\ i - n \in 1 .. Len(t))
  BY <1>1
<1>4. \A j \in 1 .. Len(t) : n + j \in 1 .. Len(u) /\ n + j > n /\ (n + j) - n = j
  BY <1>1
<1>5. \A i \in 1 .. n : i \in 1 .. Len(u)
  BY <1>1
<1>6. \A i \in 1 .. Len(u) : u[i] \in Elements(s) \cup Elements(t)
  BY <1>1, <1>3 DEF Elements, n
<1>7. \A j \in 1 .. Len(t) : u[n + j] = t[j]
  BY <1>1, <1>4
<1>8. Elements(u) = Elements(s) \cup Elements(t)
  <2>1. \A x \in Elements(s) : \E i \in 1 .. Len(u) : u[i] = x
    BY <1>1, <1>5 DEF Elements, n
  <2>2. \A x \in Elements(t) : \E i \in 1 .. Len(u) : u[i] = x
    BY <1>4, <1>7 DEF Elements
  <2>3. \A x : x \in Elements(u) <=> \E i \in 1 .. Len(u) : u[i] = x
    BY DEF Elements
  <2> QED
    BY <1>6, <2>1, <2>2, <2>3
<1>9. ASSUME Distinct(s), Distinct(t), Elements(s) \cap Elements(t) = {}
      PROVE  Distinct(u)
  <2> SUFFICES ASSUME NEW i \in 1 .. Len(u), NEW j \in 1 .. Len(u), u[i] = u[j]
               PROVE  i = j
    BY DEF Distinct
  <2>1. CASE i \in 1 .. n /\ j \in 1 .. n
    BY <1>1, <1>9, <2>1 DEF Distinct, n
  <2>2. CASE i > n /\ j > n
    <3>1. i - n \in 1 .. Len(t) /\ j - n \in 1 .. Len(t) /\ t[i - n] = t[j - n]
      BY <1>1, <1>3, <2>2
    <3>2. i - n = j - n
      BY <1>9, <3>1 DEF Distinct
    <3> QED
      BY <1>1, <3>2
  <2>3. ASSUME NEW a \in 1 .. n, NEW b \in 1 .. Len(u), b > n, u[a] = u[b]
        PROVE  FALSE
    <3>1. b - n \in 1 .. Len(t) /\ u[b] = t[b - n] /\ u[a] = s[a]
      BY <1>1, <1>3, <2>3
    <3>2. u[b] \in Elements(t) /\ u[a] \in Elements(s)
      BY <3>1 DEF Elements, n
    <3> QED
      BY <1>9, <2>3, <3>2
  <2> QED
    BY <1>3, <2>1, <2>2, <2>3
<1>10. s # << >> => u[1] = s[1]
  BY <1>1
<1> QED
  BY <1>1, <1>2, <1>8, <1>9, <1>10

AreConcatenations(f, s, n) == f = [i \in 0 .. n |-> IF i = 0 THEN << >> ELSE f[i - 1] \o s[i]]

\* The loop that extends a list computes some function.
LEMMA ConcatenationsExist ==
    ASSUME NEW s, NEW n \in Nat
    PROVE  \E f : AreConcatenations(f, s, n)
<1> DEFINE T == {k \in Nat : ~\E f : AreConcatenations(f, s, k)}
<1> SUFFICES ASSUME T # {}
             PROVE  FALSE
  OBVIOUS
<1>1. PICK k \in T : \A j \in T : k <= j
  BY Least
<1>2. k # 0
  <2>1. AreConcatenations([i \in 0 .. 0 |-> << >>], s, 0)
    BY DEF AreConcatenations
  <2> QED
    BY <2>1
<1>3. PICK f : AreConcatenations(f, s, k - 1)
  BY <1>1, <1>2
<1> DEFINE h == [i \in 0 .. k |-> IF i = k THEN f[k - 1] \o s[k] ELSE f[i]]
<1>4. \A i \in 0 .. k : h[i] = IF i = 0 THEN << >> ELSE h[i - 1] \o s[i]
  BY <1>1, <1>2, <1>3 DEF AreConcatenations
<1>5. AreConcatenations(h, s, k)
  BY <1>4 DEF AreConcatenations
<1> QED
  BY <1>1, <1>5

\* One round: the next list is appended.
LEMMA ConcatenationsUnfold ==
    ASSUME NEW s, Len(s) \in Nat
    PROVE  /\ Concatenations(s)[0] = << >>
           /\ \A i \in 1 .. Len(s) : Concatenations(s)[i] = Concatenations(s)[i - 1] \o s[i]
<1> DEFINE f == Concatenations(s)
           n == Len(s)
           v(i) == IF i = 0 THEN << >> ELSE f[i - 1] \o s[i]
<1>1. AreConcatenations(f, s, n)
  <2>1. PICK g : AreConcatenations(g, s, n)
    <3>1. n \in Nat
      OBVIOUS
    <3> HIDE DEF n
    <3> QED
      BY <3>1, ConcatenationsExist
  <2> QED
    BY <2>1 DEF Concatenations, AreConcatenations
<1> HIDE DEF f
<1>2. f = [i \in 0 .. n |-> v(i)]
  BY <1>1 DEF AreConcatenations
<1> HIDE DEF v
<1>3. \A i \in 0 .. n : f[i] = v(i)
  BY <1>2
<1>4. \A i \in 1 .. n : i \in 0 .. n /\ i # 0
  OBVIOUS
<1>5. 0 \in 0 .. n
  OBVIOUS
<1> QED
  BY <1>3, <1>4, <1>5 DEF f, v

\* Lists without a common element, one after another.
LEMMA FlattenJoins ==
    ASSUME NEW X, NEW s \in Seq(Seq(X)),
           \A i \in 1 .. Len(s) : Distinct(s[i]),
           \A i, j \in 1 .. Len(s) : i # j => Elements(s[i]) \cap Elements(s[j]) = {}
    PROVE  /\ Flatten(s) \in Seq(X) /\ Distinct(Flatten(s))
           /\ Elements(Flatten(s)) = UNION {Elements(s[i]) : i \in 1 .. Len(s)}
<1> DEFINE n == Len(s)
           f == Concatenations(s)
           Good(k) == /\ f[k] \in Seq(X) /\ Distinct(f[k])
                      /\ Elements(f[k]) = UNION {Elements(s[i]) : i \in 1 .. k}
           T == {k \in 0 .. n : ~Good(k)}
<1>1. n \in Nat /\ \A i \in 1 .. n : s[i] \in Seq(X)
  OBVIOUS
<1>2. f[0] = << >> /\ \A i \in 1 .. n : f[i] = f[i - 1] \o s[i]
  BY <1>1, ConcatenationsUnfold
<1> HIDE DEF f
<1>3. T = {}
  <2> SUFFICES ASSUME T # {}
               PROVE  FALSE
    OBVIOUS
  <2>1. PICK k \in T : \A j \in T : k <= j
    <3>1. T \subseteq Nat
      BY <1>1
    <3> HIDE DEF T
    <3> QED
      BY <3>1, Least
  <2>2. Good(0)
    <3>1. << >> \in Seq(X) /\ Distinct(<< >>) /\ Elements(<< >>) = {}
      BY DEF Distinct, Elements
    <3>2. UNION {Elements(s[i]) : i \in 1 .. 0} = {}
      OBVIOUS
    <3> QED
      BY <1>2, <3>1, <3>2
  <2>3. k # 0
    BY <2>1, <2>2
  <2>4. k \in 1 .. n /\ k - 1 \in 0 .. n /\ k - 1 \notin T
    <3>1. k \in 0 .. n
      OBVIOUS
    <3> HIDE DEF T, n
    <3> QED
      BY <1>1, <2>1, <2>3, <3>1
  <2>5. Good(k - 1)
    BY <2>4
  <2>6. f[k] = f[k - 1] \o s[k] /\ s[k] \in Seq(X) /\ Distinct(s[k])
    BY <1>1, <1>2, <2>4
  <2>7. Elements(f[k - 1]) \cap Elements(s[k]) = {}
    <3>1. \A i \in 1 .. (k - 1) : i \in 1 .. n /\ i # k
      <4>1. n \in Nat /\ k \in 1 .. n
        BY <1>1, <2>4
      <4> HIDE DEF T, n
      <4> QED
        BY <4>1
    <3>2. \A i \in 1 .. (k - 1) : Elements(s[i]) \cap Elements(s[k]) = {}
      BY <2>4, <3>1
    <3> QED
      BY <2>5, <3>2
  <2>8. UNION {Elements(s[i]) : i \in 1 .. k} = (UNION {Elements(s[i]) : i \in 1 .. (k - 1)}) \cup Elements(s[k])
    <3>1. \A i : i \in 1 .. k <=> i \in 1 .. (k - 1) \/ i = k
      <4>1. n \in Nat /\ k \in 1 .. n
        BY <1>1, <2>4
      <4> HIDE DEF T, n
      <4> QED
        BY <4>1
    <3> QED
      BY <3>1
  <2>9. f[k] \in Seq(X) /\ Distinct(f[k]) /\ Elements(f[k]) = Elements(f[k - 1]) \cup Elements(s[k])
    <3>1. f[k - 1] \in Seq(X) /\ Distinct(f[k - 1])
      BY <2>5
    <3> QED
      BY <2>6, <2>7, <3>1, Joined
  <2>10. Good(k)
    BY <2>5, <2>8, <2>9
  <2> QED
    BY <2>1, <2>10
<1>4. Good(n)
  <2>1. n \in 0 .. n
    BY <1>1
  <2> QED
    BY <1>3, <2>1
<1> QED
  BY <1>4 DEF Flatten, f

\* swap_remove of a list without repetitions.
LEMMA RemovedDistinct ==
    ASSUME NEW V, NEW s \in Seq(V), Distinct(s), NEW p \in 1 .. Len(s)
    PROVE  /\ SwapRemove(s, p) \in Seq(V) /\ Distinct(SwapRemove(s, p))
           /\ Elements(SwapRemove(s, p)) = Elements(s) \ {s[p]}
<1> DEFINE n == Len(s)
           t == SwapRemove(s, p)
<1>1. n \in Nat /\ n > 0 /\ \A i \in 1 .. n : s[i] \in V
  OBVIOUS
<1>2. /\ t \in Seq(V) /\ Len(t) = n - 1
      /\ \A k \in 1 .. (n - 1) : t[k] = IF k = p THEN s[n] ELSE s[k]
  BY <1>1 DEF SwapRemove
<1> HIDE DEF t
<1>3. \A i, j \in 1 .. n : s[i] = s[j] => i = j
  BY DEF Distinct
<1>4. \A k \in 1 .. (n - 1) : k \in 1 .. n /\ k # n
  BY <1>1
<1>5. n \in 1 .. n
  BY <1>1
<1>6. Distinct(t)
  BY <1>2, <1>3, <1>4, <1>5 DEF Distinct
<1>7. \A k \in 1 .. (n - 1) : t[k] \in Elements(s) /\ t[k] # s[p]
  BY <1>2, <1>3, <1>4, <1>5 DEF Elements
<1>8. ASSUME NEW i \in 1 .. n, i # p
      PROVE  s[i] \in Elements(t)
  <2>1. CASE i = n
    <3>1. p \in 1 .. (n - 1) /\ t[p] = s[n]
      BY <1>1, <1>2, <1>8, <2>1
    <3> QED
      BY <1>2, <2>1, <3>1 DEF Elements
  <2>2. CASE i # n
    <3>1. i \in 1 .. (n - 1) /\ t[i] = s[i]
      BY <1>1, <1>2, <1>8, <2>2
    <3> QED
      BY <1>2, <3>1 DEF Elements
  <2> QED
    BY <2>1, <2>2
<1>9. Elements(t) = Elements(s) \ {s[p]}
  BY <1>2, <1>7, <1>8 DEF Elements
<1> QED
  BY <1>2, <1>6, <1>9 DEF t

-----------------------------------------------------------------------------
(***************************************************************************)
(* The index the evaluator names                                            *)
(***************************************************************************)
AreIndices(f, index, s, n) ==
    f = [k \in 0 .. n |->
            IF k = 0 THEN index ELSE IF s[k] <= f[k - 1] THEN f[k - 1] + 1 ELSE f[k - 1]]

\* The loop over the skipped indices computes some function.
LEMMA IndicesExist ==
    ASSUME NEW index, NEW s, NEW n \in Nat
    PROVE  \E f : AreIndices(f, index, s, n)
<1> DEFINE T == {k \in Nat : ~\E f : AreIndices(f, index, s, k)}
<1> SUFFICES ASSUME T # {}
             PROVE  FALSE
  OBVIOUS
<1>1. PICK k \in T : \A j \in T : k <= j
  BY Least
<1>2. k # 0
  <2>1. AreIndices([i \in 0 .. 0 |-> index], index, s, 0)
    BY DEF AreIndices
  <2> QED
    BY <2>1
<1>3. PICK f : AreIndices(f, index, s, k - 1)
  BY <1>1, <1>2
<1> DEFINE h == [i \in 0 .. k |-> IF i = k THEN (IF s[k] <= f[k - 1] THEN f[k - 1] + 1 ELSE f[k - 1]) ELSE f[i]]
<1>4. \A i \in 0 .. k : h[i] = IF i = 0 THEN index ELSE IF s[i] <= h[i - 1] THEN h[i - 1] + 1 ELSE h[i - 1]
  <2> SUFFICES ASSUME NEW i \in 0 .. k
               PROVE  h[i] = IF i = 0 THEN index ELSE IF s[i] <= h[i - 1] THEN h[i - 1] + 1 ELSE h[i - 1]
    OBVIOUS
  <2> DEFINE v(j) == IF j = 0 THEN index ELSE IF s[j] <= f[j - 1] THEN f[j - 1] + 1 ELSE f[j - 1]
  <2>1. \A j \in 0 .. (k - 1) : f[j] = v(j)
    <3>1. f = [j \in 0 .. (k - 1) |-> v(j)]
      BY <1>3 DEF AreIndices
    <3> HIDE DEF v
    <3> QED
      BY <3>1
  <2>2. k \in Nat /\ \A j \in 0 .. (k - 1) : h[j] = f[j]
    OBVIOUS
  <2>3. CASE i = k
    <3>1. k - 1 \in 0 .. (k - 1)
      BY <1>2
    <3> QED
      BY <1>2, <2>2, <2>3, <3>1
  <2>4. CASE i = 0
    BY <1>2, <2>1, <2>2, <2>4
  <2>5. CASE i # k /\ i # 0
    <3>1. i \in 0 .. (k - 1) /\ i - 1 \in 0 .. (k - 1)
      BY <2>5
    <3> QED
      BY <2>1, <2>2, <2>5, <3>1
  <2> QED
    BY <2>3, <2>4, <2>5
<1>5. AreIndices(h, index, s, k)
  BY <1>4 DEF AreIndices
<1> QED
  BY <1>1, <1>5

\* One round: a skipped index at or before the current one moves it by one.
LEMMA IndicesUnfold ==
    ASSUME NEW index, NEW s, Len(s) \in Nat
    PROVE  /\ ActualIndex(index, s)[0] = index
           /\ \A k \in 1 .. Len(s) : ActualIndex(index, s)[k] =
                  IF s[k] <= ActualIndex(index, s)[k - 1]
                  THEN ActualIndex(index, s)[k - 1] + 1 ELSE ActualIndex(index, s)[k - 1]
<1> DEFINE f == ActualIndex(index, s)
           n == Len(s)
           v(k) == IF k = 0 THEN index ELSE IF s[k] <= f[k - 1] THEN f[k - 1] + 1 ELSE f[k - 1]
<1>1. AreIndices(f, index, s, n)
  <2>1. PICK g : AreIndices(g, index, s, n)
    <3>1. n \in Nat
      OBVIOUS
    <3> HIDE DEF n
    <3> QED
      BY <3>1, IndicesExist
  <2> QED
    BY <2>1 DEF ActualIndex, AreIndices
<1> HIDE DEF f
<1>2. f = [k \in 0 .. n |-> v(k)]
  BY <1>1 DEF AreIndices
<1> HIDE DEF v
<1>3. \A k \in 0 .. n : f[k] = v(k)
  BY <1>2
<1>4. \A k \in 1 .. n : k \in 0 .. n /\ k # 0
  OBVIOUS
<1>5. 0 \in 0 .. n
  OBVIOUS
<1> QED
  BY <1>3, <1>4, <1>5 DEF f, v

\* Counting past the skipped positions: of the positions up to k, a[k] are included and b[k]
\* skipped; p and s are those, and f is the index after each round.
Counts(m, U, index, a, b, p, s, f) ==
    /\ a \in [0 .. m -> Nat] /\ a[0] = 0 /\ b \in [0 .. m -> Nat] /\ b[0] = 0
    /\ \A k \in 0 .. m : b[k] <= b[m] /\ \A i \in 1 .. a[k] : p[i] \in 1 .. k
    /\ \A k \in 1 .. m : k \in U => a[k] = a[k - 1] /\ b[k] = b[k - 1] + 1 /\ s[b[k]] = k - 1
    /\ \A k \in 1 .. m : k \notin U => a[k] = a[k - 1] + 1 /\ b[k] = b[k - 1] /\ p[a[k]] = k
    /\ f[0] = index
    /\ \A i \in 1 .. b[m] : f[i] = IF s[i] <= f[i - 1] THEN f[i - 1] + 1 ELSE f[i - 1]

Counted(index, k, a, b, actual, q) ==
    /\ a + b = k /\ actual \in Nat
    /\ index < a => actual + 1 = q
    /\ index >= a => actual = index + b

\* Of a skipped position, the skipped ones before it grow by one.
LEMMA CountSkipped ==
    ASSUME NEW index \in Nat, NEW l \in Nat, NEW a \in Nat, NEW b \in Nat, NEW actual, NEW q,
           Counted(index, l, a, b, actual, q), index < a => q \in 1 .. l
    PROVE  Counted(index, l + 1, a, b + 1, IF l <= actual THEN actual + 1 ELSE actual, q)
  BY DEF Counted

\* Of an included position, the included ones before it grow by one.
LEMMA CountIncluded ==
    ASSUME NEW index \in Nat, NEW l \in Nat, NEW a \in Nat, NEW b \in Nat, NEW actual, NEW q,
           Counted(index, l, a, b, actual, q), index = a => q = l + 1
    PROVE  Counted(index, l + 1, a + 1, b, actual, q)
  BY DEF Counted

\* Going through the positions, the index moves past the skipped ones and stops at the named one.
LEMMA CountingPast ==
    ASSUME NEW m \in Nat, NEW U, NEW index \in Nat, NEW a, NEW b, NEW p, NEW s, NEW f,
           Counts(m, U, index, a, b, p, s, f)
    PROVE  Counted(index, m, a[m], b[m], f[b[m]], p[index + 1])
<1> DEFINE q == p[index + 1]
           T == {k \in 0 .. m : ~Counted(index, k, a[k], b[k], f[b[k]], q)}
<1>1. T = {}
  <2> SUFFICES ASSUME T # {}
               PROVE  FALSE
    OBVIOUS
  <2>1. PICK k \in T : \A j \in T : k <= j
    <3>1. T \subseteq Nat
      OBVIOUS
    <3> HIDE DEF T
    <3> QED
      BY <3>1, Least
  <2> DEFINE l == k - 1
  <2>2. k \in 0 .. m /\ ~Counted(index, k, a[k], b[k], f[b[k]], q)
    OBVIOUS
  <2>3. k # 0
    BY <2>2 DEF Counts, Counted
  <2>4. k \in 1 .. m /\ l \in 0 .. m /\ l \notin T /\ l \in Nat /\ l + 1 = k
    <3> HIDE DEF T
    <3> QED
      BY <2>1, <2>2, <2>3
  <2>5. Counted(index, l, a[l], b[l], f[b[l]], q)
    BY <2>4
  <2> HIDE DEF T, q
  <2>6. a[l] \in Nat /\ b[l] \in Nat /\ b[k] \in Nat /\ b[m] \in Nat /\ b[k] <= b[m]
    BY <2>2, <2>4 DEF Counts
  <2>7. CASE k \in U
    <3>1. a[k] = a[l] /\ b[k] = b[l] + 1 /\ s[b[k]] = l
      BY <2>4, <2>7 DEF Counts
    <3>2. b[k] \in 1 .. b[m] /\ b[k] - 1 = b[l]
      BY <2>6, <3>1
    <3>3. f[b[k]] = IF l <= f[b[l]] THEN f[b[l]] + 1 ELSE f[b[l]]
      BY <3>1, <3>2 DEF Counts
    <3>4. index < a[l] => q \in 1 .. l
      <4>1. index < a[l] => index + 1 \in 1 .. a[l]
        BY <2>6
      <4> QED
        BY <2>4, <4>1 DEF Counts, q
    <3> HIDE DEF l
    <3>5. Counted(index, l + 1, a[l], b[l] + 1, IF l <= f[b[l]] THEN f[b[l]] + 1 ELSE f[b[l]], q)
      BY <2>4, <2>5, <2>6, <3>4, CountSkipped
    <3> QED
      BY <2>2, <2>4, <3>1, <3>3, <3>5
  <2>8. CASE k \notin U
    <3>1. a[k] = a[l] + 1 /\ b[k] = b[l] /\ p[a[k]] = k
      BY <2>4, <2>8 DEF Counts
    <3>2. index = a[l] => q = l + 1
      BY <2>4, <3>1 DEF q
    <3> HIDE DEF l
    <3>3. Counted(index, l + 1, a[l] + 1, b[l], f[b[l]], q)
      BY <2>4, <2>5, <2>6, <3>2, CountIncluded
    <3> QED
      BY <2>2, <2>4, <3>1, <3>3
  <2> QED
    BY <2>7, <2>8
<1>2. Counted(index, m, a[m], b[m], f[b[m]], q)
  <2>1. m \in 0 .. m
    OBVIOUS
  <2> QED
    BY <1>1, <2>1
<1> QED
  BY <1>2

\* map_evaluator_to_actual_index finds the position that was named among 1 .. m without U.
LEMMA IndexIsMapped ==
    ASSUME NEW m \in Nat, NEW U, NEW index \in Nat, NEW s,
           s = [k \in 1 .. Len(Select(m, U)) |-> Select(m, U)[k] - 1]
    PROVE  /\ MapIndex(index, s) \in Nat
           /\ index < Len(Select(m, 1 .. m \ U)) => MapIndex(index, s) + 1 = Select(m, 1 .. m \ U)[index + 1]
<1> DEFINE I == 1 .. m \ U
           A == Selections(m, I)
           B == Selections(m, U)
           a == [k \in 0 .. m |-> Len(A[k])]
           b == [k \in 0 .. m |-> Len(B[k])]
           f == ActualIndex(index, s)
<1>1. \A k \in 0 .. m : A[k] \in Seq(Nat) /\ B[k] \in Seq(Nat)
  BY SelectionsSelect DEF Selected
<1>2. /\ A[0] = << >> /\ B[0] = << >>
      /\ \A k \in 1 .. m : A[k] = IF k \in I THEN Append(A[k - 1], k) ELSE A[k - 1]
      /\ \A k \in 1 .. m : B[k] = IF k \in U THEN Append(B[k - 1], k) ELSE B[k - 1]
  <2> HIDE DEF I
  <2> QED
    BY SelectionsUnfold
<1>3. ASSUME NEW S, NEW k \in 0 .. m
      PROVE  Begins(Selections(m, S)[k], Selections(m, S)[m])
  <2>1. m \in 0 .. m /\ k <= m
    OBVIOUS
  <2> QED
    BY <2>1, SelectionsGrow
<1>4. \A k \in 0 .. m : Len(A[k]) <= Len(A[m]) /\ \A i \in 1 .. Len(A[k]) : A[m][i] = A[k][i]
  BY <1>3 DEF Begins
<1>5. \A k \in 0 .. m : Len(B[k]) <= Len(B[m]) /\ \A i \in 1 .. Len(B[k]) : B[m][i] = B[k][i]
  BY <1>3 DEF Begins
<1>6. \A k \in 0 .. m : \A i \in 1 .. Len(A[k]) : A[k][i] \in 1 .. k
  <2> HIDE DEF I
  <2> QED
    BY SelectionsSelect DEF Selected, Elements
<1>7. A[m] = Select(m, I) /\ B[m] = Select(m, U) /\ m \in 0 .. m
  BY DEF Select
<1>8. m \in 0 .. m /\ \A k \in 1 .. m : (k \in I <=> k \notin U) /\ k - 1 \in 0 .. m /\ k \in 0 .. m
  OBVIOUS
<1> HIDE DEF I, A, B
<1>9. a \in [0 .. m -> Nat] /\ b \in [0 .. m -> Nat] /\ \A k \in 0 .. m : a[k] = Len(A[k]) /\ b[k] = Len(B[k])
  BY <1>1
<1> HIDE DEF a, b
<1>10. Len(s) = b[m] /\ Len(s) \in Nat /\ \A i \in 1 .. b[m] : s[i] = B[m][i] - 1
  <2>1. Len(B[m]) \in Nat /\ s = [k \in 1 .. Len(B[m]) |-> B[m][k] - 1]
    BY <1>1, <1>7
  <2> QED
    BY <1>7, <1>9, <2>1
<1>11. f[0] = index /\ \A k \in 1 .. b[m] : f[k] = IF s[k] <= f[k - 1] THEN f[k - 1] + 1 ELSE f[k - 1]
  BY <1>10, IndicesUnfold
<1>12. f[b[m]] = MapIndex(index, s)
  BY <1>10 DEF MapIndex
<1> HIDE DEF f
<1>13. a[0] = 0 /\ b[0] = 0
  BY <1>2, <1>9
<1>14. ASSUME NEW k \in 1 .. m, k \in U
       PROVE  a[k] = a[k - 1] /\ b[k] = b[k - 1] + 1 /\ s[b[k]] = k - 1
  <2>1. A[k] = A[k - 1] /\ B[k] = Append(B[k - 1], k) /\ B[k - 1] \in Seq(Nat) /\ k \in Nat
    <3>1. k \notin I /\ k - 1 \in 0 .. m /\ k \in Nat
      BY <1>8, <1>14
    <3> QED
      BY <1>1, <1>2, <1>14, <3>1
  <2>2. Len(B[k]) = Len(B[k - 1]) + 1 /\ B[k][Len(B[k])] = k /\ Len(B[k - 1]) \in Nat
    BY <2>1
  <2>3. a[k] = a[k - 1] /\ b[k] = b[k - 1] + 1 /\ b[k - 1] \in Nat /\ b[k] = Len(B[k])
    BY <1>8, <1>9, <2>1, <2>2
  <2>4. b[k] \in 1 .. b[m] /\ b[k] \in 1 .. Len(B[k])
    <3>1. Len(B[k]) <= Len(B[m]) /\ b[m] = Len(B[m]) /\ b[m] \in Nat
      BY <1>5, <1>8, <1>9
    <3> QED
      BY <2>3, <3>1
  <2>5. B[m][b[k]] = B[k][b[k]]
    BY <1>5, <1>8, <2>4
  <2> QED
    BY <1>10, <2>2, <2>3, <2>4, <2>5
<1>15. ASSUME NEW k \in 1 .. m, k \notin U
       PROVE  a[k] = a[k - 1] + 1 /\ b[k] = b[k - 1] /\ A[m][a[k]] = k
  <2>1. B[k] = B[k - 1] /\ A[k] = Append(A[k - 1], k) /\ A[k - 1] \in Seq(Nat) /\ k \in Nat
    <3>1. k \in I /\ k - 1 \in 0 .. m /\ k \in Nat
      BY <1>8, <1>15
    <3> QED
      BY <1>1, <1>2, <1>15, <3>1
  <2>2. Len(A[k]) = Len(A[k - 1]) + 1 /\ A[k][Len(A[k])] = k /\ Len(A[k - 1]) \in Nat
    BY <2>1
  <2>3. b[k] = b[k - 1] /\ a[k] = a[k - 1] + 1 /\ a[k - 1] \in Nat /\ a[k] = Len(A[k])
    BY <1>8, <1>9, <2>1, <2>2
  <2>4. a[k] \in 1 .. Len(A[k])
    BY <2>3
  <2>5. A[m][a[k]] = A[k][a[k]]
    BY <1>4, <1>8, <2>4
  <2> QED
    BY <2>2, <2>3, <2>5
<1>16. \A k \in 0 .. m : \A i \in 1 .. a[k] : A[m][i] \in 1 .. k
  BY <1>4, <1>6, <1>9
<1>17. \A k \in 0 .. m : b[k] <= b[m]
  BY <1>5, <1>8, <1>9
<1>18. Counts(m, U, index, a, b, A[m], s, f)
  BY <1>9, <1>11, <1>13, <1>14, <1>15, <1>16, <1>17 DEF Counts
<1>19. Counted(index, m, a[m], b[m], f[b[m]], A[m][index + 1])
  BY <1>18, CountingPast
<1> QED
  BY <1>7, <1>9, <1>12, <1>19 DEF I, Counted

-----------------------------------------------------------------------------
(***************************************************************************)
(* The calls of an answer                                                   *)
(***************************************************************************)
CallSet == {"model", "embedding"} \X Nat

AllCalls(S) == UNION {Elements(Calls(i)) : i \in S}

\* The results are the candidates that succeeded, each once.
LEMMA ResultsList ==
    /\ Results \in Seq(Succeeded) /\ Distinct(Results) /\ Elements(Results) = Succeeded
    /\ Len(Results) \in Nat /\ Succeeded \subseteq Nat
<1>1. N \in Nat /\ N \in 0 .. N
  BY CandidatesAssumption
<1>2. Selected(Results, N, Succeeded)
  BY <1>1, SelectionsSelect DEF Results, Select
<1>3. {i \in 1 .. N : i \in Succeeded} = Succeeded /\ Succeeded \subseteq Nat
  BY DEF Succeeded, Candidates
<1>4. Results \in Seq(Nat) /\ Elements(Results) = Succeeded /\ Ascending(Results)
  BY <1>2, <1>3 DEF Selected
<1>5. \A i \in 1 .. Len(Results) : Results[i] \in Succeeded /\ Results[i] \in Nat
  BY <1>3, <1>4 DEF Elements
<1>6. Results \in Seq(Succeeded) /\ Len(Results) \in Nat
  BY <1>4, <1>5
<1>7. Distinct(Results)
  BY <1>4, <1>5, <1>6 DEF Ascending, Distinct
<1> QED
  BY <1>3, <1>4, <1>6, <1>7

\* The calls of one result: its own, each once, the model call first.
LEMMA CallsOfOne ==
    ASSUME NEW i \in Nat
    PROVE  /\ Calls(i) \in Seq(CallSet) /\ Distinct(Calls(i)) /\ Calls(i) # << >> /\ Calls(i)[1] = Model(i)
           /\ \A c \in Elements(Calls(i)) : c[2] = i
           /\ Elements(Calls(i)) =
                  IF i # Judge /\ candidate[i].kind = "dicl" THEN {Model(i), Embedding(i)} ELSE {Model(i)}
<1> DEFINE x == <<"model", i>>
           y == <<"embedding", i>>
<1>1. x \in CallSet /\ y \in CallSet /\ x # y /\ x[2] = i /\ y[2] = i
  BY DEF CallSet
<1>2. Model(i) = x /\ Embedding(i) = y /\ (i = Judge => Model(Judge) = x)
  BY DEF Model, Embedding
<1>3. Calls(i) = IF i # Judge /\ candidate[i].kind = "dicl" THEN <<x, y>> ELSE <<x>>
  BY <1>2 DEF Calls
<1> HIDE DEF x, y
<1>4. <<x, y>> \in Seq(CallSet) /\ Len(<<x, y>>) = 2 /\ <<x, y>>[1] = x /\ <<x, y>>[2] = y
  BY <1>1
<1>5. <<x>> \in Seq(CallSet) /\ Len(<<x>>) = 1 /\ <<x>>[1] = x
  BY <1>1
<1>6. CASE i # Judge /\ candidate[i].kind = "dicl"
  <2> DEFINE s == <<x, y>>
  <2>1. Calls(i) = s /\ s \in Seq(CallSet) /\ Len(s) = 2 /\ s[1] = x /\ s[2] = y
    BY <1>3, <1>4, <1>6
  <2> HIDE DEF s
  <2>2. \A k : k \in 1 .. 2 <=> k = 1 \/ k = 2
    OBVIOUS
  <2>3. Elements(s) = {x, y}
    BY <2>1, <2>2 DEF Elements
  <2>4. Distinct(s)
    BY <1>1, <2>1, <2>2 DEF Distinct
  <2> QED
    BY <1>1, <1>2, <1>6, <2>1, <2>3, <2>4
<1>7. CASE ~(i # Judge /\ candidate[i].kind = "dicl")
  <2> DEFINE s == <<x>>
  <2>1. Calls(i) = s /\ s \in Seq(CallSet) /\ Len(s) = 1 /\ s[1] = x
    BY <1>3, <1>5, <1>7
  <2> HIDE DEF s
  <2>2. \A k : k \in 1 .. 1 <=> k = 1
    OBVIOUS
  <2>3. Elements(s) = {x}
    BY <2>1, <2>2 DEF Elements
  <2>4. Distinct(s)
    BY <2>1, <2>2 DEF Distinct
  <2> QED
    BY <1>1, <1>2, <1>7, <2>1, <2>3, <2>4
<1> QED
  BY <1>6, <1>7

\* The calls of several results: all of theirs, each once.
LEMMA CallsOfMany ==
    ASSUME NEW r \in Seq(Nat), Distinct(r)
    PROVE  CallsOf(r) \in Seq(CallSet) /\ Distinct(CallsOf(r)) /\ Elements(CallsOf(r)) = AllCalls(Elements(r))
<1> DEFINE n == Len(r)
           t == [k \in 1 .. n |-> Calls(r[k])]
<1>1. n \in Nat /\ \A k \in 1 .. n : r[k] \in Nat
  OBVIOUS
<1>2. \A k \in 1 .. n : t[k] = Calls(r[k]) /\ t[k] \in Seq(CallSet) /\ Distinct(t[k])
  BY <1>1, CallsOfOne
<1>3. t \in Seq(Seq(CallSet)) /\ Len(t) = n
  BY <1>1, <1>2
<1>4. CallsOf(r) = Flatten(t)
  BY DEF CallsOf
<1> HIDE DEF t, n
<1>5. \A k, l \in 1 .. n : k # l => Elements(t[k]) \cap Elements(t[l]) = {}
  <2> SUFFICES ASSUME NEW k \in 1 .. n, NEW l \in 1 .. n, k # l
               PROVE  Elements(t[k]) \cap Elements(t[l]) = {}
    OBVIOUS
  <2>1. r[k] # r[l]
    BY DEF Distinct, n
  <2>2. \A c \in Elements(Calls(r[k])) : c[2] = r[k]
    BY <1>1, CallsOfOne
  <2>3. \A c \in Elements(Calls(r[l])) : c[2] = r[l]
    BY <1>1, CallsOfOne
  <2> QED
    BY <1>2, <2>1, <2>2, <2>3
<1>6. /\ Flatten(t) \in Seq(CallSet) /\ Distinct(Flatten(t))
      /\ Elements(Flatten(t)) = UNION {Elements(t[k]) : k \in 1 .. n}
  BY <1>2, <1>3, <1>5, FlattenJoins
<1>7. UNION {Elements(t[k]) : k \in 1 .. n} = AllCalls(Elements(r))
  <2>1. AllCalls(Elements(r)) = UNION {Elements(Calls(r[k])) : k \in 1 .. n}
    <3>1. Elements(r) = {r[k] : k \in 1 .. n}
      BY DEF Elements, n
    <3> QED
      BY <3>1 DEF AllCalls
  <2> QED
    BY <1>2, <2>1
<1> QED
  BY <1>4, <1>6, <1>7

\* The calls of a candidate that is returned, those of the others and of the judge.
LEMMA CallsOfResult ==
    ASSUME NEW k \in 1 .. Len(Results), NEW judged \in BOOLEAN, NEW calls,
           calls = Calls(Results[k]) \o CallsOf(SwapRemove(Results, k)) \o (IF judged THEN Calls(Judge) ELSE << >>)
    PROVE  /\ calls \in Seq(CallSet) /\ Distinct(calls) /\ calls[1] = Model(Results[k])
           /\ Elements(calls) = AllCalls(Succeeded) \cup IF judged THEN {Model(Judge)} ELSE {}
<1> DEFINE r == SwapRemove(Results, k)
           i == Results[k]
           a == Calls(i)
           b == CallsOf(r)
           c == IF judged THEN Calls(Judge) ELSE << >>
<1>1. /\ Results \in Seq(Succeeded) /\ Distinct(Results) /\ Elements(Results) = Succeeded /\ Succeeded \subseteq Nat
      /\ i \in Succeeded /\ i \in Nat
  <2>1. i \in Elements(Results)
    BY DEF Elements
  <2> QED
    BY <2>1, ResultsList
<1>2. r \in Seq(Succeeded) /\ Distinct(r) /\ Elements(r) = Succeeded \ {i}
  BY <1>1, RemovedDistinct
<1>3. calls = (a \o b) \o c
  OBVIOUS
<1> HIDE DEF r, i
<1>4. r \in Seq(Nat)
  <2>1. Len(r) \in Nat /\ r \in [1 .. Len(r) -> Succeeded]
    BY <1>2
  <2>2. r \in [1 .. Len(r) -> Nat]
    BY <1>1, <2>1
  <2> QED
    BY <2>1, <2>2
<1>5. a \in Seq(CallSet) /\ Distinct(a) /\ a # << >> /\ a[1] = Model(i) /\ \A x \in Elements(a) : x[2] = i
  BY <1>1, CallsOfOne
<1>6. b \in Seq(CallSet) /\ Distinct(b) /\ Elements(b) = AllCalls(Succeeded \ {i})
  BY <1>2, <1>4, CallsOfMany
<1>7. Judge \in Nat /\ \A l \in Succeeded : l # Judge
  BY CandidatesAssumption DEF Judge, Succeeded, Candidates
<1>8. /\ c \in Seq(CallSet) /\ Distinct(c)
      /\ Elements(c) = IF judged THEN {Model(Judge)} ELSE {}
      /\ \A x \in Elements(c) : x[2] = Judge
  <2>1. CASE judged
    BY <1>7, <2>1, CallsOfOne
  <2>2. CASE ~judged
    BY <2>2 DEF Distinct, Elements
  <2> QED
    BY <2>1, <2>2
<1>9. \A l \in Succeeded : \A x \in Elements(Calls(l)) : x[2] = l
  BY <1>1, CallsOfOne
<1>10. Elements(a) \cap Elements(b) = {}
  BY <1>5, <1>6, <1>9 DEF AllCalls
<1>11. Elements(a) \cup Elements(b) = AllCalls(Succeeded)
  BY <1>1, <1>6 DEF AllCalls
<1> HIDE DEF a, b, c
<1>12. a \o b \in Seq(CallSet) /\ Distinct(a \o b) /\ Elements(a \o b) = AllCalls(Succeeded) /\ (a \o b)[1] = Model(i)
  BY <1>5, <1>6, <1>10, <1>11, Joined
<1>13. Elements(a \o b) \cap Elements(c) = {}
  BY <1>7, <1>8, <1>9, <1>12 DEF AllCalls
<1>14. a \o b # << >>
  BY <1>5, <1>6
<1> DEFINE ab == a \o b
<1> HIDE DEF ab
<1>15. ab \o c \in Seq(CallSet) /\ Distinct(ab \o c) /\ Elements(ab \o c) = Elements(ab) \cup Elements(c) /\ (ab \o c)[1] = ab[1]
  <2>1. ab \in Seq(CallSet) /\ Distinct(ab) /\ Elements(ab) \cap Elements(c) = {} /\ ab # << >>
    BY <1>12, <1>13, <1>14 DEF ab
  <2>2. c \in Seq(CallSet) /\ Distinct(c)
    BY <1>8
  <2> QED
    BY <2>1, <2>2, Joined
<1> QED
  BY <1>3, <1>8, <1>12, <1>15 DEF ab, i

-----------------------------------------------------------------------------
(***************************************************************************)
(* Candidates and judge                                                     *)
(***************************************************************************)
\* A candidate's calls are made in its order, and the judge's when it answers.
MadeInv ==
    /\ made \subseteq CallSet
    /\ \A c \in made : c[2] \in Candidates \/ c = Model(Judge)
    /\ \A i \in Candidates :
          /\ Model(i) \in made <=> candidate[i].phase = "done"
          /\ Embedding(i) \in made => candidate[i].kind = "dicl"
          /\ candidate[i].kind = "dicl" /\ candidate[i].phase \in {"embedded", "prompted", "done"}
                => Embedding(i) \in made
    /\ phase \in {"candidates", "judge"} => Model(Judge) \notin made

\* What the judge was shown is what there is to show, until it has answered.
JudgeInv ==
    /\ phase = "candidates" => judge.named = {}
    /\ phase = "judge" => judge = [shown |-> Shown, named |-> {}]

CandidatesInv ==
    /\ candidate \in [Candidates -> [kind : {"chat_completion", "dicl", "chain_of_thought"},
                                     phase : {"running", "embedded", "prompted"} \cup Over,
                                     output : {"none", "parsed", "unparsed", "known", "unknown"}]]
    /\ MadeInv /\ JudgeInv
    /\ CallsStoredOnce /\ NamedIsReturned /\ OneIsEnough

\* No candidate has started.
LEMMA CandidatesStart == ASSUME CandidatesInit PROVE CandidatesInv
  BY DEF CandidatesInit, CandidatesInv, MadeInv, JudgeInv, CallsStoredOnce, NamedIsReturned, OneIsEnough,
         Kinds, NoJudge

\* The calls that were made for the candidates that succeeded.
LEMMA CallsMade ==
    ASSUME CandidatesInv, phase \in {"candidates", "judge"}
    PROVE  /\ {c \in made : c[2] \in Succeeded \cup {Judge}} = AllCalls(Succeeded)
           /\ {c \in made \cup {Model(Judge)} : c[2] \in Succeeded \cup {Judge}} = AllCalls(Succeeded) \cup {Model(Judge)}
<1>1. Judge \in Nat /\ Judge \notin Candidates /\ Candidates \subseteq Nat /\ Succeeded \subseteq Candidates
  BY CandidatesAssumption DEF Judge, Candidates, Succeeded
<1>2. \A i \in Succeeded : Elements(Calls(i)) = IF candidate[i].kind = "dicl" THEN {Model(i), Embedding(i)} ELSE {Model(i)}
  <2> SUFFICES ASSUME NEW i \in Succeeded
               PROVE  Elements(Calls(i)) = IF candidate[i].kind = "dicl" THEN {Model(i), Embedding(i)} ELSE {Model(i)}
    OBVIOUS
  <2>1. i \in Nat /\ i # Judge
    BY <1>1
  <2> QED
    BY <2>1, CallsOfOne
<1>3. \A i \in Succeeded : \A c \in Elements(Calls(i)) : c \in made /\ c[2] = i
  <2> SUFFICES ASSUME NEW i \in Succeeded, NEW c \in Elements(Calls(i))
               PROVE  c \in made /\ c[2] = i
    OBVIOUS
  <2>1. i \in Candidates /\ candidate[i].phase = "done"
    BY DEF Succeeded
  <2>2. Model(i) \in made /\ (candidate[i].kind = "dicl" => Embedding(i) \in made)
    BY <2>1 DEF CandidatesInv, MadeInv
  <2>3. c[2] = i
    BY <1>1, CallsOfOne
  <2> QED
    BY <1>2, <2>2, <2>3
<1>4. ASSUME NEW c \in made, c[2] \in Succeeded
      PROVE  c \in Elements(Calls(c[2]))
  <2>1. c \in {"model", "embedding"} \X Nat
    BY DEF CandidatesInv, MadeInv, CallSet
  <2>2. c = <<c[1], c[2]>> /\ c[1] \in {"model", "embedding"}
    BY <2>1
  <2>3. c = Model(c[2]) \/ c = Embedding(c[2])
    BY <2>2 DEF Model, Embedding
  <2>4. c = Embedding(c[2]) => candidate[c[2]].kind = "dicl"
    BY <1>1, <1>4 DEF CandidatesInv, MadeInv
  <2> QED
    BY <1>2, <1>4, <2>3, <2>4
<1>5. ASSUME NEW c \in made
      PROVE  c[2] # Judge
  <2>1. c # Model(Judge)
    BY DEF CandidatesInv, MadeInv
  <2> QED
    BY <1>1, <2>1 DEF CandidatesInv, MadeInv
<1>6. {c \in made : c[2] \in Succeeded \cup {Judge}} = AllCalls(Succeeded)
  BY <1>3, <1>4, <1>5 DEF AllCalls
<1>7. Model(Judge)[2] = Judge
  BY DEF Model
<1> QED
  BY <1>6, <1>7

\* A list without repetition is injective.
LEMMA ListIsSet ==
    ASSUME NEW s \in Seq(CallSet), Distinct(s)
    PROVE  IsInjective(s) /\ ToSet(s) = Elements(s)
<1>1. DOMAIN s = 1 .. Len(s)
  OBVIOUS
<1> QED
  BY <1>1 DEF IsInjective, ToSet, Elements, Distinct

\* A candidate is returned, after the judge answered or not.
LEMMA CandidateReturned ==
    ASSUME CandidatesInv, phase \in {"candidates", "judge"}, NEW judged \in BOOLEAN,
           NEW k \in 1 .. Len(Results), ReturnCandidate(k, judged), UNCHANGED <<request, candidate>>,
           made' = IF judged THEN made \cup {Model(Judge)} ELSE made
    PROVE  /\ phase' \in {"answered", "failed"} /\ CallsStoredOnce' /\ OneIsEnough' /\ MadeInv'
           /\ phase' = "answered" => answer'.by = Results[k]
<1> DEFINE calls == Calls(Results[k]) \o CallsOf(SwapRemove(Results, k))
                    \o (IF judged THEN Calls(Judge) ELSE << >>)
           orig == IF judged THEN "judge" ELSE "none"
           res == [by |-> Results[k], streamed |-> FALSE, calls |-> calls, original |-> orig]
<1>1. Return(res)
  BY DEF ReturnCandidate
<1>2. /\ calls \in Seq(CallSet) /\ Distinct(calls) /\ calls[1] = Model(Results[k])
      /\ Elements(calls) = AllCalls(Succeeded) \cup IF judged THEN {Model(Judge)} ELSE {}
  BY CallsOfResult
<1>3. Results[k] \in Succeeded
  <2>1. Results[k] \in Elements(Results)
    BY DEF Elements
  <2> QED
    BY <2>1, ResultsList
<1> HIDE DEF calls, orig
<1>4. \/ phase' = "answered" /\ answer'.by = Results[k] /\ answer'.calls = calls
      \/ phase' = "failed" /\ request.stream /\ candidate[Results[k]].output = "unknown"
  BY <1>1 DEF Return, Streamed
<1>5. Succeeded' = Succeeded
  BY DEF Succeeded, Candidates
<1>6. {c \in made' : c[2] \in Succeeded' \cup {Judge}} = Elements(calls)
  BY <1>2, <1>5, CallsMade
<1>7. IsInjective(calls) /\ ToSet(calls) = Elements(calls)
  BY <1>2, ListIsSet
<1>8. CallsStoredOnce'
  BY <1>2, <1>4, <1>6, <1>7 DEF CallsStoredOnce, Judge, Model
<1>9. OneIsEnough'
  BY <1>3, <1>4, <1>5 DEF OneIsEnough
<1>10. MadeInv'
  <2>1. Model(Judge) \in CallSet /\ \A i \in Candidates : Model(Judge) # Model(i) /\ Model(Judge) # Embedding(i)
    BY CandidatesAssumption DEF Model, Embedding, CallSet, Judge, Candidates
  <2>2. phase' \notin {"candidates", "judge"}
    BY <1>4
  <2>3. MadeInv
    BY DEF CandidatesInv
  <2>4. \A i \in Candidates : (Model(i) \in made' <=> Model(i) \in made) /\ (Embedding(i) \in made' <=> Embedding(i) \in made)
    BY <2>1
  <2>5. made' \subseteq made \cup {Model(Judge)}
    OBVIOUS
  <2> QED
    BY <2>1, <2>2, <2>3, <2>4, <2>5 DEF MadeInv, Candidates, Model, Embedding, Judge, CallSet
<1> QED
  BY <1>4, <1>8, <1>9, <1>10

\* A candidate embeds, fetches, is answered or fails: only its own calls and phase move.
LEMMA CandidateWorks ==
    ASSUME CandidatesInv, NEW i \in Candidates,
           Embed(i) \/ FetchExamples(i) \/ ModelAnswers(i) \/ CandidateFails(i)
    PROVE  CandidatesInv'
<1>1. phase = "candidates" /\ phase' = "candidates" /\ UNCHANGED <<request, judge, answer>>
  BY DEF Embed, FetchExamples, ModelAnswers, CandidateFails
<1>2. candidate \in [Candidates -> [kind : {"chat_completion", "dicl", "chain_of_thought"},
                                    phase : {"running", "embedded", "prompted"} \cup Over,
                                    output : {"none", "parsed", "unparsed", "known", "unknown"}]]
  BY DEF CandidatesInv
<1>3. candidate' \in [Candidates -> [kind : {"chat_completion", "dicl", "chain_of_thought"},
                                     phase : {"running", "embedded", "prompted"} \cup Over,
                                     output : {"none", "parsed", "unparsed", "known", "unknown"}]]
  <2>1. CASE Embed(i)
    BY <1>2, <2>1 DEF Embed, Over
  <2>2. CASE FetchExamples(i)
    BY <1>2, <2>2 DEF FetchExamples, Over
  <2>3. CASE ModelAnswers(i)
    <3>1. PICK output \in {"parsed", "unparsed", "known", "unknown"} :
              candidate' = [candidate EXCEPT ![i] = [@ EXCEPT !.phase = "done", !.output = output]]
      BY <2>3 DEF ModelAnswers, Outputs
    <3> QED
      BY <1>2, <3>1 DEF Over
  <2>4. CASE CandidateFails(i)
    BY <1>2, <2>4 DEF CandidateFails, Over
  <2> QED
    BY <2>1, <2>2, <2>3, <2>4
<1>4. /\ \A j \in Candidates : candidate'[j].kind = candidate[j].kind
      /\ \A j \in Candidates : j # i => candidate'[j] = candidate[j]
      /\ candidate[i].phase # "done"
  <2>1. CASE Embed(i)
    BY <1>2, <2>1 DEF Embed
  <2>2. CASE FetchExamples(i)
    BY <1>2, <2>2 DEF FetchExamples
  <2>3. CASE ModelAnswers(i)
    <3>1. PICK output : candidate' = [candidate EXCEPT ![i] = [@ EXCEPT !.phase = "done", !.output = output]]
      BY <2>3 DEF ModelAnswers
    <3>2. candidate[i].phase # "done"
      BY <2>3 DEF ModelAnswers, MayAsk
    <3> QED
      BY <1>2, <3>1, <3>2
  <2>4. CASE CandidateFails(i)
    BY <1>2, <2>4 DEF CandidateFails, Over
  <2> QED
    BY <2>1, <2>2, <2>3, <2>4
<1>5. \/ made' = made /\ candidate'[i].phase \in {"prompted", "failed"}
         /\ (candidate'[i].phase = "prompted" => candidate[i].phase = "embedded")
      \/ made' = made \cup {Embedding(i)} /\ candidate'[i].phase = "embedded" /\ candidate[i].kind = "dicl"
      \/ made' = made \cup {Model(i)} /\ candidate'[i].phase = "done"
         /\ (candidate[i].kind = "dicl" => candidate[i].phase = "prompted")
  <2>1. CASE Embed(i)
    BY <1>2, <2>1 DEF Embed
  <2>2. CASE FetchExamples(i)
    BY <1>2, <2>2 DEF FetchExamples
  <2>3. CASE ModelAnswers(i)
    BY <1>2, <2>3 DEF ModelAnswers, MayAsk
  <2>4. CASE CandidateFails(i)
    BY <1>2, <2>4 DEF CandidateFails
  <2> QED
    BY <2>1, <2>2, <2>3, <2>4
<1>6. /\ Model(i) \in CallSet /\ Embedding(i) \in CallSet /\ Model(i)[2] = i /\ Embedding(i)[2] = i
      /\ Model(i) # Model(Judge) /\ Embedding(i) # Model(Judge) /\ Model(i) # Embedding(i)
      /\ \A j \in Candidates : /\ j # i => Model(j) # Model(i) /\ Embedding(j) # Embedding(i)
                               /\ Model(j) # Embedding(i) /\ Embedding(j) # Model(i)
  BY CandidatesAssumption DEF Model, Embedding, CallSet, Judge, Candidates
<1>7. MadeInv
  BY DEF CandidatesInv
<1>8. \A j \in Candidates :
          /\ Model(j) \in made' <=> candidate'[j].phase = "done"
          /\ Embedding(j) \in made' => candidate'[j].kind = "dicl"
          /\ candidate'[j].kind = "dicl" /\ candidate'[j].phase \in {"embedded", "prompted", "done"}
                => Embedding(j) \in made'
  <2> SUFFICES ASSUME NEW j \in Candidates
               PROVE  /\ Model(j) \in made' <=> candidate'[j].phase = "done"
                      /\ Embedding(j) \in made' => candidate'[j].kind = "dicl"
                      /\ candidate'[j].kind = "dicl" /\ candidate'[j].phase \in {"embedded", "prompted", "done"}
                            => Embedding(j) \in made'
    OBVIOUS
  <2>1. CASE j = i
    BY <1>4, <1>5, <1>6, <1>7, <2>1 DEF MadeInv
  <2>2. CASE j # i
    <3>1. (Model(j) \in made' <=> Model(j) \in made) /\ (Embedding(j) \in made' <=> Embedding(j) \in made)
      BY <1>5, <1>6, <2>2
    <3> QED
      BY <1>4, <1>7, <2>2, <3>1 DEF MadeInv
  <2> QED
    BY <2>1, <2>2
<1>9. /\ made' \subseteq CallSet
      /\ \A c \in made' : c[2] \in Candidates \/ c = Model(Judge)
      /\ Model(Judge) \notin made'
  BY <1>1, <1>5, <1>6, <1>7 DEF MadeInv
<1>10. MadeInv'
  BY <1>8, <1>9 DEF MadeInv, Model, Embedding, Judge, Candidates, CallSet
<1> QED
  BY <1>1, <1>3, <1>10 DEF CandidatesInv, JudgeInv, CallsStoredOnce, NamedIsReturned, OneIsEnough, Candidates, Over

\* What the judge is shown: results, at the positions that parsed.
LEMMA ShownResults ==
    /\ Len(Shown) = Len(Included) /\ Len(Included) \in Nat
    /\ \A k \in 1 .. Len(Included) : Shown[k] = Results[Included[k]] /\ Included[k] \in 1 .. Len(Results)
<1> DEFINE n == Len(Results)
           I == 1 .. n \ Unparsed
<1>1. n \in Nat /\ n \in 0 .. n
  BY ResultsList
<1>2. Included = Selections(n, I)[n]
  BY DEF Included, Select
<1> HIDE DEF n, I
<1>3. Selected(Included, n, I)
  BY <1>1, <1>2, SelectionsSelect
<1>4. Included \in Seq(Nat) /\ Elements(Included) = {k \in 1 .. n : k \in I}
  BY <1>3 DEF Selected
<1>5. Len(Included) \in Nat /\ \A k \in 1 .. Len(Included) : Included[k] \in 1 .. n
  BY <1>4 DEF Elements
<1>6. Shown = [k \in 1 .. Len(Included) |-> Results[Included[k]]]
  BY DEF Shown, EvaluatorSees, FuserSees
<1> QED
  BY <1>5, <1>6 DEF n

\* Every candidate failed.
LEMMA NobodySucceeds ==
    ASSUME CandidatesInv, NoCandidate
    PROVE  CandidatesInv'
<1>1. /\ phase = "candidates" /\ phase' = "failed" /\ UNCHANGED <<request, candidate, made, judge, answer>>
      /\ Results = << >>
  BY DEF NoCandidate, CandidatesEnd
<1>2. Succeeded = {}
  <2>1. Len(Results) = 0
    BY <1>1
  <2>2. Elements(Results) = {}
    BY <2>1 DEF Elements
  <2> QED
    BY <2>2, ResultsList
<1>3. Succeeded' = Succeeded
  BY <1>1 DEF Succeeded, Candidates
<1>4. MadeInv'
  BY <1>1 DEF CandidatesInv, MadeInv, Candidates, Model, Embedding, Judge, CallSet
<1> QED
  BY <1>1, <1>2, <1>3, <1>4 DEF CandidatesInv, JudgeInv, CallsStoredOnce, NamedIsReturned, OneIsEnough, Candidates, Over

\* The one result is returned with its own calls.
LEMMA OnlyOneSucceeds ==
    ASSUME CandidatesInv, OneCandidate
    PROVE  CandidatesInv'
<1> DEFINE i == Results[1]
           calls == Calls(i)
           res == [by |-> i, streamed |-> FALSE, calls |-> calls, original |-> "candidate"]
<1>1. /\ phase = "candidates" /\ UNCHANGED <<request, candidate, made, judge>>
      /\ Len(Results) = 1 /\ Return(res)
  BY DEF OneCandidate, CandidatesEnd
<1>2. Succeeded = {i} /\ i \in Nat
  <2>1. \A k : k \in 1 .. 1 <=> k = 1
    OBVIOUS
  <2>2. Elements(Results) = {i}
    BY <1>1, <2>1 DEF Elements
  <2> QED
    BY <2>2, ResultsList
<1> HIDE DEF i
<1>3. calls \in Seq(CallSet) /\ Distinct(calls) /\ calls[1] = Model(i)
  BY <1>2, CallsOfOne
<1>4. AllCalls(Succeeded) = Elements(calls)
  BY <1>2 DEF AllCalls
<1> HIDE DEF calls
<1>5. \/ phase' = "answered" /\ answer'.by = i /\ answer'.calls = calls
      \/ phase' = "failed" /\ request.stream /\ candidate[i].output = "unknown"
  BY <1>1 DEF Return, Streamed
<1>6. Succeeded' = Succeeded
  BY <1>1 DEF Succeeded, Candidates
<1>7. {c \in made' : c[2] \in Succeeded' \cup {Judge}} = Elements(calls)
  BY <1>1, <1>4, <1>6, CallsMade
<1>8. IsInjective(calls) /\ ToSet(calls) = Elements(calls)
  BY <1>3, ListIsSet
<1>9. CallsStoredOnce'
  BY <1>3, <1>5, <1>7, <1>8 DEF CallsStoredOnce, Judge, Model
<1>10. OneIsEnough'
  BY <1>1, <1>2, <1>5, <1>6 DEF OneIsEnough
<1>11. MadeInv'
  BY <1>1, <1>5 DEF CandidatesInv, MadeInv, Candidates, Model, Embedding, Judge, CallSet
<1>12. NamedIsReturned' /\ JudgeInv'
  BY <1>1, <1>5 DEF CandidatesInv, JudgeInv, NamedIsReturned
<1> QED
  BY <1>1, <1>9, <1>10, <1>11, <1>12 DEF CandidatesInv, Candidates, Over

\* A candidate is returned and nobody named it.
LEMMA AnyReturned ==
    ASSUME CandidatesInv, phase \in {"candidates", "judge"}, NEW judged \in BOOLEAN, ReturnAny(judged),
           UNCHANGED <<request, candidate, judge>>,
           made' = IF judged THEN made \cup {Model(Judge)} ELSE made
    PROVE  CandidatesInv'
<1>1. PICK k \in 1 .. Len(Results) : ReturnCandidate(k, judged)
  BY DEF ReturnAny
<1>2. phase' \in {"answered", "failed"} /\ CallsStoredOnce' /\ OneIsEnough' /\ MadeInv'
  BY <1>1, CandidateReturned
<1>3. judge.named = {}
  BY DEF CandidatesInv, JudgeInv
<1> QED
  BY <1>2, <1>3 DEF CandidatesInv, JudgeInv, NamedIsReturned, Candidates, Over

\* The one output there is to show is returned without asking.
LEMMA OneShownReturned ==
    ASSUME CandidatesInv, OnlyOneShown
    PROVE  CandidatesInv'
<1> DEFINE k == CHOOSE l \in 1 .. Len(Results) : Results[l] = Shown[1]
<1>1. /\ phase = "candidates" /\ UNCHANGED <<request, candidate, made>> /\ Len(Shown) = 1
      /\ ReturnCandidate(k, FALSE) /\ judge' = [shown |-> Shown, named |-> {0}]
  BY DEF OnlyOneShown, CandidatesEnd
<1>2. \E l \in 1 .. Len(Results) : Results[l] = Shown[1]
  <2>1. 1 \in 1 .. Len(Included)
    BY <1>1, ShownResults
  <2> QED
    BY <2>1, ShownResults
<1>3. k \in 1 .. Len(Results) /\ Results[k] = Shown[1]
  BY <1>2
<1> HIDE DEF k
<1>4. /\ phase' \in {"answered", "failed"} /\ CallsStoredOnce' /\ OneIsEnough' /\ MadeInv'
      /\ phase' = "answered" => answer'.by = Results[k]
  <2>1. made' = IF FALSE THEN made \cup {Model(Judge)} ELSE made
    BY <1>1
  <2>2. FALSE \in BOOLEAN
    OBVIOUS
  <2> QED
    BY <1>1, <1>3, <2>1, <2>2, CandidateReturned
<1>5. NamedIsReturned'
  <2>1. \A index \in judge'.named : index + 1 = 1
    BY <1>1
  <2>2. judge'.shown = Shown
    BY <1>1
  <2> QED
    BY <1>3, <1>4, <2>1, <2>2 DEF NamedIsReturned
<1> QED
  BY <1>1, <1>4, <1>5 DEF CandidatesInv, JudgeInv, Candidates, Over

\* The judge is asked about what there is to show.
LEMMA JudgeAsked ==
    ASSUME CandidatesInv, AskJudge
    PROVE  CandidatesInv'
<1>1. /\ phase = "candidates" /\ phase' = "judge" /\ UNCHANGED <<request, candidate, made, answer>>
      /\ judge' = [shown |-> Shown, named |-> {}]
  BY DEF AskJudge, CandidatesEnd
<1>2. Shown' = Shown
  BY <1>1 DEF Shown, EvaluatorSees, FuserSees, Included, Unparsed, Results, Succeeded, Candidates
<1>3. MadeInv'
  BY <1>1 DEF CandidatesInv, MadeInv, Candidates, Model, Embedding, Judge, CallSet
<1> QED
  BY <1>1, <1>2, <1>3 DEF CandidatesInv, JudgeInv, CallsStoredOnce, NamedIsReturned, OneIsEnough, Candidates, Over

\* The evaluator names an index: within what it was shown, it is mapped to that result.
LEMMA NamedReturned ==
    ASSUME CandidatesInv, EvaluatorNames
    PROVE  CandidatesInv'
<1>1. PICK index \in 0 .. N :
          /\ judge' = [judge EXCEPT !.named = {index}]
          /\ IF MapIndex(index, Skipped) < Len(Results)
             THEN ReturnCandidate(MapIndex(index, Skipped) + 1, TRUE) ELSE ReturnAny(TRUE)
  BY DEF EvaluatorNames
<1> DEFINE actual == MapIndex(index, Skipped)
<1>2. /\ phase = "judge" /\ UNCHANGED <<request, candidate>> /\ made' = made \cup {Model(Judge)}
      /\ judge = [shown |-> Shown, named |-> {}]
  BY DEF EvaluatorNames, CandidatesInv, JudgeInv
<1>3. index \in Nat /\ Len(Results) \in Nat
  BY CandidatesAssumption, ResultsList
<1>4. actual \in Nat /\ (index < Len(Included) => actual + 1 = Included[index + 1])
  <2> DEFINE m == Len(Results)
           U == Unparsed
           t == Skipped
  <2>1. t = [k \in 1 .. Len(Select(m, U)) |-> Select(m, U)[k] - 1]
    BY DEF Skipped
  <2>2. Included = Select(m, 1 .. m \ U) /\ actual = MapIndex(index, t)
    BY DEF Included
  <2>3. m \in Nat
    BY <1>3
  <2> HIDE DEF m, U, t, actual
  <2>4. MapIndex(index, t) \in Nat
    BY <1>3, <2>1, <2>3, IndexIsMapped
  <2>5. index < Len(Select(m, 1 .. m \ U)) => MapIndex(index, t) + 1 = Select(m, 1 .. m \ U)[index + 1]
    BY <1>3, <2>1, <2>3, IndexIsMapped
  <2> QED
    BY <2>2, <2>4, <2>5
<1> HIDE DEF actual
<1>5. PICK k \in 1 .. Len(Results) :
          ReturnCandidate(k, TRUE) /\ (actual < Len(Results) => k = actual + 1)
  <2>1. CASE actual < Len(Results)
    <3>1. ReturnCandidate(actual + 1, TRUE)
      BY <1>1, <2>1 DEF actual
    <3>2. actual + 1 \in 1 .. Len(Results)
      BY <1>3, <1>4, <2>1
    <3> QED
      BY <3>1, <3>2
  <2>2. CASE ~(actual < Len(Results))
    BY <1>1, <2>2 DEF actual, ReturnAny
  <2> QED
    BY <2>1, <2>2
<1>6. /\ phase' \in {"answered", "failed"} /\ CallsStoredOnce' /\ OneIsEnough' /\ MadeInv'
      /\ phase' = "answered" => answer'.by = Results[k]
  <2>1. made' = IF TRUE THEN made \cup {Model(Judge)} ELSE made
    BY <1>2
  <2>2. TRUE \in BOOLEAN
    OBVIOUS
  <2> QED
    BY <1>2, <1>5, <2>1, <2>2, CandidateReturned
<1>7. judge'.named = {index} /\ judge'.shown = Shown
  BY <1>1, <1>2
<1>8. index < Len(Shown) => Results[k] = Shown[index + 1]
  <2> SUFFICES ASSUME index < Len(Shown) PROVE Results[k] = Shown[index + 1]
    OBVIOUS
  <2>1. index + 1 \in 1 .. Len(Included) /\ index < Len(Included)
    BY <1>3, ShownResults
  <2>2. Shown[index + 1] = Results[Included[index + 1]] /\ Included[index + 1] \in 1 .. Len(Results)
    BY <2>1, ShownResults
  <2>3. actual + 1 = Included[index + 1]
    BY <1>4, <2>1
  <2>4. actual < Len(Results)
    BY <1>3, <1>4, <2>2, <2>3
  <2> QED
    BY <1>5, <2>2, <2>3, <2>4
<1>9. NamedIsReturned'
  BY <1>6, <1>7, <1>8 DEF NamedIsReturned
<1> QED
  BY <1>2, <1>6, <1>9 DEF CandidatesInv, JudgeInv, Candidates, Over

\* The fuser answers: its own call, then those of all the results.
LEMMA FusedReturned ==
    ASSUME CandidatesInv, FuserAnswers
    PROVE  CandidatesInv'
<1> DEFINE a == Calls(Judge)
           b == CallsOf(Results)
           calls == a \o b
<1>1. /\ phase = "judge" /\ phase' = "answered" /\ UNCHANGED <<request, candidate, judge>>
      /\ made' = made \cup {Model(Judge)} /\ answer'.by = Judge /\ answer'.calls = calls
      /\ request.top = "mixture_of_n"
  BY DEF FuserAnswers
<1>2. Judge \in Nat /\ \A i \in Succeeded : i # Judge
  BY CandidatesAssumption DEF Judge, Succeeded, Candidates
<1>3. /\ a \in Seq(CallSet) /\ Distinct(a) /\ a # << >> /\ a[1] = Model(Judge)
      /\ \A c \in Elements(a) : c[2] = Judge
      /\ Elements(a) = {Model(Judge)}
  BY <1>2, CallsOfOne
<1>4. Results \in Seq(Nat)
  <2>1. Len(Results) \in Nat /\ Results \in [1 .. Len(Results) -> Succeeded] /\ Succeeded \subseteq Nat
    BY ResultsList
  <2>2. Results \in [1 .. Len(Results) -> Nat]
    BY <2>1
  <2> QED
    BY <2>1, <2>2
<1>5. b \in Seq(CallSet) /\ Distinct(b) /\ Elements(b) = AllCalls(Succeeded)
  BY <1>4, ResultsList, CallsOfMany
<1>6. \A i \in Succeeded : \A c \in Elements(Calls(i)) : c[2] = i
  BY ResultsList, CallsOfOne
<1>7. Elements(a) \cap Elements(b) = {}
  BY <1>2, <1>3, <1>5, <1>6 DEF AllCalls
<1> HIDE DEF a, b
<1>8. /\ calls \in Seq(CallSet) /\ Distinct(calls) /\ calls[1] = Model(Judge)
      /\ Elements(calls) = AllCalls(Succeeded) \cup {Model(Judge)}
  BY <1>3, <1>5, <1>7, Joined
<1> HIDE DEF calls
<1>9. Succeeded' = Succeeded
  BY <1>1 DEF Succeeded, Candidates
<1>10. {c \in made' : c[2] \in Succeeded' \cup {Judge}} = Elements(calls)
  BY <1>1, <1>8, <1>9, CallsMade
<1>11. IsInjective(calls) /\ ToSet(calls) = Elements(calls)
  BY <1>8, ListIsSet
<1>12. CallsStoredOnce'
  BY <1>1, <1>8, <1>10, <1>11 DEF CallsStoredOnce, Judge, Model
<1>13. MadeInv'
  <2>1. Model(Judge) \in CallSet /\ \A i \in Candidates : Model(Judge) # Model(i) /\ Model(Judge) # Embedding(i)
    BY CandidatesAssumption DEF Model, Embedding, CallSet, Judge, Candidates
  <2>2. \A i \in Candidates : (Model(i) \in made' <=> Model(i) \in made) /\ (Embedding(i) \in made' <=> Embedding(i) \in made)
    BY <1>1, <2>1
  <2>3. MadeInv
    BY DEF CandidatesInv
  <2> QED
    BY <1>1, <2>1, <2>2, <2>3 DEF MadeInv, Candidates, Model, Embedding, Judge, CallSet
<1> QED
  BY <1>1, <1>12, <1>13 DEF CandidatesInv, JudgeInv, NamedIsReturned, OneIsEnough, Candidates, Over

\* Every step keeps the invariant.
LEMMA CandidatesStep ==
    ASSUME CandidatesInv, [CandidatesNext]_candidatesVars
    PROVE  CandidatesInv'
<1>1. ASSUME NEW i \in Candidates, Embed(i) \/ FetchExamples(i) \/ ModelAnswers(i) \/ CandidateFails(i)
      PROVE  CandidatesInv'
  BY <1>1, CandidateWorks
<1>2. CASE NoCandidate
  BY <1>2, NobodySucceeds
<1>3. CASE OneCandidate
  BY <1>3, OnlyOneSucceeds
<1>4. CASE CannotJudge
  <2>1. /\ phase = "candidates" /\ ReturnAny(FALSE) /\ UNCHANGED <<request, candidate, judge>>
        /\ made' = IF FALSE THEN made \cup {Model(Judge)} ELSE made
    BY <1>4 DEF CannotJudge, CandidatesEnd
  <2>2. FALSE \in BOOLEAN
    OBVIOUS
  <2> QED
    BY <2>1, <2>2, AnyReturned
<1>5. CASE OnlyOneShown
  BY <1>5, OneShownReturned
<1>6. CASE AskJudge
  BY <1>6, JudgeAsked
<1>7. CASE EvaluatorNames
  BY <1>7, NamedReturned
<1>8. CASE EvaluatorBabbles
  <2>1. /\ phase = "judge" /\ ReturnAny(TRUE) /\ UNCHANGED <<request, candidate, judge>>
        /\ made' = IF TRUE THEN made \cup {Model(Judge)} ELSE made
    BY <1>8 DEF EvaluatorBabbles
  <2>2. TRUE \in BOOLEAN
    OBVIOUS
  <2> QED
    BY <2>1, <2>2, AnyReturned
<1>9. CASE FuserAnswers
  BY <1>9, FusedReturned
<1>10. CASE JudgeFails
  <2>1. /\ phase = "judge" /\ ReturnAny(FALSE) /\ UNCHANGED <<request, candidate, judge>>
        /\ made' = IF FALSE THEN made \cup {Model(Judge)} ELSE made
    BY <1>10 DEF JudgeFails
  <2>2. FALSE \in BOOLEAN
    OBVIOUS
  <2> QED
    BY <2>1, <2>2, AnyReturned
<1>11. CASE UNCHANGED candidatesVars
  <2>1. UNCHANGED <<request, candidate, made, judge, phase, answer>>
    BY <1>11 DEF candidatesVars
  <2>2. Shown' = Shown /\ Succeeded' = Succeeded
    BY <2>1 DEF Shown, EvaluatorSees, FuserSees, Included, Unparsed, Results, Succeeded, Candidates
  <2>3. MadeInv'
    BY <2>1 DEF CandidatesInv, MadeInv, Candidates, Model, Embedding, Judge, CallSet
  <2>4. JudgeInv' /\ NamedIsReturned' /\ OneIsEnough' /\ CallsStoredOnce'
    BY <2>1, <2>2 DEF CandidatesInv, JudgeInv, NamedIsReturned, OneIsEnough, CallsStoredOnce, Judge, Model
  <2> QED
    BY <2>1, <2>3, <2>4 DEF CandidatesInv, Candidates, Over
<1>12. CASE VariantTimesOut
  <2>1. /\ UNCHANGED <<request, candidate, made, judge, answer>> /\ phase' = "timed_out"
        /\ request'.timeout
    BY <1>12 DEF VariantTimesOut
  <2>2. MadeInv'
    BY <2>1 DEF CandidatesInv, MadeInv, Candidates, Model, Embedding, Judge, CallSet
  <2>3. JudgeInv' /\ NamedIsReturned' /\ OneIsEnough' /\ CallsStoredOnce'
    BY <2>1 DEF JudgeInv, NamedIsReturned, OneIsEnough, CallsStoredOnce
  <2> QED
    BY <2>1, <2>2, <2>3 DEF CandidatesInv, Candidates, Over
<1> QED
  BY <1>1, <1>2, <1>3, <1>4, <1>5, <1>6, <1>7, <1>8, <1>9, <1>10, <1>11, <1>12 DEF CandidatesNext, Done

\* The calls made, what the judge is shown and what the properties below say hold in every state
\* of a best-of-n or mixture-of-n variant, for any number of candidates.
THEOREM CandidatesInvariance == CandidatesSpec => []CandidatesInv
<1>1. CandidatesInit => CandidatesInv
  BY CandidatesStart
<1>2. CandidatesInv /\ [CandidatesNext]_candidatesVars => CandidatesInv'
  BY CandidatesStep
<1> QED
  BY <1>1, <1>2, PTL DEF CandidatesSpec

\* An answer carries each call of each candidate that succeeded, and the judge's, exactly once,
\* the call that wrote the answer first (extend, swap_remove, stream_inference_from_non_stream).
THEOREM CallsAreStoredOnce == CandidatesSpec => []CallsStoredOnce
<1>1. CandidatesInv => CallsStoredOnce
  BY DEF CandidatesInv
<1> QED
  BY <1>1, CandidatesInvariance, PTL

\* An index within what the evaluator was shown is mapped to that output, however many results
\* were skipped and wherever they stood (map_evaluator_to_actual_index).
THEOREM NamedOnesAreReturned == CandidatesSpec => []NamedIsReturned
<1>1. CandidatesInv => NamedIsReturned
  BY DEF CandidatesInv
<1> QED
  BY <1>1, CandidatesInvariance, PTL

\* The variant fails only if every candidate failed, the answer drawn cannot be streamed or its own
\* timeout passed: no failure of the judge is an error of the variant (select_best_candidate,
\* fuse_candidates).
THEOREM OneCandidateIsEnough == CandidatesSpec => []OneIsEnough
<1>1. CandidatesInv => OneIsEnough
  BY DEF CandidatesInv
<1> QED
  BY <1>1, CandidatesInvariance, PTL
=============================================================================
