--------------------------- MODULE InferenceProofs ---------------------------
(***************************************************************************)
(* Theorems about Inference, for any set of requests and variants and any   *)
(* bounds: the trailing write and the fallback loop.                        *)
(***************************************************************************)
EXTENDS Inference, TLAPS

-----------------------------------------------------------------------------
(***************************************************************************)
(* Type correctness.  That wpos stays in its range needs to know that a     *)
(* write only runs once its number of results is fixed: WriterBound.        *)
(***************************************************************************)

\* The write has not started while the handler may still choose a result, and never
\* runs past the inference row; the variant being tried is one of the function's; a
\* file is only put if there is one.
WriterBound ==
    \A r \in Requests :
        /\ pc[r] \in {"idle", "sampling", "inferring", "streaming"} =>
              task[r] = "none" /\ wpos[r] = 1
        /\ wpos[r] <= nres[r] + 2
        /\ pc[r] = "inferring" => cur[r] \in Variants
        /\ fput[r] = "pending" => params[r].file # NoFile

\* Every state of the endpoint has the types TypeOK gives, and the trailing write
\* stays within the rows of its inference.
THEOREM TypeCorrect == Spec => [](TypeOK /\ WriterBound)
<1>1. Init => TypeOK /\ WriterBound
  BY InferenceAssumption DEF Init, TypeOK, WriterBound, InFlight, Outcomes, Rows
<1>2. TypeOK /\ WriterBound /\ [Next]_vars => (TypeOK /\ WriterBound)'
  <2> SUFFICES ASSUME TypeOK, WriterBound, [Next]_vars
               PROVE  (TypeOK /\ WriterBound)'
    OBVIOUS
  <2> USE InferenceAssumption DEF TypeOK, WriterBound, InFlight, Outcomes, Rows, handler, writer, Answer
  <2>1. ASSUME NEW r \in Requests, Accept(r) PROVE (TypeOK /\ WriterBound)'
    BY <2>1 DEF Accept, CandidateVariants
  <2>2. ASSUME NEW r \in Requests, UnknownVariant(r) PROVE (TypeOK /\ WriterBound)'
    BY <2>2 DEF UnknownVariant
  <2>3. ASSUME NEW r \in Requests, SampleVariant(r) PROVE (TypeOK /\ WriterBound)'
    BY <2>3 DEF SampleVariant, Sampleable
  <2>4. ASSUME NEW r \in Requests, SampleFails(r) PROVE (TypeOK /\ WriterBound)'
    BY <2>4 DEF SampleFails
  <2>5. ASSUME NEW r \in Requests, AllVariantsFailed(r) PROVE (TypeOK /\ WriterBound)'
    BY <2>5 DEF AllVariantsFailed
  <2>6. ASSUME NEW r \in Requests, WriteAwaited(r) PROVE (TypeOK /\ WriterBound)'
    BY <2>6 DEF WriteAwaited
  <2>7. ASSUME NEW r \in Requests, StreamFlushed(r) PROVE (TypeOK /\ WriterBound)'
    BY <2>7 DEF StreamFlushed
  <2>8. ASSUME NEW r \in Requests, VariantFails(r) PROVE (TypeOK /\ WriterBound)'
    BY <2>8 DEF VariantFails
  <2>9. ASSUME NEW r \in Requests, InferSucceeds(r) PROVE (TypeOK /\ WriterBound)'
    BY <2>9 DEF InferSucceeds, StartWrite
  <2>10. ASSUME NEW r \in Requests, StreamStarts(r) PROVE (TypeOK /\ WriterBound)'
    BY <2>10 DEF StreamStarts
  <2>11. ASSUME NEW r \in Requests, StreamEnds(r) PROVE (TypeOK /\ WriterBound)'
    <3>1. \/ Answer(r, "ok") /\ UNCHANGED <<task, fput>>
          \/ Answer(r, "ok") /\ StartWrite(r, "spawned")
          \/ /\ pc' = [pc EXCEPT ![r] = "flushing"]
             /\ StartWrite(r, "inline")
             /\ UNCHANGED outcome
      BY <2>11 DEF StreamEnds
    <3>2. /\ pc' \in [Requests -> {"idle", "done"} \cup InFlight]
          /\ outcome' \in [Requests -> Outcomes]
          /\ pc'[r] \in {"done", "flushing"}
          /\ \A q \in Requests \ {r} : pc'[q] = pc[q]
      BY <3>1
    <3> DEFINE Started ==
           /\ task' \in [Requests -> {"none", "spawned", "inline", "finished", "dropped"}]
           /\ fput' \in [Requests -> {"none", "pending", "done"}]
           /\ fput'[r] = "pending" => fput[r] = "pending" \/ params[r].file # NoFile
           /\ \A q \in Requests \ {r} : task'[q] = task[q] /\ fput'[q] = fput[q]
    <3>3. Started
      <4>1. CASE UNCHANGED <<task, fput>>
        BY <4>1
      <4>2. ASSUME NEW how \in {"spawned", "inline"}, StartWrite(r, how) PROVE Started
        BY <4>2 DEF StartWrite
      <4> QED BY <3>1, <4>1, <4>2
    <3>4. UNCHANGED <<params, cand, cur, errs, nres, chunks, content,
                      wpos, db, lost, store, flost, failures, crashes>>
      BY <2>11 DEF StreamEnds
    <3>5. TypeOK'
      BY <3>2, <3>3, <3>4
    <3>6. WriterBound'
      BY <3>2, <3>3, <3>4
    <3> QED
      BY <3>5, <3>6
  <2>12. ASSUME NEW r \in Requests, WriteRow(r) PROVE (TypeOK /\ WriterBound)'
    <3>1. wpos[r] \in Rows /\ wpos'[r] = wpos[r] + 1 /\ wpos'[r] \in 1 .. (MaxResults + 2)
      BY <2>12 DEF WriteRow
    <3>2. db' \in [Requests -> SUBSET Rows] /\ lost' \in [Requests -> SUBSET Rows]
      BY <2>12, <3>1 DEF WriteRow
    <3>3. failures' \in 0 .. MaxFailures
      BY <2>12 DEF WriteRow
    <3>4. wpos' \in [Requests -> 1 .. (MaxResults + 2)]
      BY <2>12, <3>1 DEF WriteRow
    <3>5. WriterBound'
      BY <2>12, <3>1 DEF WriteRow
    <3> QED
      BY <2>12, <3>2, <3>3, <3>4, <3>5 DEF WriteRow
  <2>13. ASSUME NEW r \in Requests, WriteFile(r) PROVE (TypeOK /\ WriterBound)'
    <3>1. store' \in SUBSET Files
      BY <2>13 DEF WriteFile, StartWrite, Params
    <3>2. failures' \in 0 .. MaxFailures
      BY <2>13 DEF WriteFile
    <3>3. flost' \in SUBSET Requests /\ fput' \in [Requests -> {"none", "pending", "done"}]
      BY <2>13 DEF WriteFile
    <3>4. WriterBound'
      BY <2>13 DEF WriteFile
    <3> QED
      BY <2>13, <3>1, <3>2, <3>3, <3>4 DEF WriteFile
  <2>14. ASSUME NEW r \in Requests, WriteDone(r) PROVE (TypeOK /\ WriterBound)'
    BY <2>14 DEF WriteDone
  <2>15. ASSUME NEW r \in Requests, Reject(r) PROVE (TypeOK /\ WriterBound)'
    BY <2>15 DEF Reject
  <2>16. ASSUME NEW r \in Requests, StreamChunk(r) PROVE (TypeOK /\ WriterBound)'
    BY <2>16 DEF StreamChunk
  <2>17. ASSUME NEW r \in Requests, Disconnect(r) PROVE (TypeOK /\ WriterBound)'
    BY <2>17 DEF Disconnect
  <2>18. CASE Crash
    BY <2>18 DEF Crash
  <2>19. CASE UNCHANGED vars
    BY <2>19 DEF vars
  <2>20. CASE Quiescent
    BY <2>19, <2>20 DEF Quiescent
  <2> QED
    BY <2>1, <2>2, <2>3, <2>4, <2>5, <2>6, <2>7, <2>8, <2>9, <2>10, <2>11, <2>12,
       <2>13, <2>14, <2>15, <2>16, <2>17, <2>18, <2>19, <2>20
    DEF Next, Loop, Variant, Write
<1> QED BY <1>1, <1>2, PTL DEF Spec

-----------------------------------------------------------------------------
(***************************************************************************)
(* The trailing write.  The inductive invariant says what each of the rows  *)
(* and files written so far owes to the position of the write, and which    *)
(* kind of task each place of the handler goes with.                        *)
(***************************************************************************)

WriteInv ==
    \A r \in Requests :
        /\ db[r] \cup lost[r] = 1 .. (wpos[r] - 1)
        /\ task[r] = "none" => wpos[r] = 1 /\ fput[r] = "none"
        /\ task[r] # "none" => ~params[r].dryrun /\ fput[r] # "none"
        /\ task[r] = "finished" => wpos[r] = nres[r] + 2 /\ fput[r] = "done"
        /\ fput[r] = "done" /\ params[r].file # NoFile => params[r].file \in store \/ r \in flost
        /\ task[r] = "inline" => params[r].stream /\ ~AsyncWrites
        /\ task[r] = "dropped" /\ crashes = 0 => params[r].stream /\ ~AsyncWrites
        /\ pc[r] = "awaiting" => ~params[r].stream /\ task[r] \in {"spawned", "finished"}
        /\ pc[r] \in {"streaming", "flushing"} => params[r].stream
        /\ outcome[r] = "ok" => pc[r] = "done"
        /\ outcome[r] = "ok" /\ ~params[r].stream /\ ~params[r].dryrun => task[r] # "none"
        /\ ~AsyncWrites /\ outcome[r] = "ok" =>
              /\ task[r] \in {"none", "finished"}
              /\ ~params[r].dryrun /\ ~params[r].stream => task[r] = "finished"

\* The trailing write, its task and its rows agree in every reachable state.
LEMMA WriteInvHolds == Spec => []WriteInv
<1>1. Init => WriteInv
  BY InferenceAssumption DEF Init, WriteInv
<1>2. TypeOK /\ WriterBound /\ WriteInv /\ [Next]_vars => WriteInv'
  <2> SUFFICES ASSUME TypeOK, WriterBound, WriteInv, [Next]_vars
               PROVE  WriteInv'
    OBVIOUS
  <2> USE InferenceAssumption DEF TypeOK, WriterBound, WriteInv, InFlight, Outcomes, Rows, handler, writer, Answer
  <2>1. ASSUME NEW r \in Requests, Accept(r) PROVE WriteInv'
    BY <2>1 DEF Accept
  <2>2. ASSUME NEW r \in Requests, UnknownVariant(r) PROVE WriteInv'
    BY <2>2 DEF UnknownVariant
  <2>3. ASSUME NEW r \in Requests, SampleVariant(r) PROVE WriteInv'
    BY <2>3 DEF SampleVariant
  <2>4. ASSUME NEW r \in Requests, SampleFails(r) PROVE WriteInv'
    BY <2>4 DEF SampleFails
  <2>5. ASSUME NEW r \in Requests, AllVariantsFailed(r) PROVE WriteInv'
    BY <2>5 DEF AllVariantsFailed
  <2>6. ASSUME NEW r \in Requests, WriteAwaited(r) PROVE WriteInv'
    BY <2>6 DEF WriteAwaited
  <2>7. ASSUME NEW r \in Requests, StreamFlushed(r) PROVE WriteInv'
    BY <2>7 DEF StreamFlushed
  <2>8. ASSUME NEW r \in Requests, VariantFails(r) PROVE WriteInv'
    BY <2>8 DEF VariantFails
  <2>9. ASSUME NEW r \in Requests, InferSucceeds(r) PROVE WriteInv'
    BY <2>9 DEF InferSucceeds, StartWrite
  <2>10. ASSUME NEW r \in Requests, StreamStarts(r) PROVE WriteInv'
    BY <2>10 DEF StreamStarts
  <2>11. ASSUME NEW r \in Requests, StreamEnds(r) PROVE WriteInv'
    <3>1. /\ pc[r] = "streaming"
          /\ UNCHANGED <<params, cand, cur, errs, nres, chunks, content,
                         wpos, db, lost, store, flost, failures, crashes>>
      BY <2>11 DEF StreamEnds
    <3>2. CASE Answer(r, "ok") /\ UNCHANGED <<task, fput>>
      BY <3>1, <3>2
    <3>3. CASE Answer(r, "ok") /\ StartWrite(r, "spawned") /\ AsyncWrites /\ ~params[r].dryrun
      BY <3>1, <3>3 DEF StartWrite
    <3>4. CASE /\ pc' = [pc EXCEPT ![r] = "flushing"]
               /\ StartWrite(r, "inline")
               /\ UNCHANGED outcome
               /\ ~AsyncWrites /\ ~params[r].dryrun
      BY <3>1, <3>4 DEF StartWrite
    <3> QED BY <2>11, <3>2, <3>3, <3>4 DEF StreamEnds
  <2>12. ASSUME NEW r \in Requests, WriteRow(r) PROVE WriteInv'
    BY <2>12 DEF WriteRow
  <2>13. ASSUME NEW r \in Requests, WriteFile(r) PROVE WriteInv'
    BY <2>13 DEF WriteFile
  <2>14. ASSUME NEW r \in Requests, WriteDone(r) PROVE WriteInv'
    BY <2>14 DEF WriteDone
  <2>15. ASSUME NEW r \in Requests, Reject(r) PROVE WriteInv'
    BY <2>15 DEF Reject
  <2>16. ASSUME NEW r \in Requests, StreamChunk(r) PROVE WriteInv'
    BY <2>16 DEF StreamChunk
  <2>17. ASSUME NEW r \in Requests, Disconnect(r) PROVE WriteInv'
    BY <2>17 DEF Disconnect
  <2>18. CASE Crash
    BY <2>18 DEF Crash
  <2>19. CASE UNCHANGED vars
    BY <2>19 DEF vars
  <2>20. CASE Quiescent
    BY <2>19, <2>20 DEF Quiescent
  <2> QED
    BY <2>1, <2>2, <2>3, <2>4, <2>5, <2>6, <2>7, <2>8, <2>9, <2>10, <2>11, <2>12,
       <2>13, <2>14, <2>15, <2>16, <2>17, <2>18, <2>19, <2>20
    DEF Next, Loop, Variant, Write
<1> QED BY <1>1, <1>2, TypeCorrect, PTL DEF Spec

\* A reader that finds an inference's row finds each of its model inferences' rows, or
\* that row's write failed: write_inference writes them in this order and stops nowhere
\* in between, for any number of model inferences, failures, disconnects and crashes.
THEOREM RowOrder == Spec => []InferenceRowIsLast
<1>1. TypeOK /\ WriterBound /\ WriteInv => InferenceRowIsLast
  <2> SUFFICES ASSUME TypeOK, WriterBound, WriteInv, NEW r \in Requests,
                      nres[r] + 1 \in db[r]
               PROVE  1 .. nres[r] \subseteq db[r] \cup lost[r]
    BY DEF InferenceRowIsLast
  <2>1. nres[r] \in Nat /\ wpos[r] \in Nat
    BY InferenceAssumption DEF TypeOK
  <2>2. nres[r] + 1 \in 1 .. (wpos[r] - 1)
    BY DEF WriteInv
  <2> QED BY <2>1, <2>2 DEF WriteInv
<1> QED BY <1>1, TypeCorrect, WriteInvHolds, PTL

\* Without async_writes the answer comes after the write, row by row.
THEOREM SyncAnswer == Spec => []AnswerAfterSyncWrite
<1>1. TypeOK /\ WriteInv => AnswerAfterSyncWrite
  <2> SUFFICES ASSUME TypeOK, WriteInv, NEW r \in Requests, ~AsyncWrites, outcome[r] = "ok"
               PROVE  /\ task[r] \in {"none", "finished"}
                      /\ ~params[r].dryrun /\ ~params[r].stream =>
                            1 .. (nres[r] + 1) \subseteq db[r] \cup lost[r]
    BY DEF AnswerAfterSyncWrite
  <2>1. nres[r] \in Nat
    BY InferenceAssumption DEF TypeOK
  <2> QED BY <2>1 DEF WriteInv
<1> QED BY <1>1, TypeCorrect, WriteInvHolds, PTL

\* A served inference is stored in full: whatever inserts fail, the rest are tried, and
\* only a crash, or the client of an inline write, ends the write before its time.
THEOREM ServedIsStored == Spec => []StoredInFull
<1>1. TypeOK /\ WriteInv => StoredInFull
  <2> SUFFICES ASSUME TypeOK, WriteInv, NEW r \in Requests
               PROVE  /\ outcome[r] = "ok" /\ ~params[r].stream /\ ~params[r].dryrun =>
                            task[r] # "none"
                      /\ task[r] = "finished" => 1 .. (nres[r] + 1) \subseteq db[r] \cup lost[r]
                      /\ task[r] = "dropped" /\ crashes = 0 => params[r].stream /\ ~AsyncWrites
    BY DEF StoredInFull
  <2>1. nres[r] \in Nat
    BY InferenceAssumption DEF TypeOK
  <2> QED BY <2>1 DEF WriteInv
<1> QED BY <1>1, TypeCorrect, WriteInvHolds, PTL

\* Only a crash cuts a spawned write short: tokio::spawn shields it from the client.
THEOREM SpawnShieldsWrite == Spec => []DisconnectKeepsSpawnedWrite
<1>1. WriteInv => DisconnectKeepsSpawnedWrite
  BY DEF WriteInv, DisconnectKeepsSpawnedWrite
<1> QED BY <1>1, WriteInvHolds, PTL

\* A finished write has its file in the object store, or its put failed.
THEOREM FileStored == Spec => []FinishedWriteHasFile
<1>1. WriteInv => FinishedWriteHasFile
  BY DEF WriteInv, FinishedWriteHasFile
<1> QED BY <1>1, WriteInvHolds, PTL

\* Dryruns leave no trace in the inference tables.
THEOREM DryrunSafe == Spec => []DryrunStoresNothing
<1>1. TypeOK /\ WriteInv => DryrunStoresNothing
  <2> SUFFICES ASSUME TypeOK, WriteInv, NEW r \in Requests, params[r].dryrun
               PROVE  task[r] = "none" /\ db[r] = {}
    BY DEF DryrunStoresNothing
  <2>1. task[r] = "none" /\ wpos[r] = 1
    BY DEF WriteInv
  <2>2. db[r] \subseteq 1 .. 0
    BY <2>1 DEF WriteInv
  <2> QED BY <2>1, <2>2
<1> QED BY <1>1, TypeCorrect, WriteInvHolds, PTL

-----------------------------------------------------------------------------
(***************************************************************************)
(* The fallback loop.  Once accepted, the candidates left, the failed ones  *)
(* and the one being tried partition the candidates the filters allow.      *)
(***************************************************************************)

FallbackInv ==
    \A r \in Requests :
        /\ pc[r] = "idle" => cand[r] = {} /\ errs[r] = {} /\ cur[r] = NoVariant
        /\ pc[r] = "sampling" => cur[r] = NoVariant
        /\ pc[r] \in InFlight =>
              cand[r] \cup errs[r] \cup ({cur[r]} \ {NoVariant}) = CandidateVariants(params[r])
        /\ cur[r] \notin cand[r] \cup errs[r]
        /\ cand[r] \cap errs[r] = {}
        /\ cur[r] \in CandidateVariants(params[r]) \cup {NoVariant}
        /\ outcome[r] = "AllVariantsFailed" =>
              pc[r] = "done" /\ errs[r] = CandidateVariants(params[r])
        /\ params[r].pinned = NoVariant /\ params[r].hash = "below" /\ cur[r] \in Unweighted =>
              PositiveWeight \subseteq errs[r]

\* The failed variants and the candidates agree in every reachable state.
LEMMA FallbackInvHolds == Spec => []FallbackInv
<1>1. Init => FallbackInv
  BY InferenceAssumption DEF Init, FallbackInv, InFlight, Unweighted
<1>2. TypeOK /\ WriterBound /\ FallbackInv /\ [Next]_vars => FallbackInv'
  <2> SUFFICES ASSUME TypeOK, WriterBound, FallbackInv, [Next]_vars
               PROVE  FallbackInv'
    OBVIOUS
  <2> USE InferenceAssumption DEF TypeOK, WriterBound, FallbackInv, InFlight, Outcomes, Unweighted, handler, writer, Answer
  <2>1. ASSUME NEW r \in Requests, Accept(r) PROVE FallbackInv'
    BY <2>1 DEF Accept, CandidateVariants
  <2>2. ASSUME NEW r \in Requests, UnknownVariant(r) PROVE FallbackInv'
    BY <2>2 DEF UnknownVariant
  <2>3. ASSUME NEW r \in Requests, SampleVariant(r) PROVE FallbackInv'
    BY <2>3 DEF SampleVariant, Sampleable, CandidateVariants
  <2>4. ASSUME NEW r \in Requests, SampleFails(r) PROVE FallbackInv'
    BY <2>4 DEF SampleFails
  <2>5. ASSUME NEW r \in Requests, AllVariantsFailed(r) PROVE FallbackInv'
    <3>1. cand[r] = {} /\ cur[r] = NoVariant /\ pc[r] \in InFlight
      BY <2>5 DEF AllVariantsFailed
    <3>2. cand[r] \cup errs[r] \cup ({cur[r]} \ {NoVariant}) = CandidateVariants(params[r])
      BY <3>1
    <3> HIDE DEF TypeOK, WriterBound, FallbackInv
    <3>3. errs[r] = CandidateVariants(params[r])
      BY <3>1, <3>2
    <3> USE DEF TypeOK, FallbackInv
    <3> QED BY <2>5, <3>3 DEF AllVariantsFailed
  <2>6. ASSUME NEW r \in Requests, WriteAwaited(r) PROVE FallbackInv'
    BY <2>6 DEF WriteAwaited
  <2>7. ASSUME NEW r \in Requests, StreamFlushed(r) PROVE FallbackInv'
    BY <2>7 DEF StreamFlushed
  <2>8. ASSUME NEW r \in Requests, VariantFails(r) PROVE FallbackInv'
    BY <2>8 DEF VariantFails
  <2>9. ASSUME NEW r \in Requests, InferSucceeds(r) PROVE FallbackInv'
    BY <2>9 DEF InferSucceeds, StartWrite
  <2>10. ASSUME NEW r \in Requests, StreamStarts(r) PROVE FallbackInv'
    BY <2>10 DEF StreamStarts
  <2>11. ASSUME NEW r \in Requests, StreamEnds(r) PROVE FallbackInv'
    BY <2>11 DEF StreamEnds, StartWrite
  <2>12. ASSUME NEW r \in Requests, WriteRow(r) PROVE FallbackInv'
    BY <2>12 DEF WriteRow
  <2>13. ASSUME NEW r \in Requests, WriteFile(r) PROVE FallbackInv'
    BY <2>13 DEF WriteFile
  <2>14. ASSUME NEW r \in Requests, WriteDone(r) PROVE FallbackInv'
    BY <2>14 DEF WriteDone
  <2>15. ASSUME NEW r \in Requests, Reject(r) PROVE FallbackInv'
    BY <2>15 DEF Reject
  <2>16. ASSUME NEW r \in Requests, StreamChunk(r) PROVE FallbackInv'
    BY <2>16 DEF StreamChunk
  <2>17. ASSUME NEW r \in Requests, Disconnect(r) PROVE FallbackInv'
    BY <2>17 DEF Disconnect
  <2>18. CASE Crash
    BY <2>18 DEF Crash
  <2>19. CASE UNCHANGED vars
    BY <2>19 DEF vars
  <2>20. CASE Quiescent
    BY <2>19, <2>20 DEF Quiescent
  <2> QED
    BY <2>1, <2>2, <2>3, <2>4, <2>5, <2>6, <2>7, <2>8, <2>9, <2>10, <2>11, <2>12,
       <2>13, <2>14, <2>15, <2>16, <2>17, <2>18, <2>19, <2>20
    DEF Next, Loop, Variant, Write
<1> QED BY <1>1, <1>2, TypeCorrect, PTL DEF Spec

\* Unless pinned, a zero-weight variant is never tried, and an unweighted one only
\* when every weighted one has failed.
THEOREM FallbackOrderHolds == Spec => []FallbackOrder
<1>1. FallbackInv => FallbackOrder
  BY InferenceAssumption DEF FallbackInv, FallbackOrder, CandidateVariants
<1> QED BY <1>1, FallbackInvHolds, PTL

\* AllVariantsFailed names every candidate, and the variant that serves a request is
\* not one that failed in it.
THEOREM AllTried == Spec => []AllFailedMeansAllTried
<1>1. FallbackInv => AllFailedMeansAllTried
  BY DEF FallbackInv, AllFailedMeansAllTried
<1> QED BY <1>1, FallbackInvHolds, PTL
=============================================================================
