--------------------------- MODULE WorkflowsProofs ---------------------------
(***************************************************************************)
(* Proofs about Workflows, for any datapoints, evaluators, stored           *)
(* inferences and requests, and any number of edits, polls and faults.      *)
(*                                                                          *)
(* The workflows share no variable but `workflow`, so each has an invariant *)
(* of its own: DatasetInv, EvaluationInv and OptimizationInv.               *)
(***************************************************************************)
EXTENDS Workflows, FiniteSetTheorems, SequenceTheorems, TLAPS

(***************************************************************************)
(* Datasets.  No version is stamped later than the clock, so what is        *)
(* inserted last is final; and a request has had its effect on every        *)
(* datapoint whose statement it has sent.                                   *)
(***************************************************************************)
EditType ==
    /\ edit \in [op : {"idle", "put", "delete", "stale"}, todo : SUBSET {"chat", "json"},
                 keys : SUBSET Keys, output : Outputs \cup {None}, failed : BOOLEAN]
    /\ edit.op = "idle" => edit = Idle

\* The versions of a datapoint are in the order of their stamps, up to a time.
Stamped(versions, time) ==
    /\ versions \in Seq(Versions)
    /\ InsertedInTime(versions)
    /\ \A i \in DOMAIN versions : versions[i].at <= time

RowsType ==
    /\ now \in 0 .. MaxNow
    /\ DOMAIN rows = Keys /\ \A k \in Keys : Stamped(rows[k], now)

Settled(k) ==
    IF k \in edit.keys
    THEN Table[k[1]] \notin edit.todo /\ ~edit.failed => Visible(k) = Promised(k)
    ELSE acked[k] # Unknown => Visible(k) = acked[k]

DatasetInv == EditType /\ RowsType /\ \A k \in Keys : Settled(k)

\* The fields of a version.
LEMMA VersionFields ==
    /\ \A v \in Versions : v.at \in Int /\ v.stale \in BOOLEAN /\ v.output \in Outputs \cup {None}
    /\ MaxNow \in Nat
BY DatasetsAssumption DEF Versions

\* What is read of versions in the order of their stamps is the last one.
LEMMA FinalIsLast ==
    ASSUME NEW versions \in Seq(Versions), versions # << >>, InsertedInTime(versions)
    PROVE  /\ Final(versions) = versions[Len(versions)]
           /\ Final(versions) \in Versions
<1> DEFINE latest(i) == \A j \in DOMAIN versions :
               \/ versions[j].at < versions[i].at
               \/ versions[j].at = versions[i].at /\ j <= i
<1>1. Len(versions) \in Nat \ {0} /\ DOMAIN versions = 1 .. Len(versions)
  BY EmptySeq, LenProperties
<1>2. \A j \in DOMAIN versions : versions[j] \in Versions /\ versions[j].at \in Int
  BY <1>1, ElementOfSeq, VersionFields
<1>3. Len(versions) \in DOMAIN versions
  BY <1>1
<1>4. latest(Len(versions))
  BY <1>1, <1>2, <1>3 DEF InsertedInTime
<1>5. ASSUME NEW i \in DOMAIN versions, latest(i) PROVE i = Len(versions)
  BY <1>1, <1>2, <1>3, <1>5 DEF InsertedInTime
<1> HIDE DEF latest
<1>6. (CHOOSE i \in DOMAIN versions : latest(i)) = Len(versions)
  BY <1>3, <1>4, <1>5
<1>7. QED
  BY <1>2, <1>3, <1>6 DEF Final, latest

\* A version stamped now is final.
LEMMA Appended ==
    ASSUME NEW versions, NEW time \in 0 .. MaxNow, Stamped(versions, time),
           NEW v \in Versions, v.at = time
    PROVE  /\ Stamped(Append(versions, v), time)
           /\ Append(versions, v) # << >> /\ Final(Append(versions, v)) = v
<1> DEFINE after == Append(versions, v)
<1>1. /\ versions \in Seq(Versions) /\ \A i \in DOMAIN versions : versions[i].at <= time
  BY DEF Stamped
<1>2. /\ Len(versions) \in Nat /\ DOMAIN versions = 1 .. Len(versions)
  BY <1>1, LenProperties
<1>3. /\ after \in Seq(Versions) /\ Len(after) = Len(versions) + 1
      /\ \A i \in 1 .. Len(versions) : after[i] = versions[i]
      /\ after[Len(versions) + 1] = v
  BY <1>1, AppendProperties
<1>4. DOMAIN after = 1 .. (Len(versions) + 1)
  BY <1>3, LenProperties
<1>5. after # << >>
  BY <1>2, <1>3, EmptySeq
<1> HIDE DEF after
<1>6. time <= time
  BY VersionFields
<1>7. \A i \in DOMAIN after : after[i].at <= time
  BY <1>1, <1>2, <1>3, <1>4, <1>6
<1>8. InsertedInTime(after)
  BY <1>3, <1>7 DEF InsertedInTime
<1>9. Final(after) = v
  BY <1>3, <1>5, <1>8, FinalIsLast
<1>10. QED
  BY <1>3, <1>5, <1>7, <1>8, <1>9 DEF Stamped, after

\* A function on the first n numbers is a sequence of length n.
LEMMA ASequence ==
    ASSUME NEW S, NEW n \in Nat, NEW f \in [1 .. n -> S]
    PROVE  f \in Seq(S) /\ Len(f) = n
<1>1. f \in Seq(S)
  BY SeqDef
<1>2. Len(f) \in Nat /\ 1 .. Len(f) = 1 .. n
  BY <1>1, LenProperties
<1>3. QED
  BY <1>1, <1>2

\* The copies that a delete makes of all versions are stamped now, so one of them is final.
LEMMA Deleted ==
    ASSUME NEW versions, now \in 0 .. MaxNow, Stamped(versions, now)
    PROVE  /\ Stamped(DeleteDatapoint(versions), now)
           /\ DeleteDatapoint(versions) # << >> => Final(DeleteDatapoint(versions)).stale = TRUE
<1> DEFINE copies == [i \in 1 .. Len(versions) |-> [versions[i] EXCEPT !.at = now, !.stale = TRUE]]
           after == versions \o copies
<1>1. /\ versions \in Seq(Versions) /\ \A i \in DOMAIN versions : versions[i].at <= now
  BY DEF Stamped
<1>2. Len(versions) \in Nat /\ DOMAIN versions = 1 .. Len(versions)
  BY <1>1, LenProperties
<1>3. \A i \in 1 .. Len(versions) : versions[i] \in Versions
  BY <1>1, ElementOfSeq
<1>4. \A v \in Versions : LET w == [v EXCEPT !.at = now, !.stale = TRUE]
                          IN  w \in Versions /\ w.at = now /\ w.stale = TRUE
  BY DEF Versions
<1>5. ASSUME NEW i \in 1 .. Len(versions)
      PROVE  copies[i] \in Versions /\ copies[i].at = now /\ copies[i].stale = TRUE
  BY <1>3, <1>4
<1>6. copies \in [1 .. Len(versions) -> Versions]
  BY <1>5
<1>7. copies \in Seq(Versions) /\ Len(copies) = Len(versions)
  BY <1>2, <1>6, ASequence
<1>8. DeleteDatapoint(versions) = after
  BY <1>2 DEF DeleteDatapoint
<1> HIDE DEF copies
<1>9. /\ after \in Seq(Versions) /\ Len(after) = Len(versions) + Len(versions)
      /\ \A i \in 1 .. Len(versions) + Len(versions) :
            after[i] = IF i <= Len(versions) THEN versions[i] ELSE copies[i - Len(versions)]
  <2>1. /\ versions \o copies \in Seq(Versions)
        /\ Len(versions \o copies) = Len(versions) + Len(copies)
        /\ \A i \in 1 .. Len(versions) + Len(copies) : (versions \o copies)[i] =
              IF i <= Len(versions) THEN versions[i] ELSE copies[i - Len(versions)]
    BY <1>1, <1>7, ConcatProperties
  <2>2. QED
    BY <1>7, <2>1
<1> HIDE DEF after
<1>10. DOMAIN after = 1 .. Len(versions) + Len(versions)
  BY <1>9, LenProperties
<1>11. ASSUME NEW i \in DOMAIN after PROVE after[i].at <= now
  <2>1. CASE i <= Len(versions)
    BY <1>1, <1>2, <1>9, <1>10, <2>1
  <2>2. CASE i > Len(versions)
    <3>1. i - Len(versions) \in 1 .. Len(versions)
      BY <1>2, <1>10, <2>2
    <3>2. after[i] = copies[i - Len(versions)]
      BY <1>2, <1>9, <1>10, <2>2
    <3>3. now <= now
      BY VersionFields
    <3>4. QED
      BY <1>5, <3>1, <3>2, <3>3
  <2>3. QED
    BY <1>2, <1>10, <2>1, <2>2
<1>12. ASSUME after # << >>
       PROVE  after[Len(after)].at = now /\ after[Len(after)].stale = TRUE
  <2>1. Len(versions) \in Nat \ {0}
    BY <1>2, <1>9, <1>12, EmptySeq
  <2>2. /\ Len(after) - Len(versions) \in 1 .. Len(versions)
        /\ after[Len(after)] = copies[Len(after) - Len(versions)]
    BY <1>9, <2>1
  <2>3. QED
    BY <1>5, <2>2
<1>13. InsertedInTime(after)
  <2>1. CASE after = << >>
    BY <2>1 DEF InsertedInTime
  <2>2. CASE after # << >>
    BY <1>11, <1>12, <2>2 DEF InsertedInTime
  <2>3. QED
    BY <2>1, <2>2
<1>14. after # << >> => Final(after) = after[Len(after)]
  BY <1>9, <1>13, FinalIsLast
<1>15. QED
  BY <1>8, <1>9, <1>11, <1>12, <1>13, <1>14 DEF Stamped

\* What a statement writes makes its promise true, and stays in the order of the clock.
LEMMA WrittenIsPromised ==
    ASSUME DatasetInv, edit.op # "idle", NEW k \in edit.keys
    PROVE  /\ Stamped(Written(k), now)
           /\ ~edit.failed =>
              Promised(k) = (IF Written(k) = << >> \/ Final(Written(k)).stale THEN Gone
                             ELSE Holds(Final(Written(k)).output))
<1>1. /\ k \in Keys /\ Stamped(rows[k], now) /\ now \in 0 .. MaxNow
      /\ edit.op \in {"put", "delete", "stale"} /\ edit.output \in Outputs \cup {None}
  BY DEF DatasetInv, EditType, RowsType
<1>2. CASE edit.op = "put"
  <2>1. PICK v \in Versions : v = [at |-> now, stale |-> FALSE, output |-> edit.output]
    BY <1>1 DEF Versions
  <2>2. v.at = now /\ v.stale = FALSE /\ v.output = edit.output
    BY <2>1
  <2>3. Written(k) = Append(rows[k], v)
    BY <1>2, <2>1 DEF Written, PutDatapoint
  <2>4. Stamped(Written(k), now) /\ Written(k) # << >> /\ Final(Written(k)) = v
    BY <1>1, <2>2, <2>3, Appended
  <2>5. ~edit.failed => Promised(k) = Holds(edit.output)
    BY <1>2 DEF Promised
  <2>6. QED
    BY <2>2, <2>4, <2>5
<1>3. CASE edit.op = "delete"
  <2>1. Written(k) = DeleteDatapoint(rows[k]) /\ (~edit.failed => Promised(k) = Gone)
    BY <1>3 DEF Written, Promised
  <2>2. QED
    BY <1>1, <2>1, Deleted
<1>4. CASE edit.op = "stale"
  <2>1. Written(k) = StaleDatapoint(rows[k]) /\ (~edit.failed => Promised(k) = Gone)
    BY <1>4 DEF Written, Promised
  <2>2. CASE rows[k] = << >> \/ Final(rows[k]).stale
    <3>1. Written(k) = rows[k]
      BY <2>1, <2>2 DEF StaleDatapoint
    <3>2. QED
      BY <1>1, <2>1, <2>2, <3>1
  <2>3. CASE rows[k] # << >> /\ ~Final(rows[k]).stale
    <3>1. Final(rows[k]) \in Versions
      BY <1>1, <2>3, FinalIsLast DEF Stamped
    <3>2. PICK v \in Versions : v = [Final(rows[k]) EXCEPT !.at = now, !.stale = TRUE]
      BY <1>1, <3>1 DEF Versions
    <3>3. v.at = now /\ v.stale = TRUE
      BY <3>1, <3>2 DEF Versions
    <3>4. Written(k) = Append(rows[k], v)
      BY <2>1, <2>3, <3>2 DEF StaleDatapoint
    <3>5. Stamped(Written(k), now) /\ Final(Written(k)) = v
      BY <1>1, <3>3, <3>4, Appended
    <3>6. QED
      BY <2>1, <3>3, <3>5
  <2>4. QED
    BY <2>2, <2>3
<1>5. QED
  BY <1>1, <1>2, <1>3, <1>4

\* A request begins, with a statement for the table of each of its datapoints.
LEMMA BeginStep ==
    ASSUME DatasetInv, NEW op \in {"put", "delete", "stale"}, NEW keys \in SUBSET Keys,
           NEW todo \in SUBSET {"chat", "json"}, NEW out \in Outputs \cup {None},
           \A k \in keys : Table[k[1]] \in todo, Begin(op, keys, todo, out)
    PROVE  DatasetInv'
<1>1. /\ edit = Idle /\ UNCHANGED <<rows, now, acked>>
      /\ edit' = [op |-> op, todo |-> todo, keys |-> keys, output |-> out, failed |-> FALSE]
  BY DEF Begin
<1>2. edit'.op = op /\ edit'.todo = todo /\ edit'.keys = keys /\ edit.keys = {}
  BY <1>1 DEF Idle
<1>3. EditType'
  BY <1>1, <1>2 DEF EditType
<1>4. RowsType'
  BY <1>1 DEF DatasetInv, RowsType, Stamped
<1>5. ASSUME NEW k \in Keys PROVE Settled(k)'
  BY <1>1, <1>2 DEF DatasetInv, Settled, Visible
<1>6. QED
  BY <1>3, <1>4, <1>5 DEF DatasetInv

\* The output an inserted datapoint takes from its source.
LEMMA InsertedOutputType ==
    ASSUME NEW source \in Sources, NEW kind \in {"inherit", "demonstration", "none"},
           kind = "demonstration" => source.demonstrations # << >>
    PROVE  InsertedOutput(source, kind) \in Outputs \cup {None} /\ source.function \in FunctionNames
<1>1. /\ source.output \in Outputs /\ source.demonstrations \in Seq(Outputs)
      /\ source.function \in FunctionNames
  BY DatasetsAssumption
<1>2. CASE kind = "demonstration"
  <2>1. Len(source.demonstrations) \in Nat \ {0}
    BY <1>1, <1>2, EmptySeq
  <2>2. source.demonstrations[Len(source.demonstrations)] \in Outputs
    BY <1>1, <2>1, ElementOfSeq
  <2>3. QED
    BY <1>1, <1>2, <2>2 DEF InsertedOutput
<1>3. CASE kind # "demonstration"
  BY <1>1, <1>3 DEF InsertedOutput
<1>4. QED
  BY <1>2, <1>3

\* A statement that runs does what the request asked for, on its table.
LEMMA StatementRuns ==
    ASSUME DatasetInv, NEW t \in edit.todo
    PROVE  /\ DOMAIN RowsAfter(t) = Keys
           /\ \A k \in Keys :
                /\ Stamped(RowsAfter(t)[k], now)
                /\ ~(k \in edit.keys /\ Table[k[1]] = t) => RowsAfter(t)[k] = rows[k]
                /\ k \in edit.keys /\ Table[k[1]] = t => RowsAfter(t)[k] = Written(k)
<1>1. edit.op # "idle"
  BY DEF DatasetInv, EditType, Idle
<1>2. \A k \in edit.keys : Stamped(Written(k), now)
  BY <1>1, WrittenIsPromised
<1>3. \A k \in Keys : Stamped(rows[k], now)
  BY DEF DatasetInv, RowsType
<1>4. QED
  BY <1>2, <1>3 DEF RowsAfter

\* The clock does not go back.
LEMMA StampedLater ==
    ASSUME NEW versions, NEW time \in 0 .. MaxNow, NEW later \in 0 .. MaxNow, time <= later,
           Stamped(versions, time)
    PROVE  Stamped(versions, later)
<1>1. versions \in Seq(Versions) /\ DOMAIN versions = 1 .. Len(versions)
  BY LenProperties DEF Stamped
<1>2. \A i \in DOMAIN versions : versions[i].at \in Int
  BY <1>1, ElementOfSeq, VersionFields
<1>3. QED
  BY <1>2, VersionFields DEF Stamped

\* A statement that ran has settled the datapoints of its table.
LEMMA StatementStep ==
    ASSUME DatasetInv, NEW t \in {"chat", "json"}, Statement(t)
    PROVE  DatasetInv'
<1>1. /\ t \in edit.todo /\ rows' = RowsAfter(t) /\ UNCHANGED acked
      /\ now' \in {now, now + 1} \cap 0 .. MaxNow
      /\ edit' = [edit EXCEPT !.todo = @ \ {t}]
  BY DEF Statement
<1>2. EditType /\ RowsType /\ edit.op # "idle"
  BY <1>1 DEF DatasetInv, EditType, Idle
<1>3. /\ edit'.op = edit.op /\ edit'.todo = edit.todo \ {t} /\ edit'.keys = edit.keys
      /\ edit'.output = edit.output /\ edit'.failed = edit.failed
  BY <1>1, <1>2 DEF EditType
<1>4. EditType'
  BY <1>1, <1>2, <1>3 DEF EditType
<1>5. RowsType'
  <2>1. now \in 0 .. MaxNow /\ now' \in 0 .. MaxNow /\ now <= now'
    BY <1>1, <1>2, VersionFields DEF RowsType
  <2>2. \A k \in Keys : Stamped(RowsAfter(t)[k], now)
    BY <1>1, StatementRuns
  <2>3. \A k \in Keys : Stamped(rows'[k], now')
    BY <1>1, <2>1, <2>2, StampedLater
  <2>4. QED
    BY <1>1, <2>1, <2>3, StatementRuns DEF RowsType, Stamped
<1>6. ASSUME NEW k \in Keys PROVE Settled(k)'
  <2>1. CASE k \in edit.keys /\ Table[k[1]] = t
    <3>1. rows'[k] = Written(k)
      BY <1>1, <2>1, StatementRuns
    <3>2. ~edit.failed => Visible(k)' = Promised(k)
      BY <1>2, <2>1, <3>1, WrittenIsPromised DEF Visible
    <3>3. Promised(k)' = Promised(k)
      BY <1>3 DEF Promised
    <3>4. QED
      BY <1>3, <2>1, <3>2, <3>3 DEF Settled
  <2>2. CASE ~(k \in edit.keys /\ Table[k[1]] = t)
    <3>1. rows'[k] = rows[k]
      BY <1>1, <2>2, StatementRuns
    <3>2. Visible(k)' = Visible(k) /\ Promised(k)' = Promised(k)
      BY <1>3, <3>1 DEF Visible, Promised
    <3>3. QED
      BY <1>1, <1>3, <2>2, <3>2 DEF DatasetInv, Settled
  <2>3. QED
    BY <2>1, <2>2
<1>7. QED
  BY <1>4, <1>5, <1>6 DEF DatasetInv

\* A statement that fails promises nothing of its request, and changes no other datapoint.
LEMMA StatementFailsStep ==
    ASSUME DatasetInv, NEW t \in {"chat", "json"}, StatementFails(t)
    PROVE  DatasetInv'
<1>1. /\ t \in edit.todo /\ rows' \in {rows, RowsAfter(t)} /\ UNCHANGED <<now, acked>>
      /\ edit' = [edit EXCEPT !.todo = @ \ {t}, !.failed = TRUE]
  BY DEF StatementFails
<1>2. EditType /\ RowsType /\ edit.op # "idle"
  BY <1>1 DEF DatasetInv, EditType, Idle
<1>3. /\ edit'.op = edit.op /\ edit'.keys = edit.keys /\ edit'.failed = TRUE
  BY <1>1, <1>2 DEF EditType
<1>4. EditType'
  BY <1>1, <1>2, <1>3 DEF EditType
<1>5. RowsType'
  BY <1>1, <1>2, StatementRuns DEF RowsType, Stamped
<1>6. ASSUME NEW k \in Keys PROVE Settled(k)'
  <2>1. k \notin edit.keys => Visible(k)' = Visible(k)
    BY <1>1, StatementRuns DEF Visible
  <2>2. QED
    BY <1>1, <1>3, <2>1 DEF DatasetInv, Settled
<1>7. QED
  BY <1>4, <1>5, <1>6 DEF DatasetInv

\* An answer, when no statement is left, says of each datapoint what was done.
LEMMA AnswerStep ==
    ASSUME DatasetInv, Answer
    PROVE  DatasetInv'
<1>1. /\ edit.todo = {} /\ edit' = Idle /\ UNCHANGED <<rows, now>>
      /\ acked' = [k \in Keys |-> IF k \in edit.keys THEN Promised(k) ELSE acked[k]]
  BY DEF Answer
<1>2. EditType' /\ edit'.keys = {}
  BY <1>1 DEF EditType, Idle
<1>3. RowsType'
  BY <1>1 DEF DatasetInv, RowsType, Stamped
<1>4. ASSUME NEW k \in Keys PROVE Settled(k)'
  <2>1. Visible(k)' = Visible(k)
    BY <1>1 DEF Visible
  <2>2. CASE k \in edit.keys
    <3>1. acked'[k] = Promised(k)
      BY <1>1, <2>2
    <3>2. edit.failed => Promised(k) = Unknown
      BY DEF Promised
    <3>3. QED
      BY <1>1, <1>2, <2>1, <2>2, <3>1, <3>2 DEF DatasetInv, Settled
  <2>3. CASE k \notin edit.keys
    BY <1>1, <1>2, <2>1, <2>3 DEF DatasetInv, Settled
  <2>4. QED
    BY <2>2, <2>3
<1>5. QED
  BY <1>2, <1>3, <1>4 DEF DatasetInv

\* A function and an id make a key.
LEMMA KeyOf ==
    ASSUME NEW f \in FunctionNames, NEW d \in Ids
    PROVE  <<f, d>> \in Keys /\ <<f, d>>[1] = f
BY DEF Keys

\* Every step of the datasets endpoint keeps the invariant.
LEMMA DatasetsStep ==
    ASSUME DatasetInv, DatasetsNext
    PROVE  DatasetInv'
<1>1. \A f \in FunctionNames : Table[f] \in {"chat", "json"}
  BY DatasetsAssumption
<1>2. ASSUME NEW d \in Ids, NEW source \in Sources, NEW kind \in {"inherit", "demonstration", "none"},
             InsertFromExisting(d, source, kind)
      PROVE  DatasetInv'
  <2>1. InsertedOutput(source, kind) \in Outputs \cup {None} /\ source.function \in FunctionNames
    BY <1>2, InsertedOutputType DEF InsertFromExisting
  <2>2. PICK k : k = <<source.function, d>>
    OBVIOUS
  <2>3. k \in Keys /\ k[1] = source.function
    BY <2>1, <2>2, KeyOf
  <2>4. Begin("put", {k}, {Table[k[1]]}, InsertedOutput(source, kind))
    BY <1>2, <2>2, <2>3 DEF InsertFromExisting
  <2>5. QED
    BY <1>1, <2>1, <2>3, <2>4, BeginStep
<1>3. ASSUME NEW ids \in SUBSET Ids, NEW out \in EditOutputs, NEW functions \in [ids -> FunctionNames],
             InsertDatapoints(functions, out)
      PROVE  DatasetInv'
  <2>1. PICK keys : keys = {<<functions[d], d>> : d \in DOMAIN functions}
    OBVIOUS
  <2>2. keys \in SUBSET Keys
    BY <2>1 DEF Keys
  <2>3. /\ Statements(keys) \in SUBSET {"chat", "json"}
        /\ \A k \in keys : Table[k[1]] \in Statements(keys)
    BY <1>1, <2>2 DEF Statements, Keys
  <2>4. Begin("put", keys, Statements(keys), out) /\ out \in Outputs \cup {None}
    BY <1>3, <2>1, DatasetsAssumption DEF InsertDatapoints
  <2>5. QED
    BY <2>2, <2>3, <2>4, BeginStep
<1>4. ASSUME NEW f \in FunctionNames, NEW d \in Ids, NEW out \in EditOutputs, UpdateDatapoint(f, d, out)
      PROVE  DatasetInv'
  <2>1. PICK k : k = <<f, d>>
    OBVIOUS
  <2>2. k \in Keys /\ k[1] = f
    BY <2>1, KeyOf
  <2>3. Begin("put", {k}, {Table[k[1]]}, out) /\ out \in Outputs \cup {None}
    BY <1>4, <2>1, <2>2, DatasetsAssumption DEF UpdateDatapoint
  <2>4. QED
    BY <1>1, <2>2, <2>3, BeginStep
<1>5. \A k \in Keys : Table[k[1]] \in {"chat", "json"}
  BY <1>1 DEF Keys
<1>6. ASSUME NEW d \in Ids, DeleteRequest(d) PROVE DatasetInv'
  <2>1. PICK keys \in SUBSET Keys : keys = FunctionNames \X {d}
    BY DEF Keys
  <2>2. Begin("delete", keys, {"chat", "json"}, None)
    BY <1>6, <2>1 DEF DeleteRequest
  <2>3. QED
    BY <1>5, <2>2, BeginStep
<1>7. ASSUME StaleDataset PROVE DatasetInv'
  <2>1. Begin("stale", Keys, {"chat", "json"}, None)
    BY <1>7 DEF StaleDataset
  <2>2. QED
    BY <1>5, <2>1, BeginStep
<1>8. QED
  BY <1>2, <1>3, <1>4, <1>6, <1>7, StatementStep, StatementFailsStep, AnswerStep DEF DatasetsNext

\* The invariant of the datasets endpoint, in every workflow.
THEOREM DatasetInvariance == Spec => []DatasetInv
<1>1. Init => DatasetInv
  <2> SUFFICES ASSUME Init PROVE DatasetInv
    OBVIOUS
  <2>1. edit = Idle /\ edit.keys = {} /\ EditType
    <3>1. edit = Idle
      BY DEF Init, DatasetsInit, EarlierRequests
    <3>2. QED
      BY <3>1 DEF EditType, Idle
  <2>2. CASE DatasetsInit
    <3>1. /\ now \in 0 .. MaxNow /\ << >> \in Seq(Versions)
          /\ DOMAIN rows = Keys /\ \A k \in Keys : rows[k] = << >> /\ acked[k] = Gone
      BY <2>2, VersionFields, EmptySeq DEF DatasetsInit
    <3>2. RowsType
      <4>1. DOMAIN << >> = {}
        OBVIOUS
      <4>2. Stamped(<< >>, now)
        BY <3>1, <4>1 DEF Stamped, InsertedInTime
      <4>3. QED
        BY <3>1, <4>2 DEF RowsType
    <3>3. \A k \in Keys : Settled(k)
      BY <2>1, <3>1 DEF Settled, Visible
    <3>4. QED
      BY <2>1, <3>2, <3>3 DEF DatasetInv
  <2>3. CASE EarlierRequests
    <3>1. /\ rows \in [Keys -> Seq(Versions)] /\ now = MaxNow
          /\ \A k \in Keys : InsertedInTime(rows[k])
          /\ \A k \in Keys : acked[k] = Visible(k)
      BY <2>3, WorkflowsAssumption DEF EarlierRequests
    <3>2. ASSUME NEW k \in Keys PROVE Stamped(rows[k], MaxNow)
      <4>1. rows[k] \in Seq(Versions) /\ DOMAIN rows[k] = 1 .. Len(rows[k])
        BY <3>1, LenProperties
      <4>2. \A i \in DOMAIN rows[k] : rows[k][i] \in Versions
        BY <4>1, ElementOfSeq
      <4>3. \A v \in Versions : v.at <= MaxNow
        BY VersionFields DEF Versions
      <4>4. QED
        BY <3>1, <4>1, <4>2, <4>3 DEF Stamped
    <3>3. RowsType
      BY <3>1, <3>2, VersionFields DEF RowsType
    <3>4. \A k \in Keys : Settled(k)
      BY <2>1, <3>1 DEF Settled
    <3>5. QED
      BY <2>1, <3>3, <3>4 DEF DatasetInv
  <2>4. QED
    BY <2>2, <2>3 DEF Init
<1>2. DatasetInv /\ [Next]_vars => DatasetInv'
  <2> SUFFICES ASSUME DatasetInv, [Next]_vars PROVE DatasetInv'
    OBVIOUS
  <2>1. CASE DatasetsNext
    BY <2>1, DatasetsStep
  <2>2. CASE UNCHANGED datasetVars
    BY <2>2 DEF datasetVars, DatasetInv, EditType, RowsType, Stamped, Settled, Visible, Promised
  <2>3. QED
    BY <2>1, <2>2 DEF Next, EditDataset, Evaluate, WriteFeedback, Optimize, vars
<1>3. QED
  BY <1>1, <1>2, PTL DEF Spec

\* Readers of a dataset see what the last answered request said of each datapoint.
THEOREM DatasetsKeepTheirWord == Spec => []LastAnswerIsVisible
<1>1. DatasetInv => LastAnswerIsVisible
  BY DEF DatasetInv, Settled, LastAnswerIsVisible
<1>2. QED
  BY <1>1, DatasetInvariance, PTL

-----------------------------------------------------------------------------
(***************************************************************************)
(* Evaluations.  A score is kept exactly when its feedback was answered,    *)
(* whatever then becomes of the row, and no evaluator moves once its task   *)
(* was collected.                                                           *)
(***************************************************************************)
EvaluatorStates ==
    [state : {"none", "started", "waiting", "judging", "sending", "done", "error"},
     value : {0, 1, None}]

\* The rows the gateway has spawned an insert of.
Sent == feedback.stored \cup feedback.writing \cup feedback.lost

\* What the state of an evaluator says of its task and of its feedback row.
EvaluatorInv(d, e) ==
    LET ev == evaluator[d][e]
    IN  /\ ev \in EvaluatorStates
        /\ ev.value # None => ev.state \in {"sending", "done"}
        /\ ev.state = "sending" => ev.value # None
        /\ ev.state # "none" => task[d] \in {"evaluating", "collected"}
        /\ task[d] = "collected" => ev.state \in {"done", "error"}
        /\ ev.state = "done" /\ ev.value # None => FeedbackRow(d, e) \in Sent

\* A row was sent for a score that was kept, or for a request that failed.
FeedbackInv ==
    /\ DOMAIN feedback = {"stored", "writing", "lost"}
    /\ Sent \subseteq [id : Ids, evaluator : Evaluators, value : {0, 1}]
    /\ \A f \in Sent :
          LET ev == evaluator[f.id][f.evaluator]
          IN  ev.state = "error" \/ (ev.state = "done" /\ ev.value = f.value)

TaskInv ==
    /\ DOMAIN task = Ids /\ DOMAIN evaluator = Ids /\ \A d \in Ids : DOMAIN evaluator[d] = Evaluators
    /\ \A h \in human : h.value \in {0, 1}
    /\ \A d \in Ids : task[d] # "none" => d \in DOMAIN reference
    /\ run \in {"none", "loading"} => \A d \in Ids : task[d] = "none"

\* A run that ended has no task left.
Reported ==
    /\ run \in {"passed", "failed"} => \A d \in Ids : task[d] \in {"none", "collected", "error"}
    /\ run = "passed" /\ OutputFormat = "pretty" => \A e \in Evaluators : ~FailsCutoff(e)

EvaluationInv ==
    /\ TaskInv /\ FeedbackInv /\ Reported
    /\ \A d \in Ids, e \in Evaluators : EvaluatorInv(d, e)

\* A spawned insert adds its row to what was sent.
LEMMA SpawnedIsSent ==
    ASSUME FeedbackInv, NEW row, feedback' = Spawned(row)
    PROVE  DOMAIN feedback' = {"stored", "writing", "lost"} /\ Sent' = Sent \cup {row}
<1>1. /\ DOMAIN feedback' = {"stored", "writing", "lost"} /\ feedback'.stored = feedback.stored
      /\ feedback'.writing = feedback.writing \cup {row} /\ feedback'.lost = feedback.lost
  BY DEF FeedbackInv, Spawned
<1>2. QED
  BY <1>1 DEF Sent

\* The parts of the invariant that do not move when one evaluator does.
LEMMA EvaluatorMoves ==
    ASSUME EvaluationInv, NEW d \in Ids, NEW e \in Evaluators,
           evaluator[d][e].state \in {"started", "waiting", "judging", "sending"},
           NEW s \in EvaluatorStates, s.state # "none",
           s.value # None => s.state \in {"sending", "done"},
           s.state = "sending" => s.value # None,
           evaluator' = [evaluator EXCEPT ![d][e] = s],
           UNCHANGED <<run, reference, task, human>>,
           \/ feedback' = feedback /\ (s.state = "done" => s.value = None)
           \/ /\ evaluator[d][e].state = "sending"
              /\ \/ s.state = "error" /\ feedback' \in {feedback, Spawned(FeedbackRow(d, e))}
                 \/ /\ s.state = "done" /\ s.value = evaluator[d][e].value
                    /\ feedback' = Spawned(FeedbackRow(d, e))
    PROVE  EvaluationInv'
<1>1. EvaluatorInv(d, e) /\ TaskInv /\ FeedbackInv /\ Reported
  BY DEF EvaluationInv
<1>2. task[d] = "evaluating"
  BY <1>1 DEF EvaluatorInv
<1>3. run \notin {"none", "loading", "passed", "failed"}
  BY <1>1, <1>2 DEF TaskInv, Reported
<1>4. /\ evaluator'[d][e] = s
      /\ \A c \in Ids, b \in Evaluators : c # d \/ b # e => evaluator'[c][b] = evaluator[c][b]
      /\ DOMAIN evaluator' = Ids /\ \A c \in Ids : DOMAIN evaluator'[c] = Evaluators
  BY <1>1 DEF TaskInv
<1>5. TaskInv' /\ Reported'
  BY <1>1, <1>3, <1>4 DEF TaskInv, Reported
<1>6. ASSUME feedback' # feedback
      PROVE  /\ evaluator[d][e].state = "sending" /\ feedback' = Spawned(FeedbackRow(d, e))
             /\ s.state = "error" \/ (s.state = "done" /\ s.value = evaluator[d][e].value)
             /\ evaluator[d][e].value \in {0, 1}
  BY <1>1, <1>6 DEF EvaluatorInv, EvaluatorStates
<1>7. /\ Sent \subseteq Sent' /\ DOMAIN feedback' = {"stored", "writing", "lost"}
      /\ feedback' # feedback => Sent' = Sent \cup {FeedbackRow(d, e)}
      /\ feedback' = feedback => Sent' = Sent
  <2>1. CASE feedback' = feedback
    BY <1>1, <2>1 DEF Sent, FeedbackInv
  <2>2. CASE feedback' # feedback
    BY <1>1, <1>6, <2>2, SpawnedIsSent
  <2>3. QED
    BY <2>1, <2>2
<1>8. ASSUME NEW c \in Ids, NEW b \in Evaluators PROVE EvaluatorInv(c, b)'
  <2>1. CASE c = d /\ b = e
    <3>1. s.state = "done" /\ s.value # None => FeedbackRow(d, e)' \in Sent'
      <4>1. ASSUME s.state = "done", s.value # None PROVE Sent' = Sent \cup {FeedbackRow(d, e)}
        BY <1>1, <4>1, SpawnedIsSent
      <4>2. QED
        BY <1>4, <4>1 DEF FeedbackRow
    <3>2. QED
      BY <1>2, <1>4, <2>1, <3>1 DEF EvaluatorInv
  <2>2. CASE c # d \/ b # e
    <3>1. EvaluatorInv(c, b) /\ evaluator'[c][b] = evaluator[c][b]
      BY <1>4, <2>2 DEF EvaluationInv
    <3>2. QED
      BY <1>7, <3>1 DEF EvaluatorInv, FeedbackRow
  <2>3. QED
    BY <2>1, <2>2
<1>9. FeedbackInv'
  <2>1. ASSUME NEW f \in Sent
        PROVE  /\ f \in [id : Ids, evaluator : Evaluators, value : {0, 1}]
               /\ f.id \in Ids /\ f.evaluator \in Evaluators /\ (f.id # d \/ f.evaluator # e)
               /\ \/ evaluator[f.id][f.evaluator].state = "error"
                  \/ /\ evaluator[f.id][f.evaluator].state = "done"
                     /\ evaluator[f.id][f.evaluator].value = f.value
    BY <1>1, <2>1 DEF FeedbackInv
  <2>2. ASSUME NEW f \in Sent', f \notin Sent
        PROVE  /\ f \in [id : Ids, evaluator : Evaluators, value : {0, 1}]
               /\ f.id = d /\ f.evaluator = e
               /\ s.state = "error" \/ (s.state = "done" /\ s.value = f.value)
    BY <1>6, <1>7, <2>2 DEF FeedbackRow
  <2>3. ASSUME NEW f \in Sent'
        PROVE  /\ f \in [id : Ids, evaluator : Evaluators, value : {0, 1}]
               /\ \/ evaluator'[f.id][f.evaluator].state = "error"
                  \/ /\ evaluator'[f.id][f.evaluator].state = "done"
                     /\ evaluator'[f.id][f.evaluator].value = f.value
    <3>1. CASE f \in Sent
      BY <1>4, <2>1, <3>1
    <3>2. CASE f \notin Sent
      BY <1>4, <2>2, <3>2
    <3>3. QED
      BY <3>1, <3>2
  <2>4. QED
    BY <1>7, <2>3 DEF FeedbackInv
<1>10. QED
  BY <1>5, <1>8, <1>9 DEF EvaluationInv

\* The results of an evaluator are states of it.
LEMMA EvaluatorResults ==
    /\ \A s \in {"none", "started", "waiting", "judging", "error"} :
          Pending(s) \in EvaluatorStates /\ Pending(s).state = s /\ Pending(s).value = None
    /\ \A v \in {0, 1} :
          ToSend(v) \in EvaluatorStates /\ ToSend(v).state = "sending" /\ ToSend(v).value = v
    /\ \A v \in {0, 1, None} :
          Scored("done", v) \in EvaluatorStates /\ Scored("done", v).state = "done"
              /\ Scored("done", v).value = v
BY DEF Pending, ToSend, Scored, EvaluatorStates

\* An evaluator that has not sent a score yet: it gets one, gives up or goes on.
LEMMA EvaluatorProceeds ==
    ASSUME EvaluationInv, NEW d \in Ids, NEW e \in Evaluators,
           evaluator[d][e].state \in {"started", "waiting", "judging"},
           NEW s \in {ToSend(0), ToSend(1), Failed, Result(None), Pending("waiting"), Pending("judging")},
           SetEvaluator(d, e, s),
           UNCHANGED <<run, reference, task, human, feedback>>
    PROVE  EvaluationInv'
<1>1. /\ s \in EvaluatorStates /\ s.state # "none"
      /\ s.value # None => s.state \in {"sending", "done"}
      /\ s.state = "sending" => s.value # None
      /\ s.state = "done" => s.value = None
  BY EvaluatorResults, EvaluationsAssumption DEF Failed, Result
<1>2. evaluator' = [evaluator EXCEPT ![d][e] = s]
  BY DEF SetEvaluator
<1>3. QED
  BY <1>1, <1>2, EvaluatorMoves

\* Every step of an evaluator keeps the invariant.
LEMMA EvaluatorStepKeeps ==
    ASSUME EvaluationInv, NEW d \in Ids, NEW e \in Evaluators, EvaluatorStep(d, e)
    PROVE  EvaluationInv'
<1> DEFINE Outcomes == {ToSend(0), ToSend(1), Failed, Result(None), Pending("waiting"), Pending("judging")}
<1>1. ASSUME RunExactMatch(d, e) PROVE EvaluationInv'
  <2>1. ExactMatch(d) \in {0, 1, None}
    BY DEF ExactMatch
  <2>2. Result(ExactMatch(d)) \in Outcomes
    BY <2>1, EvaluationsAssumption DEF Result
  <2>3. QED
    BY <1>1, <2>2, EvaluatorProceeds DEF RunExactMatch
<1>2. ASSUME RunJudge(d, e) PROVE EvaluationInv'
  <2>1. \A h \in HumanFeedback(d, e) : ToSend(h.value) \in Outcomes
    BY DEF HumanFeedback, EvaluationInv, TaskInv
  <2>2. PrepareJudgeInput(d, e) \in Outcomes
    BY DEF PrepareJudgeInput
  <2>3. PICK s \in Outcomes : SetEvaluator(d, e, s)
    BY <1>2, <2>1, <2>2 DEF RunJudge
  <2>4. QED
    BY <1>2, <2>3, EvaluatorProceeds DEF RunJudge
<1>3. ASSUME SendJudge(d, e) \/ JudgeAnswers(d, e) PROVE EvaluationInv'
  <2>1. PICK s \in Outcomes : SetEvaluator(d, e, s)
    BY <1>3 DEF SendJudge, JudgeAnswers
  <2>2. QED
    BY <1>3, <2>1, EvaluatorProceeds DEF SendJudge, JudgeAnswers
<1>4. ASSUME SendFeedback(d, e) PROVE EvaluationInv'
  <2>1. PICK s \in EvaluatorStates : s = Scored("done", evaluator[d][e].value)
    BY EvaluatorResults DEF EvaluationInv, EvaluatorInv, EvaluatorStates
  <2>2. s.state = "done" /\ s.value = evaluator[d][e].value
    BY <2>1 DEF Scored
  <2>3. evaluator' = [evaluator EXCEPT ![d][e] = s]
    BY <1>4, <2>1 DEF SendFeedback, SetEvaluator
  <2>4. QED
    BY <1>4, <2>2, <2>3, EvaluatorMoves DEF SendFeedback
<1>5. ASSUME FeedbackFails(d, e) PROVE EvaluationInv'
  <2>1. PICK s \in EvaluatorStates : s = Failed
    BY EvaluatorResults DEF Failed
  <2>2. s.state = "error" /\ s.value = None
    BY <2>1 DEF Failed, Pending
  <2>3. evaluator' = [evaluator EXCEPT ![d][e] = s]
    BY <1>5, <2>1 DEF FeedbackFails, SetEvaluator
  <2>4. QED
    BY <1>5, <2>2, <2>3, EvaluatorMoves DEF FeedbackFails
<1>6. QED
  BY <1>1, <1>2, <1>3, <1>4, <1>5 DEF EvaluatorStep

\* A task whose evaluators have not started, or are all done, moves on.
LEMMA TaskMoves ==
    ASSUME EvaluationInv, NEW d \in Ids, NEW to \in {"waiting", "inferring", "error", "collected"},
           task[d] \in {"started", "waiting", "inferring", "evaluating"},
           task[d] = "evaluating" <=> to = "collected",
           to = "collected" => \A e \in Evaluators : evaluator[d][e].state \in {"done", "error"},
           task' = [task EXCEPT ![d] = to],
           UNCHANGED <<run, reference, evaluator, human, feedback>>
    PROVE  EvaluationInv'
<1>1. TaskInv /\ FeedbackInv /\ Reported
  BY DEF EvaluationInv
<1>2. task'[d] = to /\ DOMAIN task' = Ids /\ \A c \in Ids : c # d => task'[c] = task[c]
  BY <1>1 DEF TaskInv
<1>3. run \notin {"none", "loading", "passed", "failed"}
  BY <1>1 DEF TaskInv, Reported
<1>4. TaskInv' /\ Reported' /\ FeedbackInv'
  BY <1>1, <1>2, <1>3 DEF TaskInv, Reported, FeedbackInv, Sent
<1>5. ASSUME NEW c \in Ids, NEW e \in Evaluators PROVE EvaluatorInv(c, e)'
  <2>1. EvaluatorInv(c, e)
    BY DEF EvaluationInv
  <2>2. QED
    BY <1>2, <2>1 DEF EvaluatorInv, FeedbackRow, Sent
<1>6. QED
  BY <1>4, <1>5 DEF EvaluationInv

\* The answer to the inference request starts the evaluators.
LEMMA InferStep ==
    ASSUME EvaluationInv, NEW d \in Ids, NEW out, Infer(d, out)
    PROVE  EvaluationInv'
<1>1. /\ task[d] = "inferring" /\ task' = [task EXCEPT ![d] = "evaluating"]
      /\ evaluator' = [evaluator EXCEPT ![d] = [e \in Evaluators |-> Pending("started")]]
      /\ UNCHANGED <<run, reference, human, feedback>>
  BY DEF Infer
<1>2. TaskInv /\ FeedbackInv /\ Reported
  BY DEF EvaluationInv
<1>3. /\ task'[d] = "evaluating" /\ DOMAIN task' = Ids
      /\ \A c \in Ids : c # d => task'[c] = task[c] /\ evaluator'[c] = evaluator[c]
      /\ \A e \in Evaluators : evaluator'[d][e] = Pending("started")
      /\ DOMAIN evaluator' = Ids /\ DOMAIN evaluator'[d] = Evaluators
  BY <1>1, <1>2 DEF TaskInv
<1>4. run \notin {"none", "loading", "passed", "failed"}
  BY <1>1, <1>2 DEF TaskInv, Reported
<1>5. TaskInv' /\ Reported'
  BY <1>1, <1>2, <1>3, <1>4 DEF TaskInv, Reported
<1>6. \A e \in Evaluators : evaluator[d][e].state = "none"
  BY <1>1 DEF EvaluationInv, EvaluatorInv
<1>7. FeedbackInv'
  <2>1. \A f \in Sent : f.id \in Ids /\ f.evaluator \in Evaluators
    BY <1>2 DEF FeedbackInv
  <2>2. \A f \in Sent : f.id # d
    BY <1>2, <1>6, <2>1 DEF FeedbackInv
  <2>3. QED
    BY <1>1, <1>2, <1>3, <2>1, <2>2 DEF FeedbackInv, Sent
<1>8. ASSUME NEW c \in Ids, NEW e \in Evaluators PROVE EvaluatorInv(c, e)'
  <2>1. CASE c = d
    BY <1>3, <2>1, EvaluatorResults DEF EvaluatorInv
  <2>2. CASE c # d
    BY <1>1, <1>3, <2>2 DEF EvaluationInv, EvaluatorInv, FeedbackRow, Sent
  <2>3. QED
    BY <2>1, <2>2
<1>9. QED
  BY <1>5, <1>7, <1>8 DEF EvaluationInv

\* Every step of a task keeps the invariant.
LEMMA TaskStepKeeps ==
    ASSUME EvaluationInv, NEW d \in Ids, TaskStep(d)
    PROVE  EvaluationInv'
<1>1. ASSUME ResolveInput(d) PROVE EvaluationInv'
  <2>1. PICK to \in {"waiting", "error"} : task' = [task EXCEPT ![d] = to]
    BY <1>1 DEF ResolveInput
  <2>2. QED
    BY <1>1, <2>1, TaskMoves DEF ResolveInput
<1>2. ASSUME SendInference(d) PROVE EvaluationInv'
  BY <1>2, TaskMoves DEF SendInference
<1>3. ASSUME InferFails(d) PROVE EvaluationInv'
  BY <1>3, TaskMoves DEF InferFails
<1>4. ASSUME Collect(d) PROVE EvaluationInv'
  BY <1>4, TaskMoves DEF Collect
<1>5. QED
  BY <1>1, <1>2, <1>3, <1>4, InferStep, EvaluatorStepKeeps DEF TaskStep

\* The dataset is read before any task starts.
LEMMA QueryDatasetStep ==
    ASSUME EvaluationInv, QueryDataset
    PROVE  EvaluationInv'
<1> DEFINE read == ListDatapoints(EvaluatedFunction)
<1>1. /\ run = "loading" /\ run' = "running"
      /\ reference' = [d \in read |-> Visible(<<EvaluatedFunction, d>>).output]
      /\ task' = [d \in Ids |-> IF d \in read THEN "started" ELSE "none"]
      /\ UNCHANGED <<answer, evaluator, human, feedback>>
  BY DEF QueryDataset
<1> HIDE DEF read
<1>2. \A d \in Ids : task[d] = "none"
  BY <1>1 DEF EvaluationInv, TaskInv
<1>3. \A d \in Ids, e \in Evaluators : evaluator[d][e].state = "none"
  BY <1>2 DEF EvaluationInv, EvaluatorInv
<1>4. TaskInv' /\ Reported' /\ FeedbackInv'
  BY <1>1 DEF EvaluationInv, TaskInv, Reported, FeedbackInv, Sent
<1>5. ASSUME NEW d \in Ids, NEW e \in Evaluators PROVE EvaluatorInv(d, e)'
  BY <1>1, <1>3 DEF EvaluationInv, EvaluatorInv
<1>6. QED
  BY <1>4, <1>5 DEF EvaluationInv

\* The steps that only start or end the run.
LEMMA RunSteps ==
    ASSUME EvaluationInv, QueryFails \/ Report \/ \E scores \in HumanScores : StartEvaluation(scores)
    PROVE  EvaluationInv'
<1>1. UNCHANGED <<reference, task, evaluator, feedback>>
  BY DEF QueryFails, Report, StartEvaluation
<1>2. \A h \in human' : h.value \in {0, 1}
  BY WorkflowsAssumption DEF QueryFails, Report, StartEvaluation, EvaluationInv, TaskInv
<1>3. run \in {"none", "loading"} \/ run' \notin {"none", "loading"}
  BY DEF QueryFails, Report, StartEvaluation
<1>4. TaskInv'
  BY <1>1, <1>2, <1>3 DEF EvaluationInv, TaskInv
<1>5. FeedbackInv' /\ \A d \in Ids, e \in Evaluators : EvaluatorInv(d, e)'
  BY <1>1 DEF EvaluationInv, FeedbackInv, EvaluatorInv, FeedbackRow, Sent
<1>6. Reported'
  <2>1. CASE Report
    <3>1. \A e \in Evaluators : FailsCutoff(e)' = FailsCutoff(e)
      BY <1>1 DEF FailsCutoff, Scores, Sum
    <3>2. QED
      BY <1>1, <2>1, <3>1 DEF Report, Reported
  <2>2. CASE ~Report
    <3>1. run' \in {"error", "loading"}
      BY <2>2 DEF QueryFails, StartEvaluation
    <3>2. QED
      BY <3>1 DEF Reported
  <2>3. QED
    BY <2>1, <2>2
<1>7. QED
  BY <1>4, <1>5, <1>6 DEF EvaluationInv

\* What becomes of a row that was sent changes nothing for the runner.
LEMMA FeedbackIsWrittenStep ==
    ASSUME EvaluationInv, NEW row, FeedbackIsWritten(row)
    PROVE  EvaluationInv'
<1>1. TaskInv /\ FeedbackInv /\ Reported
  BY DEF EvaluationInv
<1>2. row \in feedback.writing /\ UNCHANGED <<run, reference, task, answer, evaluator, human>>
  BY DEF FeedbackIsWritten
<1>3. Sent' = Sent /\ DOMAIN feedback' = {"stored", "writing", "lost"}
  <2>1. CASE feedback' = [feedback EXCEPT !.writing = @ \ {row}, !.stored = @ \cup {row}]
    <3>1. /\ DOMAIN feedback' = {"stored", "writing", "lost"} /\ feedback'.stored = feedback.stored \cup {row}
          /\ feedback'.writing = feedback.writing \ {row} /\ feedback'.lost = feedback.lost
      BY <1>1, <2>1 DEF FeedbackInv
    <3>2. QED
      BY <1>2, <3>1 DEF Sent
  <2>2. CASE feedback' = [feedback EXCEPT !.writing = @ \ {row}, !.lost = @ \cup {row}]
    <3>1. /\ DOMAIN feedback' = {"stored", "writing", "lost"} /\ feedback'.lost = feedback.lost \cup {row}
          /\ feedback'.writing = feedback.writing \ {row} /\ feedback'.stored = feedback.stored
      BY <1>1, <2>2 DEF FeedbackInv
    <3>2. QED
      BY <1>2, <3>1 DEF Sent
  <2>3. QED
    BY <2>1, <2>2 DEF FeedbackIsWritten
<1>4. TaskInv' /\ FeedbackInv'
  BY <1>1, <1>2, <1>3 DEF TaskInv, FeedbackInv
<1>5. Reported'
  BY <1>1, <1>2 DEF Reported, FailsCutoff, Scores, Sum
<1>6. \A d \in Ids, e \in Evaluators : EvaluatorInv(d, e)'
  BY <1>2, <1>3 DEF EvaluationInv, EvaluatorInv, FeedbackRow
<1>7. QED
  BY <1>4, <1>5, <1>6 DEF EvaluationInv

\* The invariant of the evaluations runner, in every workflow.
THEOREM EvaluationInvariance == Spec => []EvaluationInv
<1>1. Init => EvaluationInv
  <2> SUFFICES ASSUME NoRun PROVE EvaluationInv
    BY DEF Init
  <2>1. /\ run = "none" /\ human = {} /\ Sent = {} /\ DOMAIN feedback = {"stored", "writing", "lost"}
        /\ DOMAIN task = Ids /\ DOMAIN evaluator = Ids
        /\ \A d \in Ids : task[d] = "none" /\ DOMAIN evaluator[d] = Evaluators
        /\ \A d \in Ids, e \in Evaluators : evaluator[d][e] = Pending("none")
    BY DEF NoRun, Sent
  <2>2. TaskInv /\ FeedbackInv /\ Reported
    BY <2>1 DEF TaskInv, FeedbackInv, Reported
  <2>3. \A d \in Ids, e \in Evaluators : EvaluatorInv(d, e)
    BY <2>1, EvaluatorResults DEF EvaluatorInv
  <2>4. QED
    BY <2>2, <2>3 DEF EvaluationInv
<1>2. EvaluationInv /\ [Next]_vars => EvaluationInv'
  <2> SUFFICES ASSUME EvaluationInv, [Next]_vars PROVE EvaluationInv'
    OBVIOUS
  <2>1. CASE Evaluate
    BY <2>1, QueryDatasetStep, RunSteps, TaskStepKeeps DEF Evaluate, EvaluationsNext
  <2>2. CASE UNCHANGED evaluationVars
    <3>1. UNCHANGED <<run, reference, task, answer, evaluator, human, feedback>>
      BY <2>2 DEF evaluationVars
    <3>2. TaskInv' /\ FeedbackInv'
      BY <3>1 DEF EvaluationInv, TaskInv, FeedbackInv, Sent
    <3>3. Reported'
      BY <3>1 DEF EvaluationInv, Reported, FailsCutoff, Scores, Sum
    <3>4. \A d \in Ids, e \in Evaluators : EvaluatorInv(d, e)'
      BY <3>1 DEF EvaluationInv, EvaluatorInv, FeedbackRow, Sent
    <3>5. QED
      BY <3>2, <3>3, <3>4 DEF EvaluationInv
  <2>3. CASE WriteFeedback
    BY <2>3, FeedbackIsWrittenStep DEF WriteFeedback
  <2>4. QED
    BY <2>1, <2>2, <2>3 DEF Next, EditDataset, Optimize, vars
<1>3. QED
  BY <1>1, <1>2, PTL DEF Spec

\* As many rows as scores.
LEMMA RowsOfScores ==
    ASSUME NEW e, NEW D \in SUBSET Ids, NEW R,
           \A d \in D : FeedbackRow(d, e) \in R,
           \A r \in R : \E d \in D : r = FeedbackRow(d, e)
    PROVE  /\ IsFiniteSet(D) /\ Cardinality(D) \in Nat
           /\ Cardinality(R) = Cardinality(D)
<1> DEFINE g == [d \in D |-> FeedbackRow(d, e)]
<1>1. IsFiniteSet(D)
  BY EvaluationsAssumption, FS_Subset
<1>2. g \in [D -> R] /\ \A r \in R : \E d \in D : g[d] = r
  OBVIOUS
<1>3. \A c, d \in D : g[c] = g[d] => c = d
  BY DEF FeedbackRow
<1> HIDE DEF g
<1>4. g \in Bijection(D, R)
  BY <1>2, <1>3 DEF Bijection, Injection, Surjection, IsInjective
<1>5. ExistsBijection(D, R)
  BY <1>4 DEF ExistsBijection
<1>6. QED
  BY <1>1, <1>5, FS_Bijection, FS_CardinalityType

\* What a report counts was sent, and a run that passed met its cutoffs on what was sent, once
\* all of it is stored.
THEOREM ReportsAreStored == Spec => []ReportIsStored
<1>1. EvaluationInv => ReportIsStored
  <2> SUFFICES ASSUME EvaluationInv PROVE ReportIsStored
    OBVIOUS
  <2>1. TaskInv /\ FeedbackInv /\ Reported
    BY DEF EvaluationInv
  <2>2. ASSUME NEW e \in Evaluators, NEW d \in Scores(e)
        PROVE  d \in Ids /\ d \in DOMAIN reference /\ evaluator[d][e].state = "done"
                 /\ FeedbackRow(d, e) \in Sent
    <3>1. d \in Ids /\ task[d] = "collected" /\ evaluator[d][e].value # None
      BY <2>2 DEF Scores
    <3>2. EvaluatorInv(d, e)
      BY <3>1 DEF EvaluationInv
    <3>3. QED
      BY <2>1, <3>1, <3>2 DEF TaskInv, EvaluatorInv
  <2>3. ASSUME run = "passed", OutputFormat = "pretty", feedback.writing \cup feedback.lost = {},
               NEW e \in Evaluators,
               Config[e].cutoff # NoCutoff,
               {f \in feedback.stored : f.evaluator = e /\ evaluator[f.id][e].state = "done"} # {}
        PROVE  LET kept == {f \in feedback.stored : f.evaluator = e /\ evaluator[f.id][e].state = "done"}
                   mean == 100 * Cardinality({f \in kept : f.value = 1})
                   cutoff == Config[e].cutoff * Cardinality(kept)
               IN  IF Config[e].optimize = "max" THEN mean >= cutoff ELSE mean <= cutoff
    <3> DEFINE kept == {f \in feedback.stored : f.evaluator = e /\ evaluator[f.id][e].state = "done"}
               ones == {d \in Scores(e) : evaluator[d][e].value = 1}
    <3>1. Scores(e) \in SUBSET Ids /\ ones \in SUBSET Ids /\ Sent = feedback.stored
      BY <2>3 DEF Scores, Sent
    <3>2. ASSUME NEW f \in kept PROVE f.id \in Scores(e) /\ f = FeedbackRow(f.id, e)
      <4>1. /\ f \in [id : Ids, evaluator : Evaluators, value : {0, 1}] /\ f.evaluator = e
            /\ evaluator[f.id][e].state = "done" /\ evaluator[f.id][e].value = f.value
        BY <2>1, <3>1, <3>2 DEF FeedbackInv
      <4>2. f.id \in Ids /\ f.value # None
        BY <4>1, EvaluationsAssumption
      <4>3. task[f.id] = "collected"
        BY <2>1, <2>3, <4>1, <4>2 DEF EvaluationInv, EvaluatorInv, Reported
      <4>4. QED
        BY <4>1, <4>2, <4>3 DEF Scores, FeedbackRow
    <3>3. \A d \in Scores(e) :
             FeedbackRow(d, e) \in kept /\ FeedbackRow(d, e).value = evaluator[d][e].value
      BY <2>2, <3>1 DEF FeedbackRow
    <3>4. /\ Cardinality(kept) = Cardinality(Scores(e)) /\ Cardinality(Scores(e)) \in Nat
          /\ IsFiniteSet(Scores(e))
      <4>1. \A r \in kept : \E d \in Scores(e) : r = FeedbackRow(d, e)
        BY <3>2
      <4> HIDE DEF kept
      <4>2. QED
        BY <3>1, <3>3, <4>1, RowsOfScores
    <3>5. /\ Cardinality({f \in kept : f.value = 1}) = Cardinality(ones)
          /\ Cardinality(ones) \in Nat
      <4>1. PICK R : R = {f \in kept : f.value = 1}
        OBVIOUS
      <4>2. \A d \in ones : FeedbackRow(d, e) \in R
        BY <3>3, <4>1
      <4>3. \A r \in R : \E d \in ones : r = FeedbackRow(d, e)
        <5>1. ASSUME NEW r \in R PROVE r.id \in ones /\ r = FeedbackRow(r.id, e)
          <6>1. r \in kept /\ r.value = 1
            BY <4>1
          <6>2. r.id \in Scores(e) /\ r = FeedbackRow(r.id, e)
            BY <3>2, <6>1
          <6>3. QED
            BY <3>3, <6>1, <6>2
        <5>2. QED
          BY <5>1
      <4> HIDE DEF kept, ones
      <4>4. QED
        BY <3>1, <4>1, <4>2, <4>3, RowsOfScores
    <3>6. Cardinality(Scores(e)) # 0
      <4>1. Scores(e) # {}
        BY <2>3, <3>2
      <4>2. QED
        BY <3>4, <4>1, FS_EmptySet
    <3>7. /\ Config[e].cutoff \in Nat /\ ~FailsCutoff(e) /\ Sum(e) = Cardinality(ones)
      BY <2>1, <2>3, EvaluationsAssumption DEF Reported, Sum
    <3>8. /\ Config[e].optimize = "max" => ~(100 * Cardinality(ones) < Config[e].cutoff * Cardinality(Scores(e)))
          /\ Config[e].optimize # "max" => ~(100 * Cardinality(ones) > Config[e].cutoff * Cardinality(Scores(e)))
      BY <2>3, <3>6, <3>7 DEF FailsCutoff
    <3>9. /\ 100 * Cardinality(ones) \in Int
          /\ Config[e].cutoff * Cardinality(Scores(e)) \in Int
      BY <3>4, <3>5, <3>7
    <3> HIDE DEF kept, ones
    <3>10. IF Config[e].optimize = "max"
           THEN 100 * Cardinality(ones) >= Config[e].cutoff * Cardinality(Scores(e))
           ELSE 100 * Cardinality(ones) <= Config[e].cutoff * Cardinality(Scores(e))
      BY <3>8, <3>9
    <3>11. QED
      BY <3>4, <3>5, <3>10 DEF kept
  <2>4. QED
    BY <2>2, <2>3 DEF ReportIsStored, Sent
<1>2. QED
  BY <1>1, EvaluationInvariance, PTL

-----------------------------------------------------------------------------
(***************************************************************************)
(* Optimization.  The sets are fixed when the launch is, a file holds its   *)
(* set from the first call of its upload on, and a job that completed       *)
(* stays so: what one poll has read holds when another acts on it.          *)
(***************************************************************************)
AllStates == {"none", "completed"} \cup JobStates.pending \cup JobStates.failed

LaunchType ==
    /\ request \in Requests /\ stored \in Corpora
    /\ DOMAIN launch = {"phase", "train", "val"}
    /\ launch.phase \in {"listing", "converting", "uploading", "launched", "error"}

\* The sets of a workflow's launch that was not refused.
SplitInv ==
    (launch.phase \notin {"listing", "error"} \/ job.state # "none") /\ request.via = "workflow" =>
        /\ launch.val # Missing => launch.train \cap launch.val = {}
        /\ launch.val = Missing <=> request.val_fraction = Missing
        /\ launch.train \subseteq Matching
        /\ launch.val # Missing => launch.val \subseteq Matching

FileInv(split) ==
    /\ DOMAIN files[split] = {"state", "rows"}
    /\ \E i \in DOMAIN UploadSteps : files[split].state = UploadSteps[i]
    /\ launch.phase \in {"listing", "converting"} => files[split].state = "none"
    /\ files[split].state = "none" => files[split].rows = {}
    /\ files[split].state # "none" =>
          split \in WantedSplits /\ files[split].rows = Examples(split)

JobInv ==
    /\ DOMAIN job = {"state", "files", "model"}
    /\ job.state \in AllStates /\ job.model \in BOOLEAN
    /\ launch.phase = "launched" => job.state # "none"
    /\ job.state # "none" =>
          launch.phase \in {"launched", "error"} /\ job.files = WantedSplits /\ UploadsDone

\* What a poll knows of the job, and what polls have said.
PollInv ==
    /\ deployed \in Seq({"deploying", "deployed"})
    /\ DOMAIN polls = 1 .. MaxPolls
    /\ \A p \in 1 .. MaxPolls :
          /\ polls[p] # "idle" => job.state # "none"
          /\ polls[p] \in {"model", "deploy"} => job.state = "completed" /\ job.model
    /\ CompletedIsServed

OptInv ==
    /\ LaunchType /\ SplitInv /\ JobInv /\ PollInv
    /\ DOMAIN files = Splits /\ \A split \in Splits : FileInv(split)

OptimizationInv ==
    /\ workflow # "optimization" => Idling
    /\ workflow = "optimization" => OptInv

\* A filter is met on the latest values by what it lists, if every metric has a value.
LEMMA FilterIsMet ==
    ASSUME NEW tree, NEW inf,
           \A i \in DOMAIN tree : tree[i].kind \in {"metric", "and", "or", "not"},
           \A m \in Metrics(tree) : inf.metrics[m] # << >>, Filter(tree, inf)
    PROVE  Meets(tree, inf)
<1>1. ASSUME NEW i \in DOMAIN tree, tree[i].kind = "metric"
      PROVE  JoinedValue(inf, tree[i].metric) = Latest(inf.metrics[tree[i].metric])
  <2>1. tree[i].metric \in Metrics(tree)
    BY <1>1 DEF Metrics
  <2>2. QED
    BY <2>1 DEF JoinedValue
<1>2. CASE tree = << >>
  BY <1>2 DEF Meets
<1>3. CASE tree # << >>
  <2>1. PICK holds \in [DOMAIN tree -> BOOLEAN] :
          /\ holds[Len(tree)]
          /\ \A i \in DOMAIN tree : holds[i] =
               CASE tree[i].kind = "metric" -> Compare(tree[i].op, JoinedValue(inf, tree[i].metric), tree[i].value)
                 [] tree[i].kind = "and" -> \A c \in tree[i].children : holds[c]
                 [] tree[i].kind = "or"  -> \E c \in tree[i].children : holds[c]
                 [] tree[i].kind = "not" -> \A c \in tree[i].children : ~holds[c]
    BY <1>3 DEF Filter
  <2>2. ASSUME NEW i \in DOMAIN tree
        PROVE  holds[i] =
               CASE tree[i].kind = "metric" -> Compare(tree[i].op, Latest(inf.metrics[tree[i].metric]), tree[i].value)
                 [] tree[i].kind = "and" -> \A c \in tree[i].children : holds[c]
                 [] tree[i].kind = "or"  -> \E c \in tree[i].children : holds[c]
                 [] tree[i].kind = "not" -> \A c \in tree[i].children : ~holds[c]
    <3>1. CASE tree[i].kind = "metric"
      BY <1>1, <2>1, <3>1
    <3>2. CASE tree[i].kind = "and"
      BY <2>1, <3>2
    <3>3. CASE tree[i].kind = "or"
      BY <2>1, <3>3
    <3>4. CASE tree[i].kind = "not"
      BY <2>1, <3>4
    <3>5. QED
      BY <3>1, <3>2, <3>3, <3>4
  <2>3. QED
    BY <2>1, <2>2 DEF Meets
<1>4. QED
  BY <1>2, <1>3

\* The states of a job are told apart.
LEMMA StatesApart ==
    ASSUME request \in Requests
    PROVE  /\ "none" \notin JobStates.pending \cup JobStates.failed
           /\ "completed" \notin JobStates.pending \cup JobStates.failed
           /\ JobStates.pending # {}
<1>1. request.optimizer \in {"fireworks", "together", "openai", "gcp"}
  BY OptimizationAssumption
<1>2. CASE request.optimizer = "fireworks"
  BY <1>2 DEF JobStates, FireworksStates
<1>3. CASE request.optimizer = "together"
  BY <1>3 DEF JobStates, TogetherStates
<1>4. CASE request.optimizer = "openai"
  BY <1>4 DEF JobStates, OpenAIStates
<1>5. CASE request.optimizer = "gcp"
  BY <1>5 DEF JobStates, GCPStates
<1>6. QED
  BY <1>1, <1>2, <1>3, <1>4, <1>5

\* A poll only says Completed of a job that completed and names its model.
LEMMA CompletedStatus ==
    ASSUME request \in Requests, NEW state \in AllStates, state # "none", NEW model \in BOOLEAN,
           OptimizerStatus(state, model) = "Completed"
    PROVE  state = "completed" /\ model
<1>1. state \in JobStates.pending \/ state \in JobStates.failed \/ state = "completed"
  BY DEF AllStates
<1>2. CASE state = "completed"
  <2>1. state \notin JobStates.pending /\ state \notin JobStates.failed
    BY <1>2, StatesApart
  <2>2. OptimizerStatus(state, model) = IF model THEN "Completed" ELSE "Error"
    BY <1>2, <2>1 DEF OptimizerStatus
  <2>3. QED
    BY <1>2, <2>2
<1>3. CASE state # "completed"
  <2>1. OptimizerStatus(state, model) \in {"Pending", "Failed"}
    BY <1>1, <1>3 DEF OptimizerStatus
  <2>2. QED
    BY <2>1
<1>4. QED
  BY <1>2, <1>3

\* What neither the launch nor the request changes.
LEMMA SameRequest ==
    ASSUME UNCHANGED <<stored, request>>
    PROVE  Matching' = Matching /\ JobStates' = JobStates /\ AllStates' = AllStates
             /\ UploadSteps' = UploadSteps
BY DEF Matching, JobStates, AllStates, UploadSteps

\* The launch has its sets, or is refused, before there is a file or a job.
LEMMA NewLaunch ==
    ASSUME OptInv, launch.phase = "listing",
           DOMAIN launch' = {"phase", "train", "val"}, launch'.phase \in {"converting", "error"},
           launch'.phase = "converting" /\ request.via = "workflow" =>
              /\ launch'.val # Missing => launch'.train \cap launch'.val = {}
              /\ launch'.val = Missing <=> request.val_fraction = Missing
              /\ launch'.train \subseteq Matching
              /\ launch'.val # Missing => launch'.val \subseteq Matching,
           UNCHANGED <<stored, request, files, job, deployed, polls, answers, faults>>
    PROVE  OptInv'
<1>1. LaunchType /\ JobInv /\ PollInv
  BY DEF OptInv
<1>2. job.state = "none" /\ launch'.phase # "launched"
  BY <1>1 DEF JobInv
<1>3. Matching' = Matching /\ AllStates' = AllStates /\ UploadSteps' = UploadSteps
  BY SameRequest
<1>4. LaunchType'
  BY <1>1 DEF LaunchType
<1>5. SplitInv'
  BY <1>2, <1>3 DEF SplitInv
<1>6. JobInv'
  BY <1>1, <1>2, <1>3 DEF JobInv
<1>7. PollInv'
  BY <1>1 DEF PollInv, CompletedIsServed
<1>8. DOMAIN files' = Splits /\ \A split \in Splits : FileInv(split)'
  BY <1>3 DEF OptInv, FileInv
<1>9. QED
  BY <1>4, <1>5, <1>6, <1>7, <1>8 DEF OptInv

\* The workflow's sets come from what matched its filter.
LEMMA ListInferencesStep ==
    ASSUME OptInv, ListInferences
    PROVE  OptInv'
<1>1. /\ launch.phase = "listing"
      /\ UNCHANGED <<stored, request, files, job, deployed, polls, answers, faults>>
  BY DEF ListInferences
<1>2. request \in Requests /\ stored \in Corpora /\ DOMAIN launch = {"phase", "train", "val"}
  BY DEF OptInv, LaunchType
<1>3. PICK S \in Listings :
        \/ launch' = [launch EXCEPT !.phase = "error"]
        \/ \E split \in SplitExamples(WithOutput(RenderSamples(S))) : Launch(split)
  BY DEF ListInferences
<1>4. CASE launch' = [launch EXCEPT !.phase = "error"]
  <2>1. DOMAIN launch' = {"phase", "train", "val"} /\ launch'.phase = "error"
    BY <1>2, <1>4
  <2>2. QED
    BY <1>1, <2>1, NewLaunch
<1>5. CASE \E split \in SplitExamples(WithOutput(RenderSamples(S))) : Launch(split)
  <2>1. PICK E : E = WithOutput(RenderSamples(S))
    OBVIOUS
  <2>2. E \subseteq Matching /\ E \subseteq DOMAIN stored
    BY <2>1 DEF WithOutput, RenderSamples, Listings, Matching
  <2>3. PICK split \in SplitExamples(E) : Launch(split)
    BY <1>5, <2>1
  <2>4. /\ split.train \subseteq E
        /\ request.val_fraction = Missing => split.val = Missing
        /\ request.val_fraction # Missing =>
              split.val \subseteq E /\ split.train \cap split.val = {}
    BY <2>3 DEF SplitExamples
  <2>5. request.val_fraction # Missing => split.val # Missing
    BY <1>2, <2>2, <2>4, OptimizationAssumption
  <2>6. /\ launch' = [phase |-> "converting", train |-> split.train, val |-> split.val]
    BY <2>3 DEF Launch
  <2>7. /\ DOMAIN launch' = {"phase", "train", "val"} /\ launch'.phase = "converting"
        /\ launch'.train = split.train /\ launch'.val = split.val
    BY <2>6
  <2>8. /\ launch'.val # Missing => launch'.train \cap launch'.val = {}
        /\ launch'.val = Missing <=> request.val_fraction = Missing
        /\ launch'.train \subseteq Matching
        /\ launch'.val # Missing => launch'.val \subseteq Matching
    BY <2>2, <2>4, <2>5, <2>7
  <2>9. QED
    BY <1>1, <2>7, <2>8, NewLaunch
<1>6. QED
  BY <1>3, <1>4, <1>5

\* The caller's sets are its own affair.
LEMMA LaunchOptimizationStep ==
    ASSUME OptInv, LaunchOptimization
    PROVE  OptInv'
<1>1. /\ launch.phase = "listing" /\ request.via # "workflow"
      /\ UNCHANGED <<stored, request, files, job, deployed, polls, answers, faults>>
  BY DEF LaunchOptimization
<1>2. PICK train, val : launch' = [phase |-> "converting", train |-> train, val |-> val]
  BY DEF LaunchOptimization, Launch
<1>3. /\ DOMAIN launch' = {"phase", "train", "val"} /\ launch'.phase = "converting"
      /\ launch'.train = train /\ launch'.val = val
  BY <1>2
<1>4. QED
  BY <1>1, <1>2, <1>3, NewLaunch

\* The launch goes on with its sets, and no job is created yet.
LEMMA LaunchMoves ==
    ASSUME OptInv, NEW to \in {"uploading", "error"},
           launch.phase \in {"converting", "uploading"},
           launch' = [launch EXCEPT !.phase = to],
           UNCHANGED <<stored, request, files, job, deployed, polls, answers>>
    PROVE  OptInv'
<1>1. LaunchType /\ JobInv /\ PollInv /\ SplitInv
  BY DEF OptInv
<1>2. /\ DOMAIN launch' = {"phase", "train", "val"} /\ launch'.phase = to
      /\ launch'.train = launch.train /\ launch'.val = launch.val
  BY <1>1 DEF LaunchType
<1>3. job.state = "none"
  BY <1>1 DEF JobInv
<1>4. Matching' = Matching /\ AllStates' = AllStates /\ UploadSteps' = UploadSteps
  BY SameRequest
<1>5. LaunchType' /\ PollInv'
  BY <1>1, <1>2 DEF LaunchType, PollInv, CompletedIsServed
<1>6. SplitInv' /\ JobInv'
  BY <1>1, <1>2, <1>3, <1>4 DEF SplitInv, JobInv
<1>7. DOMAIN files' = Splits /\ \A split \in Splits : FileInv(split)'
  BY <1>2, <1>4 DEF OptInv, FileInv, WantedSplits, Examples
<1>8. QED
  BY <1>5, <1>6, <1>7 DEF OptInv

\* The step after one that occurs once.
LEMMA NextStepOf ==
    ASSUME NEW state, NEW n \in DOMAIN UploadSteps,
           \A i \in DOMAIN UploadSteps : UploadSteps[i] = state <=> i = n
    PROVE  NextStep(state) = UploadSteps[n + 1]
<1>1. (CHOOSE i \in DOMAIN UploadSteps : UploadSteps[i] = state) = n
  OBVIOUS
<1>2. QED
  BY <1>1 DEF NextStep

\* The calls of an upload follow each other, and the first one has the rows.
LEMMA NextStepType ==
    ASSUME NEW i \in DOMAIN UploadSteps, UploadSteps[i] # "ready"
    PROVE  /\ \E j \in DOMAIN UploadSteps : NextStep(UploadSteps[i]) = UploadSteps[j]
           /\ NextStep(UploadSteps[i]) # "none"
<1>1. CASE request.optimizer = "fireworks"
  <2>1. UploadSteps = <<"none", "created", "processing", "ready">>
    BY <1>1 DEF UploadSteps, FireworksUpload
  <2>2. /\ DOMAIN UploadSteps = 1 .. 4 /\ UploadSteps[1] = "none" /\ UploadSteps[2] = "created"
        /\ UploadSteps[3] = "processing" /\ UploadSteps[4] = "ready"
    BY <2>1
  <2>3. i \in 1 .. 3
    BY <2>2
  <2>4. \A j \in DOMAIN UploadSteps : UploadSteps[j] = UploadSteps[i] <=> j = i
    BY <2>2
  <2>5. NextStep(UploadSteps[i]) = UploadSteps[i + 1]
    BY <2>4, NextStepOf
  <2>6. NextStep(UploadSteps[i]) = UploadSteps[i + 1] /\ i + 1 \in 2 .. 4
    BY <2>3, <2>5
  <2>7. QED
    BY <2>2, <2>6
<1>2. CASE request.optimizer # "fireworks"
  <2>1. UploadSteps = <<"none", "ready">>
    BY <1>2 DEF UploadSteps, SingleUpload
  <2>2. DOMAIN UploadSteps = 1 .. 2 /\ UploadSteps[1] = "none" /\ UploadSteps[2] = "ready"
    BY <2>1
  <2>3. i = 1
    BY <2>2
  <2>4. \A j \in DOMAIN UploadSteps : UploadSteps[j] = UploadSteps[i] <=> j = i
    BY <2>2
  <2>5. NextStep(UploadSteps[i]) = UploadSteps[i + 1]
    BY <2>4, NextStepOf
  <2>6. NextStep(UploadSteps[i]) = UploadSteps[2]
    BY <2>3, <2>5
  <2>7. QED
    BY <2>2, <2>6
<1>3. QED
  BY <1>1, <1>2

\* A call of an upload; no job uses the file yet.
LEMMA UploadStep ==
    ASSUME OptInv, NEW split \in Splits, Upload(split)
    PROVE  OptInv'
<1>1. /\ launch.phase = "uploading" /\ split \in WantedSplits /\ files[split].state # "ready"
      /\ files' = [files EXCEPT ![split] =
           [state |-> NextStep(@.state),
            rows |-> IF @.state \in {"created", "none"} THEN Examples(split) ELSE @.rows]]
      /\ UNCHANGED <<stored, request, launch, job, deployed, polls, answers, faults>>
  BY DEF Upload
<1>2. /\ LaunchType /\ JobInv /\ PollInv /\ SplitInv /\ DOMAIN files = Splits
      /\ \A s \in Splits : FileInv(s)
  BY DEF OptInv
<1>3. job.state = "none"
  BY <1>1, <1>2 DEF JobInv
<1>4. Matching' = Matching /\ AllStates' = AllStates /\ UploadSteps' = UploadSteps
  BY <1>1, SameRequest
<1>5. LaunchType' /\ PollInv' /\ SplitInv' /\ JobInv'
  BY <1>1, <1>2, <1>3, <1>4 DEF LaunchType, PollInv, CompletedIsServed, SplitInv, JobInv
<1>6. /\ DOMAIN files' = Splits /\ \A s \in Splits : s # split => files'[s] = files[s]
      /\ DOMAIN files'[split] = {"state", "rows"}
      /\ files'[split].state = NextStep(files[split].state)
      /\ files'[split].rows = IF files[split].state \in {"created", "none"} THEN Examples(split)
                              ELSE files[split].rows
  BY <1>1, <1>2
<1>7. /\ \E j \in DOMAIN UploadSteps : files'[split].state = UploadSteps[j]
      /\ files'[split].state # "none"
  BY <1>1, <1>2, <1>6, NextStepType DEF FileInv
<1>8. files'[split].rows = Examples(split)
  BY <1>2, <1>6 DEF FileInv
<1>9. WantedSplits' = WantedSplits /\ \A s \in Splits : Examples(s)' = Examples(s)
  BY <1>1 DEF WantedSplits, Examples
<1>10. ASSUME NEW s \in Splits PROVE FileInv(s)'
  <2>1. CASE s = split
    BY <1>1, <1>4, <1>6, <1>7, <1>8, <1>9, <2>1 DEF FileInv
  <2>2. CASE s # split
    BY <1>1, <1>2, <1>4, <1>6, <1>9, <2>2 DEF FileInv
  <2>3. QED
    BY <2>1, <2>2
<1>11. QED
  BY <1>5, <1>6, <1>10 DEF OptInv

\* A job is created from whole files, also when the call fails.
LEMMA CreateJobStep ==
    ASSUME OptInv, CreateJob
    PROVE  OptInv'
<1>1. /\ launch.phase = "uploading" /\ UploadsDone
      /\ UNCHANGED <<stored, request, files, deployed, polls, answers>>
  BY DEF CreateJob
<1>2. PICK to \in {"launched", "error"} : launch' = [launch EXCEPT !.phase = to]
  BY DEF CreateJob
<1>3. /\ LaunchType /\ JobInv /\ PollInv /\ SplitInv /\ DOMAIN files = Splits
      /\ \A s \in Splits : FileInv(s)
  BY DEF OptInv
<1>4. /\ DOMAIN launch' = {"phase", "train", "val"} /\ launch'.phase = to
      /\ launch'.train = launch.train /\ launch'.val = launch.val
  BY <1>2, <1>3 DEF LaunchType
<1>5. job.state = "none"
  BY <1>1, <1>3 DEF JobInv
<1>6. /\ Matching' = Matching /\ AllStates' = AllStates /\ UploadSteps' = UploadSteps
      /\ WantedSplits' = WantedSplits /\ \A s \in Splits : Examples(s)' = Examples(s)
  BY <1>1, <1>4, SameRequest DEF WantedSplits, Examples
<1>7. /\ DOMAIN NewJob = {"state", "files", "model"} /\ NewJob.state \in JobStates.pending
      /\ NewJob.files = WantedSplits /\ NewJob.model = FALSE
  <2>1. (CHOOSE state \in JobStates.pending : TRUE) \in JobStates.pending
    BY <1>3, StatesApart DEF LaunchType
  <2>2. QED
    BY <2>1 DEF NewJob
<1>8. NewJob.state # "none" /\ NewJob.state \in AllStates
  BY <1>3, <1>7, StatesApart DEF LaunchType, AllStates
<1>9. job' = NewJob \/ (job' = job /\ launch'.phase = "error")
  BY <1>4 DEF CreateJob
<1>10. LaunchType'
  BY <1>1, <1>3, <1>4 DEF LaunchType
<1>11. SplitInv'
  BY <1>1, <1>3, <1>4, <1>6 DEF SplitInv
<1>12. JobInv'
  <2>1. UploadsDone'
    BY <1>1, <1>6 DEF UploadsDone
  <2>2. QED
    BY <1>3, <1>4, <1>5, <1>6, <1>7, <1>8, <1>9, <2>1 DEF JobInv
<1>13. PollInv'
  BY <1>1, <1>3, <1>5 DEF PollInv, CompletedIsServed
<1>14. \A s \in Splits : FileInv(s)'
  BY <1>1, <1>3, <1>4, <1>6 DEF FileInv
<1>15. QED
  BY <1>1, <1>3, <1>10, <1>11, <1>12, <1>13, <1>14 DEF OptInv

\* The provider's job moves; once completed it stays so.
LEMMA ProviderMoves ==
    ASSUME OptInv, job.state # "none",
           DOMAIN job' = {"state", "files", "model"}, job'.files = job.files,
           job'.state \in AllStates, job'.state # "none", job'.model \in BOOLEAN,
           job.state = "completed" /\ job.model => job'.state = "completed" /\ job'.model,
           UNCHANGED <<stored, request, launch, files, deployed, polls, answers, faults>>
    PROVE  OptInv'
<1>1. /\ LaunchType /\ JobInv /\ PollInv /\ SplitInv /\ DOMAIN files = Splits
      /\ \A s \in Splits : FileInv(s)
  BY DEF OptInv
<1>2. /\ Matching' = Matching /\ AllStates' = AllStates /\ UploadSteps' = UploadSteps
      /\ WantedSplits' = WantedSplits /\ \A s \in Splits : Examples(s)' = Examples(s)
  BY SameRequest DEF WantedSplits, Examples
<1>3. LaunchType' /\ SplitInv'
  BY <1>1, <1>2 DEF LaunchType, SplitInv
<1>4. JobInv'
  <2>1. UploadsDone' = UploadsDone
    BY <1>2 DEF UploadsDone
  <2>2. QED
    BY <1>1, <1>2, <2>1 DEF JobInv
<1>5. PollInv'
  BY <1>1 DEF PollInv, CompletedIsServed
<1>6. \A s \in Splits : FileInv(s)'
  BY <1>1, <1>2 DEF FileInv
<1>7. QED
  BY <1>1, <1>3, <1>4, <1>5, <1>6 DEF OptInv

\* The three ways a job moves.
LEMMA JobSteps ==
    ASSUME OptInv, JobMoves \/ JobEnds \/ ModelIsNamed
    PROVE  OptInv'
<1>1. /\ job.state # "none"
      /\ UNCHANGED <<stored, request, launch, files, deployed, polls, answers, faults>>
  BY DEF JobMoves, JobEnds, ModelIsNamed
<1>2. /\ DOMAIN job = {"state", "files", "model"} /\ job.model \in BOOLEAN /\ job.state \in AllStates
      /\ request \in Requests
  BY DEF OptInv, JobInv, LaunchType
<1>3. /\ DOMAIN job' = {"state", "files", "model"} /\ job'.files = job.files
      /\ job'.model \in BOOLEAN /\ job'.state \in AllStates /\ job'.state # "none"
  BY <1>1, <1>2, StatesApart DEF JobMoves, JobEnds, ModelIsNamed, AllStates
<1>4. job.state = "completed" /\ job.model => job'.state = "completed" /\ job'.model
  BY <1>2, StatesApart DEF JobMoves, JobEnds, ModelIsNamed
<1>5. QED
  BY <1>1, <1>3, <1>4, ProviderMoves

\* A step of polls or deployments leaves the launch and the job alone.
LEMMA PollFrame ==
    ASSUME OptInv, UNCHANGED <<stored, request, launch, files, job>>, PollInv'
    PROVE  OptInv'
<1>1. /\ Matching' = Matching /\ AllStates' = AllStates /\ UploadSteps' = UploadSteps
      /\ WantedSplits' = WantedSplits /\ \A s \in Splits : Examples(s)' = Examples(s)
  BY SameRequest DEF WantedSplits, Examples
<1>2. LaunchType' /\ SplitInv'
  BY <1>1 DEF OptInv, LaunchType, SplitInv
<1>3. UploadsDone' = UploadsDone
  BY <1>1 DEF UploadsDone
<1>4. JobInv'
  BY <1>1, <1>3 DEF OptInv, JobInv
<1>5. DOMAIN files' = Splits /\ \A s \in Splits : FileInv(s)'
  BY <1>1 DEF OptInv, FileInv
<1>6. QED
  BY <1>2, <1>4, <1>5 DEF OptInv

\* A deployment comes up.
LEMMA DeploymentStep ==
    ASSUME OptInv, DeploymentProceeds
    PROVE  OptInv'
<1>1. PICK i \in DOMAIN deployed :
        deployed[i] = "deploying" /\ deployed' = [deployed EXCEPT ![i] = "deployed"]
  BY DEF DeploymentProceeds
<1>2. UNCHANGED <<stored, request, launch, files, job, polls, answers, faults>>
  BY DEF DeploymentProceeds
<1>3. PollInv
  BY DEF OptInv
<1>4. deployed \in Seq({"deploying", "deployed"}) /\ i \in 1 .. Len(deployed)
  BY <1>3, LenProperties DEF PollInv
<1>5. deployed' \in Seq({"deploying", "deployed"})
  BY <1>1, <1>4, ExceptSeq
<1>6. DOMAIN deployed' = DOMAIN deployed /\ deployed'[i] = "deployed"
  BY <1>1
<1>7. PollInv'
  BY <1>2, <1>3, <1>5, <1>6 DEF PollInv, CompletedIsServed
<1>8. QED
  BY <1>2, <1>7, PollFrame

\* What a poll says and does next follows from what it has read.
LEMMA PollMoves ==
    ASSUME OptInv, NEW p \in 1 .. MaxPolls, NEW to \in {"idle", "job", "model", "deploy"},
           polls' = [polls EXCEPT ![p] = to],
           to # "idle" => job.state # "none",
           to \in {"model", "deploy"} => job.state = "completed" /\ job.model,
           deployed' \in Seq({"deploying", "deployed"}),
           (\E i \in DOMAIN deployed : deployed[i] = "deployed") =>
               \E i \in DOMAIN deployed' : deployed'[i] = "deployed",
           "Completed" \in answers' \ answers =>
               /\ job.state = "completed" /\ job.model
               /\ request.optimizer = "fireworks" =>
                     \E i \in DOMAIN deployed' : deployed'[i] = "deployed",
           UNCHANGED <<stored, request, launch, files, job>>
    PROVE  OptInv'
<1>1. PollInv
  BY DEF OptInv
<1>2. /\ DOMAIN polls' = 1 .. MaxPolls /\ polls'[p] = to
      /\ \A q \in 1 .. MaxPolls : q # p => polls'[q] = polls[q]
  BY <1>1 DEF PollInv
<1>3. CompletedIsServed'
  BY <1>1 DEF PollInv, CompletedIsServed
<1>4. PollInv'
  BY <1>1, <1>2, <1>3 DEF PollInv
<1>5. QED
  BY <1>4, PollFrame

\* Every step of a poll keeps the invariant.
LEMMA PollStep ==
    ASSUME OptInv, NEW p \in 1 .. MaxPolls, Poll(p)
    PROVE  OptInv'
<1>1. PollInv /\ JobInv /\ LaunchType
  BY DEF OptInv
<1>2. ASSUME StartPoll(p) PROVE OptInv'
  <2>1. job.state # "none"
    BY <1>1, <1>2 DEF StartPoll, JobInv
  <2>2. QED
    BY <1>1, <1>2, <2>1, PollMoves DEF StartPoll, PollInv
<1>3. ASSUME PollJob(p) PROVE OptInv'
  <2>1. polls[p] = "job" /\ UNCHANGED <<stored, request, launch, files, job, deployed, faults>>
    BY <1>3 DEF PollJob
  <2>2. job.state # "none"
    BY <1>1, <2>1 DEF PollInv
  <2>3. CASE request.optimizer = "fireworks" /\ job.state = "completed" /\ job.model
    <3>1. polls' = [polls EXCEPT ![p] = "model"] /\ answers' = answers
      BY <1>3, <2>3 DEF PollJob
    <3>2. QED
      BY <1>1, <2>1, <2>3, <3>1, PollMoves DEF PollInv
  <2>4. CASE ~(request.optimizer = "fireworks" /\ job.state = "completed" /\ job.model)
    <3>1. /\ polls' = [polls EXCEPT ![p] = "idle"]
          /\ answers' = answers \cup {OptimizerStatus(job.state, job.model)}
      BY <1>3, <2>4 DEF PollJob, Done, Answered
    <3>2. OptimizerStatus(job.state, job.model) = "Completed" => job.state = "completed" /\ job.model
      BY <1>1, <2>2, CompletedStatus DEF JobInv, LaunchType
    <3>3. "Completed" \in answers' \ answers =>
               /\ job.state = "completed" /\ job.model /\ request.optimizer # "fireworks"
      BY <2>4, <3>1, <3>2
    <3>4. QED
      BY <1>1, <2>1, <3>1, <3>3, PollMoves DEF PollInv
  <2>5. QED
    BY <2>3, <2>4
<1>4. ASSUME GetModel(p) PROVE OptInv'
  <2>1. polls[p] = "model" /\ UNCHANGED <<stored, request, launch, files, job, deployed, faults>>
    BY <1>4 DEF GetModel
  <2>2. job.state = "completed" /\ job.model
    BY <1>1, <2>1 DEF PollInv
  <2>3. CASE deployed = << >>
    <3>1. polls' = [polls EXCEPT ![p] = "deploy"] /\ answers' = answers
      BY <1>4, <2>3 DEF GetModel
    <3>2. QED
      BY <1>1, <2>1, <2>2, <3>1, PollMoves DEF PollInv
  <2>4. CASE deployed # << >>
    <3>1. /\ polls' = [polls EXCEPT ![p] = "idle"]
          /\ answers' = answers \cup {DeploymentStatus(deployed[1])}
      BY <1>4, <2>4 DEF GetModel, Done, Answered
    <3>2. 1 \in DOMAIN deployed
      BY <1>1, <2>4, EmptySeq, LenProperties DEF PollInv
    <3>3. "Completed" \in answers' \ answers => \E i \in DOMAIN deployed' : deployed'[i] = "deployed"
      BY <2>1, <3>1, <3>2 DEF DeploymentStatus
    <3>4. QED
      BY <1>1, <2>1, <2>2, <3>1, <3>3, PollMoves DEF PollInv
  <2>5. QED
    BY <2>3, <2>4
<1>5. ASSUME Deploy(p) PROVE OptInv'
  <2>1. PICK state \in {"deploying", "deployed"} :
          deployed' = Append(deployed, state) /\ answers' = answers \cup {DeploymentStatus(state)}
    BY <1>5 DEF Deploy, Answered
  <2>2. /\ polls[p] = "deploy" /\ polls' = [polls EXCEPT ![p] = "idle"]
        /\ UNCHANGED <<stored, request, launch, files, job, faults>>
    BY <1>5 DEF Deploy, Done
  <2>3. job.state = "completed" /\ job.model
    BY <1>1, <2>2 DEF PollInv
  <2>4. deployed \in Seq({"deploying", "deployed"}) /\ Len(deployed) \in Nat
          /\ DOMAIN deployed = 1 .. Len(deployed)
    BY <1>1, LenProperties DEF PollInv
  <2>5. /\ deployed' \in Seq({"deploying", "deployed"}) /\ Len(deployed') = Len(deployed) + 1
        /\ \A i \in 1 .. Len(deployed) : deployed'[i] = deployed[i]
        /\ deployed'[Len(deployed) + 1] = state
    BY <2>1, <2>4, AppendProperties
  <2>6. DOMAIN deployed' = 1 .. (Len(deployed) + 1)
    BY <2>5, LenProperties
  <2>7. (\E i \in DOMAIN deployed : deployed[i] = "deployed") =>
               \E i \in DOMAIN deployed' : deployed'[i] = "deployed"
    BY <2>4, <2>5, <2>6
  <2>8. "Completed" \in answers' \ answers => \E i \in DOMAIN deployed' : deployed'[i] = "deployed"
    <3>1. "Completed" \in answers' \ answers => state = "deployed"
      BY <2>1 DEF DeploymentStatus
    <3>2. Len(deployed) + 1 \in DOMAIN deployed'
      BY <2>4, <2>6
    <3>3. QED
      BY <2>5, <3>1, <3>2
  <2>9. QED
    BY <2>2, <2>3, <2>5, <2>7, <2>8, PollMoves
<1>6. ASSUME PollFails(p) PROVE OptInv'
  <2>1. /\ polls' = [polls EXCEPT ![p] = "idle"] /\ answers' = answers \cup {"Error"}
        /\ UNCHANGED <<stored, request, launch, files, job, deployed>>
    BY <1>6 DEF PollFails, Done, Answered
  <2>2. "Completed" \notin answers' \ answers
    BY <2>1
  <2>3. QED
    BY <1>1, <2>1, <2>2, PollMoves DEF PollInv
<1>7. QED
  BY <1>2, <1>3, <1>4, <1>5, <1>6 DEF Poll

\* Every step of an optimization keeps its invariant.
LEMMA OptimizationStep ==
    ASSUME OptInv, OptimizationNext
    PROVE  OptInv'
<1>1. ASSUME ConvertRows \/ UploadFails PROVE OptInv'
  <2>1. PICK to \in {"uploading", "error"} : launch' = [launch EXCEPT !.phase = to]
    BY <1>1 DEF ConvertRows, UploadFails
  <2>2. QED
    BY <1>1, <2>1, LaunchMoves DEF ConvertRows, UploadFails
<1>2. ASSUME Launching PROVE OptInv'
  BY <1>1, <1>2, ListInferencesStep, LaunchOptimizationStep, UploadStep, CreateJobStep DEF Launching
<1>3. QED
  BY <1>2, JobSteps, DeploymentStep, PollStep DEF OptimizationNext, Provider

\* The invariant of an optimization, in every workflow.
THEOREM OptimizationInvariance == Spec => []OptimizationInv
<1>1. Init => OptimizationInv
  <2>1. ASSUME Init, workflow = "optimization" PROVE OptInv
    <3>1. stored \in Corpora /\ request \in Requests /\ Idling
      BY <2>1 DEF Init, OptimizationInit
    <3>2. /\ DOMAIN launch = {"phase", "train", "val"} /\ launch.phase = "listing"
          /\ DOMAIN job = {"state", "files", "model"} /\ job.state = "none" /\ job.model = FALSE
          /\ deployed = << >> /\ answers = {} /\ DOMAIN polls = 1 .. MaxPolls
          /\ \A p \in 1 .. MaxPolls : polls[p] = "idle"
          /\ DOMAIN files = Splits
          /\ \A s \in Splits : DOMAIN files[s] = {"state", "rows"} /\ files[s].state = "none"
                                 /\ files[s].rows = {}
      BY <3>1 DEF Idling
    <3>3. LaunchType /\ SplitInv
      BY <3>1, <3>2 DEF LaunchType, SplitInv
    <3>4. JobInv
      BY <3>2 DEF JobInv, AllStates
    <3>5. PollInv
      BY <3>2, EmptySeq DEF PollInv, CompletedIsServed
    <3>6. 1 \in DOMAIN UploadSteps /\ UploadSteps[1] = "none"
      BY DEF UploadSteps, FireworksUpload, SingleUpload
    <3>7. \A s \in Splits : FileInv(s)
      BY <3>2, <3>6 DEF FileInv
    <3>8. QED
      BY <3>2, <3>3, <3>4, <3>5, <3>7 DEF OptInv
  <2>2. ASSUME Init, workflow # "optimization" PROVE Idling
    BY <2>2 DEF Init, NoRequest
  <2>3. QED
    BY <2>1, <2>2 DEF OptimizationInv
<1>2. OptimizationInv /\ [Next]_vars => OptimizationInv'
  <2> SUFFICES ASSUME OptimizationInv, [Next]_vars PROVE OptimizationInv'
    OBVIOUS
  <2>1. UNCHANGED workflow
    BY DEF Next, EditDataset, Evaluate, WriteFeedback, Optimize, vars
  <2>2. CASE Optimize
    BY <2>1, <2>2, OptimizationStep DEF Optimize, OptimizationInv
  <2>3. CASE UNCHANGED optimizationVars
    <3>1. UNCHANGED <<stored, request, launch, files, job, deployed, polls, answers, faults>>
      BY <2>3 DEF optimizationVars
    <3>2. Idling => Idling'
      BY <3>1 DEF Idling
    <3>3. ASSUME OptInv PROVE OptInv'
      <4>1. PollInv'
        BY <3>1, <3>3 DEF OptInv, PollInv, CompletedIsServed
      <4>2. QED
        BY <3>1, <3>3, <4>1, PollFrame
    <3>4. QED
      BY <2>1, <3>2, <3>3 DEF OptimizationInv
  <2>4. QED
    BY <2>2, <2>3 DEF Next, EditDataset, Evaluate, WriteFeedback, vars
<1>3. QED
  BY <1>1, <1>2, PTL DEF Spec

\* No poll says that a job completed before its model can be used.
THEOREM CompletedModelsAreServed == Spec => []CompletedIsServed
<1>1. OptimizationInv => CompletedIsServed
  BY DEF OptimizationInv, OptInv, PollInv, Idling, CompletedIsServed
<1>2. QED
  BY <1>1, OptimizationInvariance, PTL

\* A job trains on whole sets of examples; the workflow's are disjoint and met the request's filter.
THEOREM JobsHaveTheirExamples == Spec => []JobHasItsExamples
<1>1. OptimizationInv => JobHasItsExamples
  <2> SUFFICES ASSUME OptimizationInv, job.state # "none" PROVE JobHasItsExamples
    BY DEF JobHasItsExamples
  <2>1. workflow = "optimization"
    BY DEF OptimizationInv, Idling
  <2>2. /\ LaunchType /\ SplitInv /\ JobInv /\ DOMAIN files = Splits
        /\ \A s \in Splits : FileInv(s)
    BY <2>1 DEF OptimizationInv, OptInv
  <2>3. /\ job.files = WantedSplits /\ WantedSplits \subseteq Splits
        /\ \A s \in WantedSplits : files[s].state = "ready"
    BY <2>2 DEF JobInv, UploadsDone, WantedSplits, Splits
  <2>4. /\ \A s \in WantedSplits : files[s].rows = Examples(s)
        /\ \A s \in Splits : s \notin WantedSplits => files[s].rows = {}
    BY <2>2, <2>3 DEF FileInv
  <2>5. /\ files["train"].rows = launch.train
        /\ files["val"].rows = IF launch.val = Missing THEN {} ELSE launch.val
        /\ "val" \in job.files <=> launch.val # Missing
    BY <2>3, <2>4 DEF WantedSplits, Examples, Splits
  <2>6. ASSUME request.via = "workflow"
        PROVE  /\ files["train"].rows \cap files["val"].rows = {}
               /\ ("val" \in job.files) <=> (request.val_fraction # Missing)
               /\ \A i \in files["train"].rows \cup files["val"].rows :
                     (\A m \in Metrics(request.filter) : stored[i].metrics[m] # << >>) =>
                         Meets(request.filter, stored[i])
    <3>1. /\ files["train"].rows \cap files["val"].rows = {}
          /\ ("val" \in job.files) <=> (request.val_fraction # Missing)
      BY <2>2, <2>5, <2>6 DEF SplitInv
    <3>2. files["train"].rows \cup files["val"].rows \subseteq Matching
      BY <2>2, <2>5, <2>6 DEF SplitInv
    <3>3. \A i \in Matching : Filter(request.filter, stored[i])
      BY DEF Matching
    <3>4. \A i \in DOMAIN request.filter : request.filter[i].kind \in {"metric", "and", "or", "not"}
      BY <2>2, OptimizationAssumption DEF LaunchType
    <3>5. QED
      BY <3>1, <3>2, <3>3, <3>4, FilterIsMet
  <2>7. QED
    BY <2>3, <2>4, <2>6 DEF JobHasItsExamples
<1>2. QED
  BY <1>1, OptimizationInvariance, PTL

=============================================================================
