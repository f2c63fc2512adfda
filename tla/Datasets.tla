------------------------------- MODULE Datasets -------------------------------
(***************************************************************************)
(* The datasets endpoint (endpoints/datasets.rs): handlers that insert,    *)
(* overwrite and soft-delete the datapoints of one dataset.  Datapoints    *)
(* live in two ReplacingMergeTree tables, ChatInferenceDatapoint and       *)
(* JsonInferenceDatapoint, under the key (dataset, function, id);          *)
(* nothing is ever changed in place.  A write adds                         *)
(* a version of the row, stamped with the server's clock, and every reader *)
(* asks ClickHouse for the FINAL version: the one with the latest stamp,   *)
(* and among equal stamps the one inserted last.                           *)
(*                                                                         *)
(* One client edits the dataset, one request at a time, while the          *)
(* evaluations runner reads it.  A request that writes to both tables      *)
(* sends two statements, which finish in either order and fail             *)
(* independently.  The client waits for both before its next request.      *)
(***************************************************************************)
EXTENDS Integers, Sequences, FiniteSets

CONSTANTS
    Ids,            \* the ids of datapoints
    FunctionNames,  \* the functions of the configuration
    Table,          \* the table of a function's datapoints: that of its type
    Sources,        \* the stored inferences: their function, output and demonstrations
    Outputs,        \* the outputs a datapoint may hold
    None,           \* no output
    EditOutputs,    \* the outputs the client writes, or None
    MaxEdits,       \* bound: the requests the client sends
    MaxNow          \* bound: the last reading of the server's clock

ASSUME DatasetsAssumption ==
    /\ Table \in [FunctionNames -> {"chat", "json"}]
    /\ Sources \subseteq [function : FunctionNames, output : Outputs, demonstrations : Seq(Outputs)]
    /\ None \notin Outputs /\ EditOutputs \subseteq Outputs \cup {None}
    /\ MaxEdits \in Nat /\ MaxNow \in Nat

\* The keys of the tables: a function and an id.
Keys == FunctionNames \X Ids

\* The versions of a row.
Versions == [at : 0 .. MaxNow, stale : BOOLEAN, output : Outputs \cup {None}]

\* The clock stamps what is inserted last last.
InsertedInTime(versions) ==
    \A i \in DOMAIN versions : versions[i].at <= versions[Len(versions)].at

VARIABLES
    rows,    \* rows[k]: the versions of the row with key k, in the order they were inserted
    now,     \* the clock of the ClickHouse server, read by now64()
    edit,    \* the request being handled, or Idle
    edits,   \* requests sent so far
    acked    \* acked[k]: what the last answered request said of key k (not in the code)

datasetVars == <<rows, now, edit, edits, acked>>

Gone == [state |-> "gone"]
Holds(out) == [state |-> "live", output |-> out]
Unknown == [state |-> "unknown"]
Idle == [op |-> "idle", todo |-> {}, keys |-> {}, output |-> None, failed |-> FALSE]

(***************************************************************************)
(* What SELECT ... FINAL returns for a key.                                *)
(***************************************************************************)
Final(versions) ==
    LET latest(i) == \A j \in DOMAIN versions :
            \/ versions[j].at < versions[i].at
            \/ versions[j].at = versions[i].at /\ j <= i
    IN  versions[CHOOSE i \in DOMAIN versions : latest(i)]

(***************************************************************************)
(* list_datapoints, get_datapoint and the runner's query_dataset all read  *)
(* a row this way, with WHERE staled_at IS NULL.                           *)
(***************************************************************************)
Visible(k) ==
    IF rows[k] = << >> \/ Final(rows[k]).stale THEN Gone ELSE Holds(Final(rows[k]).output)

\* The datapoints of a function.
ListDatapoints(f) == {d \in Ids : Visible(<<f, d>>).state = "live"}

\* As before migration 0021, when the column's default was now(), in whole seconds.
PutDatapoint_Seconds(versions, out) ==
    Append(versions, [at |-> (now \div 2) * 2, stale |-> FALSE, output |-> out])

(***************************************************************************)
(* put_chat_datapoints and put_json_datapoints leave updated_at to the     *)
(* column's default, now64(), and staled_at to NULL.                       *)
(***************************************************************************)
PutDatapoint(versions, out) ==
    Append(versions, [at |-> now, stale |-> FALSE, output |-> out])

(***************************************************************************)
(* DELETE copies every version of the row, not only the final one, and     *)
(* stamps all of the copies alike.  Which copy is then final is open, but  *)
(* each of them is stale.                                                  *)
(***************************************************************************)
DeleteDatapoint(versions) ==
    versions \o [i \in DOMAIN versions |->
                    [versions[i] EXCEPT !.at = now, !.stale = TRUE]]

(***************************************************************************)
(* stale_dataset copies the final version of every row that is not stale.  *)
(***************************************************************************)
StaleDatapoint(versions) ==
    IF versions = << >> \/ Final(versions).stale THEN versions
    ELSE Append(versions, [Final(versions) EXCEPT !.at = now, !.stale = TRUE])

(***************************************************************************)
(* Requests                                                                *)
(***************************************************************************)
Statements(keys) == {Table[k[1]] : k \in keys}

\* Every insert mints a new id.
Unused(d) == \A f \in FunctionNames : rows[<<f, d>>] = << >>

Begin(op, keys, todo, out) ==
    /\ edit = Idle
    /\ edits < MaxEdits
    /\ edits' = edits + 1
    /\ edit' = [op |-> op, todo |-> todo, keys |-> keys, output |-> out, failed |-> FALSE]
    /\ UNCHANGED <<rows, now, acked>>

(***************************************************************************)
(* insert_from_existing: the output is the inference's own, the latest     *)
(* demonstration of it, or left out.  Without a demonstration to copy the  *)
(* request is refused before anything is written.                          *)
(***************************************************************************)
InsertedOutput(source, kind) ==
    CASE kind = "inherit"       -> source.output
      [] kind = "demonstration" -> source.demonstrations[Len(source.demonstrations)]
      [] kind = "none"          -> None

InsertFromExisting(d, source, kind) ==
    /\ Unused(d)
    /\ kind = "demonstration" => source.demonstrations # << >>
    /\ Begin("put", {<<source.function, d>>}, {Table[source.function]}, InsertedOutput(source, kind))

(***************************************************************************)
(* insert_datapoint, also behind the bulk route: every datapoint, with its *)
(* function, is validated before the first statement is sent, then the     *)
(* chat and the JSON datapoints are inserted concurrently.                 *)
(***************************************************************************)
InsertDatapoints(functions, out) ==
    LET keys == {<<functions[d], d>> : d \in DOMAIN functions}
    IN  /\ keys # {} /\ \A d \in DOMAIN functions : Unused(d)
        /\ Begin("put", keys, Statements(keys), out)

(***************************************************************************)
(* update_datapoint writes a version of any id, of a staled datapoint too  *)
(* or of none, under the function that the body names: rows of the same id *)
(* under other functions stay as they are.                                 *)
(***************************************************************************)
UpdateDatapoint(f, d, out) == Begin("put", {<<f, d>>}, {Table[f]}, out)

(***************************************************************************)
(* delete_datapoint does not know the datapoint's function and sends a     *)
(* statement to each table, for the rows of the id under any function.     *)
(***************************************************************************)
DeleteRequest(d) == Begin("delete", FunctionNames \X {d}, {"chat", "json"}, None)

StaleDataset == Begin("stale", Keys, {"chat", "json"}, None)

(***************************************************************************)
(* A statement runs: it writes a version of the rows of its table.         *)
(***************************************************************************)
Written(k) ==
    CASE edit.op = "put"    -> PutDatapoint(rows[k], edit.output)
      [] edit.op = "delete" -> DeleteDatapoint(rows[k])
      [] edit.op = "stale"  -> StaleDatapoint(rows[k])

RowsAfter(t) ==
    [k \in Keys |-> IF k \in edit.keys /\ Table[k[1]] = t THEN Written(k) ELSE rows[k]]

Statement(t) ==
    /\ t \in edit.todo
    /\ rows' = RowsAfter(t)
    /\ now' \in {now, now + 1} \cap 0..MaxNow
    /\ edit' = [edit EXCEPT !.todo = @ \ {t}]
    /\ UNCHANGED <<edits, acked>>

(***************************************************************************)
(* A statement fails, and with it the request: its rows may have been      *)
(* written all the same, and the other statement may still be running on   *)
(* the server; it ends before the client's next request.                   *)
(***************************************************************************)
StatementFails(t) ==
    /\ t \in edit.todo
    /\ rows' \in {rows, RowsAfter(t)}
    /\ edit' = [edit EXCEPT !.todo = @ \ {t}, !.failed = TRUE]
    /\ UNCHANGED <<now, edits, acked>>

\* What an answered request promises of the row with key k.
Promised(k) ==
    IF edit.failed          THEN Unknown
    ELSE IF edit.op = "put" THEN Holds(edit.output)
    ELSE Gone

Answer ==
    /\ edit # Idle /\ edit.todo = {}
    /\ acked' = [k \in Keys |-> IF k \in edit.keys THEN Promised(k) ELSE acked[k]]
    /\ edit' = Idle
    /\ UNCHANGED <<rows, now, edits>>

DatasetsInit ==
    /\ rows = [k \in Keys |-> << >>]
    /\ now = 0
    /\ edit = Idle
    /\ edits = 0
    /\ acked = [k \in Keys |-> Gone]

DatasetsNext ==
    \/ \E d \in Ids, source \in Sources, kind \in {"inherit", "demonstration", "none"} :
           InsertFromExisting(d, source, kind)
    \/ \E ids \in SUBSET Ids, out \in EditOutputs :
           \E functions \in [ids -> FunctionNames] : InsertDatapoints(functions, out)
    \/ \E f \in FunctionNames, d \in Ids, out \in EditOutputs : UpdateDatapoint(f, d, out)
    \/ \E d \in Ids : DeleteRequest(d)
    \/ StaleDataset
    \/ \E t \in {"chat", "json"} : Statement(t) \/ StatementFails(t)
    \/ Answer

(***************************************************************************)
(* What readers see of a function's datapoint is what the last answered    *)
(* request said: its output after an insert or an update, nothing after a  *)
(* delete, whatever function the datapoint was written under, or a stale.  *)
(* Only a request in flight, or one that failed, leaves it open.  The      *)
(* order of the versions is decided by the server's clock, which several   *)
(* statements may read alike, never by who asked first.                    *)
(***************************************************************************)
LastAnswerIsVisible ==
    \A k \in Keys :
        (k \notin edit.keys /\ acked[k] # Unknown) => Visible(k) = acked[k]
===============================================================================
