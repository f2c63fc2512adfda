------------------------------ MODULE Inference ------------------------------
(***************************************************************************)
(* The `/inference` endpoint of the gateway (endpoints/inference.rs):       *)
(* candidate selection, the variant fallback loop, the response (plain or   *)
(* streamed), and the trailing `write_inference` that stores the result in  *)
(* ClickHouse and the object store.                                         *)
(*                                                                          *)
(* Every request runs in its own task; the trailing write runs in a task of *)
(* its own ("spawned") or inside the response stream ("inline").  The       *)
(* client may go away at any time, which drops the handler's future and the *)
(* response stream; the gateway may crash, which drops everything held in   *)
(* memory.  What a variant does to produce a result (retries, routing,      *)
(* cache) is the module ModelInference; here it succeeds or fails.          *)
(***************************************************************************)
EXTENDS Naturals, FiniteSets

CONSTANTS
    Requests,        \* the inference requests (one inference_id each)
    Variants,        \* the variants of the function
    PositiveWeight,  \* variants with weight Some(w), w > 0
    ZeroWeight,      \* variants with weight Some(0)
    NoVariant,       \* no variant is pinned / being tried
    Unknown,         \* a pinned name that is not a variant of the function
    Files,           \* storage paths of input files (content addressed)
    NoFile,          \* the input has no file
    Inputs,          \* the requests' parameters, a subset of Params
    AsyncWrites,     \* config.gateway.observability.async_writes
    MaxResults,      \* bound: model inferences behind one result
    MaxChunks,       \* bound: good chunks of one stream
    MaxFailures,     \* bound: failed writes to ClickHouse or the object store
    MaxCrashes       \* bound: gateway crashes

(***************************************************************************)
(* Unweighted variants (weight None) are candidates, but of weight 0.0.     *)
(***************************************************************************)
Unweighted == Variants \ (PositiveWeight \cup ZeroWeight)

(***************************************************************************)
(* What a request brings.  `hash` says whether the 32-bit hash of function  *)
(* name and episode id that sample_variant draws with is u32::MAX.          *)
(***************************************************************************)
Params == [pinned : Variants \cup {NoVariant, Unknown},
           dryrun : BOOLEAN,
           stream : BOOLEAN,
           file   : Files \cup {NoFile},
           hash   : {"below", "max"}]

ASSUME InferenceAssumption ==
    /\ PositiveWeight \subseteq Variants
    /\ ZeroWeight \subseteq Variants
    /\ PositiveWeight \cap ZeroWeight = {}
    /\ NoVariant \notin Variants
    /\ Unknown \notin Variants
    /\ NoFile \notin Files
    /\ Inputs \subseteq Params
    /\ AsyncWrites \in BOOLEAN
    /\ MaxResults \in Nat \ {0}
    /\ MaxChunks \in Nat \ {0}
    /\ MaxFailures \in Nat
    /\ MaxCrashes \in Nat

(***************************************************************************)
(* The rows of one inference are numbered in the order write_inference      *)
(* writes them: 1..n for ModelInference, n + 1 for Chat/JsonInference.      *)
(***************************************************************************)
Rows == 1 .. (MaxResults + 1)

Outcomes == {"none", "ok", "Rejected", "UnknownVariant",
             "InvalidFunctionVariants", "AllVariantsFailed", "panic", "gone"}

VARIABLES
    pc,        \* where the handler of each request is
    params,    \* the request's parameters
    cand,      \* candidate_variant_names
    cur,       \* the variant being tried or used
    errs,      \* keys of variant_errors
    outcome,   \* what the client got ("gone": it never learns)
    nres,      \* number of model_inference_results of the result
    chunks,    \* number of chunks in create_stream's buffer
    content,   \* has the buffer a chunk with content (any chunk, for a JSON function)
    task,      \* the write_inference future
    wpos,      \* the row the write_inference future writes next
    fput,      \* its concurrent write_file future
    db,        \* rows of the inference that are in ClickHouse
    lost,      \* rows whose write failed (the error is ignored)
    store,     \* the object store
    flost,     \* requests whose write_file failed
    failures,  \* failed writes so far
    crashes    \* gateway crashes so far

handler == <<pc, params, cand, cur, errs, outcome, nres, chunks, content>>
writer  == <<task, wpos, fput, db, lost, store, flost, failures>>
vars    == <<handler, writer, crashes>>

Init ==
    /\ pc = [r \in Requests |-> "idle"]
    /\ params \in [Requests -> Inputs]
    /\ cand = [r \in Requests |-> {}]
    /\ cur = [r \in Requests |-> NoVariant]
    /\ errs = [r \in Requests |-> {}]
    /\ outcome = [r \in Requests |-> "none"]
    /\ nres = [r \in Requests |-> 0]
    /\ chunks = [r \in Requests |-> 0]
    /\ content = [r \in Requests |-> FALSE]
    /\ task = [r \in Requests |-> "none"]
    /\ wpos = [r \in Requests |-> 1]
    /\ fput = [r \in Requests |-> "none"]
    /\ db = [r \in Requests |-> {}]
    /\ lost = [r \in Requests |-> {}]
    /\ store = {}
    /\ flost = {}
    /\ failures = 0
    /\ crashes = 0

Answer(r, o) ==
    /\ pc' = [pc EXCEPT ![r] = "done"]
    /\ outcome' = [outcome EXCEPT ![r] = o]

-----------------------------------------------------------------------------
(***************************************************************************)
(* Candidate selection                                                      *)
(***************************************************************************)

\* Mutant: the zero-weight filter is dropped.
CandidateVariants_KeepZeroWeight(p) ==
    IF p.pinned # NoVariant THEN Variants \cap {p.pinned} ELSE Variants

\* The candidates left by the pinning and zero-weight filters.
CandidateVariants(p) ==
    IF p.pinned # NoVariant THEN Variants \cap {p.pinned}
                            ELSE Variants \ ZeroWeight

\* Any other `?` ahead of the loop: invalid tags, an unknown dynamic evaluation run
\* or function, no variants, invalid parameters or tools, an input that cannot be
\* resolved.
Reject(r) ==
    /\ pc[r] = "idle"
    /\ Answer(r, "Rejected")
    /\ UNCHANGED <<params, cand, cur, errs, nres, chunks, content, writer, crashes>>

UnknownVariant(r) ==
    /\ pc[r] = "idle"
    /\ params[r].pinned # NoVariant
    /\ CandidateVariants(params[r]) = {}
    /\ Answer(r, "UnknownVariant")
    /\ UNCHANGED <<params, cand, cur, errs, nres, chunks, content, writer, crashes>>

Accept(r) ==
    /\ pc[r] = "idle"
    /\ params[r].pinned # NoVariant => CandidateVariants(params[r]) # {}
    /\ pc' = [pc EXCEPT ![r] = "sampling"]
    /\ cand' = [cand EXCEPT ![r] = CandidateVariants(params[r])]
    /\ UNCHANGED <<params, cur, errs, outcome, nres, chunks, content, writer, crashes>>

-----------------------------------------------------------------------------
(***************************************************************************)
(* The fallback loop                                                        *)
(***************************************************************************)

\* The outcomes of sample_variant (module SampleVariant models the draw itself).
\* It draws by weight while the remaining candidates have any, and uniformly
\* otherwise.  With the hash u32::MAX no weighted candidate is reached and the code
\* takes the one at index variants.len() - 1, whatever its weight.
Sampleable(c, hash) ==
    IF c \cap PositiveWeight = {} THEN IF hash = "max" THEN {} ELSE c
    ELSE IF hash = "max" THEN IF c = Variants THEN c ELSE {}
    ELSE c \cap PositiveWeight

\* Mutant: the sampled variant stays among the candidates.
SampleVariant_NoRemove(r) ==
    /\ pc[r] = "sampling"
    /\ \E v \in Sampleable(cand[r], params[r].hash) : cur' = [cur EXCEPT ![r] = v]
    /\ pc' = [pc EXCEPT ![r] = "inferring"]
    /\ UNCHANGED <<params, cand, errs, outcome, nres, chunks, content, writer, crashes>>

SampleVariant(r) ==
    /\ pc[r] = "sampling"
    /\ \E v \in Sampleable(cand[r], params[r].hash) :
          /\ cur' = [cur EXCEPT ![r] = v]
          /\ cand' = [cand EXCEPT ![r] = @ \ {v}]
    /\ pc' = [pc EXCEPT ![r] = "inferring"]
    /\ UNCHANGED <<params, errs, outcome, nres, chunks, content, writer, crashes>>

\* With the hash u32::MAX the uniform draw's index is out of range, which is an
\* error (`?`), and so is the weighted draw's once the candidates are fewer than the
\* variants, which panics in swap_remove.
SampleFails(r) ==
    /\ pc[r] = "sampling"
    /\ cand[r] # {}
    /\ Sampleable(cand[r], params[r].hash) = {}
    /\ Answer(r, IF cand[r] \cap PositiveWeight = {} THEN "InvalidFunctionVariants" ELSE "panic")
    /\ UNCHANGED <<params, cand, cur, errs, nres, chunks, content, writer, crashes>>

AllVariantsFailed(r) ==
    /\ pc[r] = "sampling"
    /\ cand[r] = {}
    /\ Answer(r, "AllVariantsFailed")
    /\ UNCHANGED <<params, cand, cur, errs, nres, chunks, content, writer, crashes>>

\* Mutant: a timeout ends the loop without recording the variant's error.
VariantFails_Forgotten(r) ==
    /\ pc[r] = "inferring"
    /\ cur' = [cur EXCEPT ![r] = NoVariant]
    /\ pc' = [pc EXCEPT ![r] = "sampling"]
    /\ UNCHANGED <<params, cand, errs, outcome, nres, chunks, content, writer, crashes>>

\* The variant fails or its timeout elapses: recorded, and the loop continues.
VariantFails(r) ==
    /\ pc[r] = "inferring"
    /\ errs' = [errs EXCEPT ![r] = @ \cup {cur[r]}]
    /\ cur' = [cur EXCEPT ![r] = NoVariant]
    /\ pc' = [pc EXCEPT ![r] = "sampling"]
    /\ UNCHANGED <<params, cand, outcome, nres, chunks, content, writer, crashes>>

-----------------------------------------------------------------------------
(***************************************************************************)
(* The trailing write                                                       *)
(***************************************************************************)

\* Start write_inference in a task of its own or inside the stream.
StartWrite(r, how) ==
    /\ task' = [task EXCEPT ![r] = how]
    /\ fput' = [fput EXCEPT ![r] = IF params[r].file = NoFile THEN "done" ELSE "pending"]

\* Non-streaming success: spawn the write unless dryrun; answer at once unless
\* the write has to be awaited.
InferSucceeds(r) ==
    /\ pc[r] = "inferring"
    /\ ~params[r].stream
    /\ \E n \in 1 .. MaxResults : nres' = [nres EXCEPT ![r] = n]
    /\ IF params[r].dryrun THEN UNCHANGED <<task, fput>> ELSE StartWrite(r, "spawned")
    /\ IF params[r].dryrun \/ AsyncWrites
         THEN Answer(r, "ok")
         ELSE pc' = [pc EXCEPT ![r] = "awaiting"] /\ UNCHANGED outcome
    /\ UNCHANGED <<params, cand, cur, errs, chunks, content,
                   wpos, db, lost, store, flost, failures, crashes>>

\* Mutant: the spawned write is not awaited.
WriteAwaited_TooEarly(r) ==
    /\ pc[r] = "awaiting"
    /\ Answer(r, "ok")
    /\ UNCHANGED <<params, cand, cur, errs, nres, chunks, content, writer, crashes>>

\* Without async_writes the response waits for the spawned write.
WriteAwaited(r) ==
    /\ pc[r] = "awaiting"
    /\ task[r] = "finished"
    /\ Answer(r, "ok")
    /\ UNCHANGED <<params, cand, cur, errs, nres, chunks, content, writer, crashes>>

\* Mutant: the Inference row is written first.
WriteRow_InferenceFirst(r) ==
    /\ task[r] \in {"spawned", "inline"}
    /\ wpos[r] <= nres[r] + 1
    /\ wpos' = [wpos EXCEPT ![r] = @ + 1]
    /\ db' = [db EXCEPT ![r] = @ \cup {nres[r] + 2 - wpos[r]}]
    /\ UNCHANGED <<lost, failures, handler, task, fput, store, flost, crashes>>

\* Mutant: a failed write returns from write_inference (`?` instead of `let _`), so
\* that the rows after it are not written.
WriteRow_StopsOnError(r) ==
    /\ task[r] \in {"spawned", "inline"}
    /\ wpos[r] <= nres[r] + 1
    /\ \/ /\ db' = [db EXCEPT ![r] = @ \cup {wpos[r]}]
          /\ wpos' = [wpos EXCEPT ![r] = @ + 1]
          /\ UNCHANGED <<lost, failures>>
       \/ /\ failures < MaxFailures
          /\ failures' = failures + 1
          /\ lost' = [lost EXCEPT ![r] = @ \cup {wpos[r]}]
          /\ wpos' = [wpos EXCEPT ![r] = nres[r] + 2]
          /\ UNCHANGED db
    /\ UNCHANGED <<handler, task, fput, store, flost, crashes>>

\* One `clickhouse_connection_info.write`: it stores the row, or fails and is
\* ignored.
WriteRow(r) ==
    /\ task[r] \in {"spawned", "inline"}
    /\ wpos[r] <= nres[r] + 1
    /\ wpos' = [wpos EXCEPT ![r] = @ + 1]
    /\ \/ /\ db' = [db EXCEPT ![r] = @ \cup {wpos[r]}]
          /\ UNCHANGED <<lost, failures>>
       \/ /\ failures < MaxFailures
          /\ failures' = failures + 1
          /\ lost' = [lost EXCEPT ![r] = @ \cup {wpos[r]}]
          /\ UNCHANGED db
    /\ UNCHANGED <<handler, task, fput, store, flost, crashes>>

\* write_file: PutMode::Create, and AlreadyExists counts as success.  An input with
\* files stores none when the object store is disabled or observability is off: such
\* a request is one with `file` = NoFile.
WriteFile(r) ==
    /\ task[r] \in {"spawned", "inline"}
    /\ fput[r] = "pending"
    /\ fput' = [fput EXCEPT ![r] = "done"]
    /\ \/ /\ store' = store \cup {params[r].file}
          /\ UNCHANGED <<flost, failures>>
       \/ /\ failures < MaxFailures
          /\ failures' = failures + 1
          /\ flost' = flost \cup {r}
          /\ UNCHANGED store
    /\ UNCHANGED <<handler, task, wpos, db, lost, crashes>>

\* Mutant: the file's future is not joined.
WriteDone_NoJoin(r) ==
    /\ task[r] \in {"spawned", "inline"}
    /\ wpos[r] = nres[r] + 2
    /\ task' = [task EXCEPT ![r] = "finished"]
    /\ UNCHANGED <<handler, wpos, fput, db, lost, store, flost, failures, crashes>>

\* join_all: the future ends when the rows and the file have been tried.
WriteDone(r) ==
    /\ task[r] \in {"spawned", "inline"}
    /\ wpos[r] = nres[r] + 2
    /\ fput[r] = "done"
    /\ task' = [task EXCEPT ![r] = "finished"]
    /\ UNCHANGED <<handler, wpos, fput, db, lost, store, flost, failures, crashes>>

-----------------------------------------------------------------------------
(***************************************************************************)
(* Streaming                                                                *)
(***************************************************************************)

\* infer_stream returned a stream: its first chunk is known to be good, unless it
\* comes from the cache, which may hold an empty stream (module ModelInference).
StreamStarts(r) ==
    /\ pc[r] = "inferring"
    /\ params[r].stream
    /\ \E n \in 1 .. MaxResults : nres' = [nres EXCEPT ![r] = n]
    /\ \E first \in {0, 1}, c \in BOOLEAN :
          /\ c => first = 1
          /\ chunks' = [chunks EXCEPT ![r] = first]
          /\ content' = [content EXCEPT ![r] = c]
    /\ pc' = [pc EXCEPT ![r] = "streaming"]
    /\ UNCHANGED <<params, cand, cur, errs, outcome, writer, crashes>>

\* A good chunk is buffered and passed on; a bad one is only passed on (and
\* changes nothing here).
StreamChunk(r) ==
    /\ pc[r] = "streaming"
    /\ chunks[r] < MaxChunks
    /\ chunks' = [chunks EXCEPT ![r] = @ + 1]
    /\ \E c \in BOOLEAN : content' = [content EXCEPT ![r] = @ \/ c]
    /\ UNCHANGED <<params, cand, cur, errs, outcome, nres, pc, writer, crashes>>

\* The end of the stream: unless dryrun, collect_chunks turns the buffer into a
\* result (it needs content, and may fail even then) and the result is written.
StreamEnds(r) ==
    /\ pc[r] = "streaming"
    /\ \E collected \in BOOLEAN :
         /\ collected => content[r]
         /\ IF params[r].dryrun \/ ~collected
              THEN Answer(r, "ok") /\ UNCHANGED <<task, fput>>
              ELSE IF AsyncWrites
                THEN Answer(r, "ok") /\ StartWrite(r, "spawned")
                ELSE /\ pc' = [pc EXCEPT ![r] = "flushing"]
                     /\ StartWrite(r, "inline")
                     /\ UNCHANGED outcome
    /\ UNCHANGED <<params, cand, cur, errs, nres, chunks, content,
                   wpos, db, lost, store, flost, failures, crashes>>

\* The inline write has ended: "[DONE]".
StreamFlushed(r) ==
    /\ pc[r] = "flushing"
    /\ task[r] = "finished"
    /\ Answer(r, "ok")
    /\ UNCHANGED <<params, cand, cur, errs, nres, chunks, content, writer, crashes>>

-----------------------------------------------------------------------------
(***************************************************************************)
(* Failures                                                                 *)
(***************************************************************************)

InFlight == {"sampling", "inferring", "awaiting", "streaming", "flushing"}

\* The client goes away: the handler's future or the response stream is
\* dropped, and with it an inline write, wherever it is.
Disconnect(r) ==
    /\ pc[r] \in InFlight
    /\ Answer(r, "gone")
    /\ task' = [task EXCEPT ![r] = IF @ = "inline" THEN "dropped" ELSE @]
    /\ UNCHANGED <<params, cand, cur, errs, nres, chunks, content,
                   wpos, fput, db, lost, store, flost, failures, crashes>>

\* The gateway process dies: handlers and unfinished writes are gone.
Crash ==
    /\ crashes < MaxCrashes
    /\ crashes' = crashes + 1
    /\ pc' = [r \in Requests |-> IF pc[r] \in InFlight THEN "done" ELSE pc[r]]
    /\ outcome' = [r \in Requests |-> IF pc[r] \in InFlight THEN "gone" ELSE outcome[r]]
    /\ task' = [r \in Requests |-> IF task[r] \in {"spawned", "inline"} THEN "dropped" ELSE task[r]]
    /\ UNCHANGED <<params, cand, cur, errs, nres, chunks, content,
                   wpos, fput, db, lost, store, flost, failures>>

-----------------------------------------------------------------------------
Loop(r) == Accept(r) \/ UnknownVariant(r) \/ SampleVariant(r) \/ SampleFails(r)
             \/ AllVariantsFailed(r) \/ WriteAwaited(r) \/ StreamFlushed(r)
Variant(r) == VariantFails(r) \/ InferSucceeds(r) \/ StreamStarts(r) \/ StreamEnds(r)
Write(r) == WriteRow(r) \/ WriteFile(r) \/ WriteDone(r)

\* Nothing is left to do: every request is answered and every write has ended.
Quiescent ==
    /\ \A r \in Requests : pc[r] = "done" /\ task[r] \notin {"spawned", "inline"}
    /\ UNCHANGED vars

Next ==
    \/ \E r \in Requests :
         \/ Loop(r) \/ Variant(r) \/ Write(r)
         \/ Reject(r) \/ StreamChunk(r) \/ Disconnect(r)
    \/ Crash
    \/ Quiescent

(***************************************************************************)
(* Tasks are scheduled by tokio, every await of the loop is on a future     *)
(* that ends (providers answer, close the stream or time out), and a write  *)
(* to ClickHouse returns.                                                   *)
(***************************************************************************)
Fairness == \A r \in Requests : WF_vars(Loop(r)) /\ WF_vars(Variant(r)) /\ WF_vars(Write(r))

Spec == Init /\ [][Next]_vars
FairSpec == Spec /\ Fairness

-----------------------------------------------------------------------------
(***************************************************************************)
(* Properties                                                               *)
(***************************************************************************)

\* Every variable has its type; in particular the trailing write never runs past
\* the Chat/JsonInference row.
TypeOK ==
    /\ pc \in [Requests -> {"idle", "done"} \cup InFlight]
    /\ params \in [Requests -> Params]
    /\ cand \in [Requests -> SUBSET Variants]
    /\ cur \in [Requests -> Variants \cup {NoVariant}]
    /\ errs \in [Requests -> SUBSET Variants]
    /\ outcome \in [Requests -> Outcomes]
    /\ nres \in [Requests -> 0 .. MaxResults]
    /\ chunks \in [Requests -> 0 .. MaxChunks]
    /\ content \in [Requests -> BOOLEAN]
    /\ task \in [Requests -> {"none", "spawned", "inline", "finished", "dropped"}]
    /\ wpos \in [Requests -> 1 .. (MaxResults + 2)]
    /\ fput \in [Requests -> {"none", "pending", "done"}]
    /\ db \in [Requests -> SUBSET Rows]
    /\ lost \in [Requests -> SUBSET Rows]
    /\ store \in SUBSET Files
    /\ flost \in SUBSET Requests
    /\ failures \in 0 .. MaxFailures
    /\ crashes \in 0 .. MaxCrashes

\* A reader that finds the Chat/JsonInference row of an inference finds each of its
\* ModelInference rows too, unless the write of that very row failed: the rows are
\* written in order, whatever disconnects or crashes in between.
InferenceRowIsLast ==
    \A r \in Requests :
        nres[r] + 1 \in db[r] => 1 .. nres[r] \subseteq db[r] \cup lost[r]

\* The fallback order the weights promise: a zero-weight variant is never tried
\* unless pinned, and an unweighted one only after every positive-weight variant of
\* the function has failed in this request (for every hash but u32::MAX).
FallbackOrder ==
    \A r \in Requests : params[r].pinned = NoVariant /\ params[r].hash = "below" =>
        /\ cur[r] \notin ZeroWeight
        /\ cur[r] \in Unweighted => PositiveWeight \subseteq errs[r]

\* AllVariantsFailed is reported only when every candidate was tried and failed;
\* the variant that serves a request is never one that failed in it.
AllFailedMeansAllTried ==
    \A r \in Requests :
        /\ outcome[r] = "AllVariantsFailed" => errs[r] = CandidateVariants(params[r])
        /\ cur[r] \notin errs[r]

\* Without async_writes, a client that got its response (or the "[DONE]" of its
\* stream) finds every row that could be written already written.
AnswerAfterSyncWrite ==
    \A r \in Requests :
        ~AsyncWrites /\ outcome[r] = "ok" =>
            /\ task[r] \in {"none", "finished"}
            /\ ~params[r].dryrun /\ ~params[r].stream =>
                 1 .. (nres[r] + 1) \subseteq db[r] \cup lost[r]

\* A plain inference that was served has a write, and a write that has finished has
\* tried every row, those after a failed one too: a failed insert costs its own row
\* alone.  A write is cut short by a crash, or by the client of a stream whose write
\* is inline, and by nothing else.
StoredInFull ==
    \A r \in Requests :
        /\ outcome[r] = "ok" /\ ~params[r].stream /\ ~params[r].dryrun => task[r] # "none"
        /\ task[r] = "finished" => 1 .. (nres[r] + 1) \subseteq db[r] \cup lost[r]
        /\ task[r] = "dropped" /\ crashes = 0 => params[r].stream /\ ~AsyncWrites

\* A disconnecting client does not cut the write of a plain inference, nor that of
\* a stream under async_writes: only a crash does.
DisconnectKeepsSpawnedWrite ==
    \A r \in Requests :
        task[r] = "dropped" /\ crashes = 0 => params[r].stream /\ ~AsyncWrites

\* A dryrun stores nothing: no row, no file of its own, no task that could.
DryrunStoresNothing ==
    \A r \in Requests : params[r].dryrun => task[r] = "none" /\ db[r] = {}

\* When a write has finished, the file its row points to is in the object store,
\* put there by this request or by another one with the same content, unless this
\* request's put failed.
FinishedWriteHasFile ==
    \A r \in Requests :
        task[r] = "finished" /\ params[r].file # NoFile => params[r].file \in store \/ r \in flost

\* Every request that arrives is answered or abandoned, through any number of
\* failing variants.
EveryRequestEnds == \A r \in Requests : pc[r] = "sampling" ~> pc[r] = "done"
=============================================================================
