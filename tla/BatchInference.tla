--------------------------- MODULE BatchInference ---------------------------
(***************************************************************************)
(* The batch inference endpoints (endpoints/batch_inference.rs) for one     *)
(* batch: `start_batch_inference` tries variants until a provider accepts   *)
(* the batch and records it; `poll_batch_inference`, called by any number   *)
(* of concurrent pollers, reads the latest BatchRequest row, asks the       *)
(* provider while the batch is pending, and appends what it learns.         *)
(*                                                                          *)
(* BatchRequest is append-only (MergeTree).  The latest row is found by     *)
(* `ORDER BY timestamp DESC LIMIT 1`, where timestamp is the second in      *)
(* which the row's UUIDv7 was made: rows of one second are in no order.     *)
(* Every handler can stop at any await (a failed query or write is `?`, a   *)
(* closed connection drops the handler, the gateway can crash): Aborts.     *)
(* A poll for one inference id reads the same rows and keeps one result; it  *)
(* is not told apart from a poll for the batch.                             *)
(***************************************************************************)
EXTENDS BatchProviders, FiniteSets, Sequences

CONSTANTS
    BadSchema,       \* inferences whose stored output_schema does not parse
    Pollers,         \* concurrent poll requests
    Variants,        \* the variants of the function
    ChatCompletion,  \* variants of type chat_completion
    PositiveWeight,  \* variants with weight Some(w), w > 0
    NoVariant,       \* no variant is pinned
    Routing,         \* the providers of the variants' model, in order
    BatchConfigured, \* has the GCP provider a model id and a batch configuration
    StartRequests,   \* the vectors of the start request
    OutputFiles,     \* what the provider may write for the inferences of the batch
    Hashes,          \* is the hash sample_variant draws with u32::MAX ("max") or not ("below")
    MaxClock,        \* bound: seconds
    MaxAborts,       \* bound: handlers that stop half way
    MaxCopies        \* bound: row counts saturate here

ASSUME BatchAssumption ==
    /\ BadSchema \subseteq Inferences
    /\ PositiveWeight \subseteq Variants
    /\ ChatCompletion \subseteq Variants
    /\ NoVariant \notin Variants
    /\ Routing \in Seq(STRING)
    /\ \E i \in 1 .. Len(Routing) : SupportsBatch(Routing[i])
    /\ BatchConfigured \in BOOLEAN
    /\ OutputFiles \subseteq [Inferences -> Lines]
    /\ Hashes \subseteq {"below", "max"}
    /\ MaxClock \in Nat
    /\ MaxAborts \in Nat
    /\ MaxCopies \in Nat \ {0}

Statuses == {"pending", "completed", "failed"}

VARIABLES
    clock,      \* the second it is
    aborts,     \* handlers stopped half way so far
    request,    \* the start request: its vectors, the variant it pins, and the hash of its
                \* function name and first episode id; Absent once it is answered
    start,      \* where the start handler is
    cand,       \* its candidate_variant_names
    route,      \* its position in the model's routing
    provider,   \* the state of the job at the provider that accepted the batch, or "none"
    output,     \* the output file of a finished job
    rows,       \* BatchModelInference rows
    log,        \* BatchRequest rows
    inferences, \* number of Chat/JsonInference rows of each inference
    models,     \* number of ModelInference rows of each inference
    poll,       \* where each poll handler is
    got,        \* what the provider answered it
    row,        \* the BatchRequest row it is about to insert
    resp        \* its last response

startVars == <<request, start, cand, route>>
pollVars  == <<poll, got, row, resp>>
tables    == <<rows, log, inferences, models>>
vars      == <<clock, aborts, startVars, provider, output, tables, pollVars>>

NoRow == [ts |-> 0, status |-> "none"]
NoResponse == [status |-> "none", usage |-> [i \in Inferences |-> 0]]

Init ==
    /\ clock = 0
    /\ aborts = 0
    /\ \E r \in StartRequests, v \in Variants \cup {NoVariant}, h \in Hashes :
          request = [vectors |-> r, pinned |-> v, hash |-> h]
    /\ start = "idle"
    /\ cand = {}
    /\ route = 0
    /\ provider = "none"
    /\ output = Absent
    /\ rows = {}
    /\ log = {}
    /\ inferences = [i \in Inferences |-> 0]
    /\ models = [i \in Inferences |-> 0]
    /\ poll = [p \in Pollers |-> "idle"]
    /\ got = [p \in Pollers |-> "none"]
    /\ row = [p \in Pollers |-> NoRow]
    /\ resp = [p \in Pollers |-> NoResponse]

-----------------------------------------------------------------------------
(***************************************************************************)
(* start_batch_inference_handler                                            *)
(***************************************************************************)

startUnchanged == UNCHANGED <<clock, aborts, request>>

\* The request has inputs and a value for each of them in every vector.
RequestIsSized ==
    LET n == Cardinality(Inferences) IN
    /\ n # 0
    /\ BatchDynamicToolParams(request.vectors, n)
    /\ BatchOutputSchemas(request.vectors, n)
    /\ BatchEpisodeIds(request.vectors, n)
    /\ BatchChatCompletionParams(request.vectors, n)

\* A pinned variant is the only candidate; zero-weight variants are not dropped.
StartAccept ==
    /\ start = "idle"
    /\ RequestIsSized
    /\ start' = "sampling"
    /\ cand' = IF request.pinned = NoVariant THEN Variants ELSE {request.pinned}
    /\ startUnchanged /\ UNCHANGED <<route, provider, output, tables, pollVars>>

StartRefused ==
    /\ start = "idle"
    /\ ~RequestIsSized
    /\ start' = "error"
    /\ startUnchanged /\ UNCHANGED <<cand, route, provider, output, tables, pollVars>>

\* The outcomes of sample_variant: by weight while any candidate has one, uniformly
\* otherwise; with the hash u32::MAX no draw reaches a candidate, and only the weighted
\* one over all variants has a fallback.
Sampleable ==
    IF cand \cap PositiveWeight = {} THEN IF request.hash = "max" THEN {} ELSE cand
    ELSE IF request.hash = "max" THEN IF cand = Variants THEN cand ELSE {}
    ELSE cand \cap PositiveWeight

\* The other types of variants have no batches.
VariantStarts(v) == IF v \in ChatCompletion THEN "preparing" ELSE "unsupported"

StartSample ==
    /\ start = "sampling"
    /\ \E v \in Sampleable :
         /\ cand' = cand \ {v}
         /\ start' = VariantStarts(v)
    /\ startUnchanged /\ UNCHANGED <<route, provider, output, tables, pollVars>>

\* sample_variant errs (`?`) or panics.
StartSampleFails ==
    /\ start = "sampling"
    /\ cand # {}
    /\ Sampleable = {}
    /\ start' = "error"
    /\ startUnchanged /\ UNCHANGED <<cand, route, provider, output, tables, pollVars>>

StartAllVariantsFailed ==
    /\ start = "sampling"
    /\ cand = {}
    /\ start' = "error"
    /\ startUnchanged /\ UNCHANGED <<cand, route, provider, output, tables, pollVars>>

\* ChatCompletionConfig::start_batch_inference: every request is prepared before the model
\* is asked.
VariantPrepares ==
    /\ start = "preparing"
    /\ start' = "starting"
    /\ route' = 1
    /\ startUnchanged /\ UNCHANGED <<cand, provider, output, tables, pollVars>>

\* The variant has no batches, one of its requests cannot be prepared, or every provider
\* of its model failed.
StartVariantFails ==
    /\ \/ start \in {"preparing", "unsupported"}
       \/ start = "starting" /\ route > Len(Routing)
    /\ start' = "sampling"
    /\ route' = 0
    /\ startUnchanged /\ UNCHANGED <<cand, provider, output, tables, pollVars>>

\* start_batch_inference of a provider: it makes a line of each request and uploads them
\* as a file ...
Uploads(b) ==
    /\ start = "starting"
    /\ route <= Len(Routing)
    /\ Routing[route] = b
    /\ start' = "creating"
    /\ startUnchanged /\ UNCHANGED <<cand, route, provider, output, tables, pollVars>>

OpenAIUploads == Uploads("openai")
GCPVertexUploads == BatchConfigured /\ Uploads("gcp_vertex_gemini")

\* ... and creates the job: from here on it runs, whatever the gateway records.
Creates(b) ==
    /\ start = "creating"
    /\ Routing[route] = b
    /\ provider' = FirstState(b)
    /\ start' = "writing_inferences"
    /\ startUnchanged /\ UNCHANGED <<cand, route, output, tables, pollVars>>

OpenAICreates == Creates("openai")
GCPVertexCreates == Creates("gcp_vertex_gemini")

\* The provider does not do batches, has no key or batch configuration, or one of its
\* requests fails: the next provider of the routing is tried.
ProviderRefuses ==
    /\ start \in {"starting", "creating"}
    /\ route <= Len(Routing)
    /\ start' = "starting"
    /\ route' = route + 1
    /\ startUnchanged /\ UNCHANGED <<cand, provider, output, tables, pollVars>>

\* write_start_batch_inference, first write.
WriteBatchModelInferences ==
    /\ start = "writing_inferences"
    /\ rows' = Inferences
    /\ start' = "writing_request"
    /\ startUnchanged
    /\ UNCHANGED <<cand, route, provider, output, log, inferences, models, pollVars>>

\* Mutant: the batch id is returned before the batch is recorded.
WriteBatchRequest_Lost ==
    /\ start = "writing_request"
    /\ start' = "answered"
    /\ startUnchanged /\ UNCHANGED <<cand, route, provider, output, tables, pollVars>>

\* write_start_batch_inference, second write; then the client gets the batch id.
WriteBatchRequest ==
    /\ start = "writing_request"
    /\ log' = log \cup {[ts |-> clock, status |-> "pending"]}
    /\ start' = "answered"
    /\ request' = Absent
    /\ cand' = {}
    /\ UNCHANGED <<clock, aborts, route, provider, output, rows, inferences, models, pollVars>>

StartAborts ==
    /\ start \in {"sampling", "preparing", "unsupported", "starting", "creating",
                 "writing_inferences", "writing_request"}
    /\ aborts < MaxAborts
    /\ aborts' = aborts + 1
    /\ start' = "error"
    /\ UNCHANGED <<clock, request, cand, route, provider, output, tables, pollVars>>

-----------------------------------------------------------------------------
(***************************************************************************)
(* The provider and the clock                                               *)
(***************************************************************************)

\* The provider whose job it is.
backend == Routing[route]

Status == IF provider = "none" THEN "none" ELSE BatchStatus(backend, provider)

\* The job finished although it was being cancelled.
Late == provider \in LateStates

\* The job moves on; when it completes, its output file is there, unless no request
\* succeeded.
ProviderMoves ==
    /\ provider # "none"
    /\ \E s \in Moves(backend, provider) :
         /\ provider' = s
         /\ IF BatchStatus(backend, s) = "completed" THEN output' \in OutputFiles \cup {Absent}
                                                    ELSE UNCHANGED output
    /\ UNCHANGED <<clock, aborts, startVars, tables, pollVars>>

Tick ==
    /\ clock < MaxClock
    /\ clock' = clock + 1
    /\ UNCHANGED <<aborts, startVars, provider, output, tables, pollVars>>

-----------------------------------------------------------------------------
(***************************************************************************)
(* poll_batch_inference_handler                                             *)
(***************************************************************************)

\* The rows `ORDER BY timestamp DESC LIMIT 1` may return.
Latest(L) == {r \in L : \A s \in L : s.ts <= r.ts}

\* get_batch_request, then the match on the status.
GetBatchRequest(p) ==
    /\ poll[p] = "idle"
    /\ start = "answered"
    /\ \E r \in Latest(log) :
         /\ poll' = [poll EXCEPT ![p] = CASE r.status = "pending"   -> "polling"
                                          [] r.status = "completed" -> "reading"
                                          [] r.status = "failed"    -> "idle"]
         /\ resp' = [resp EXCEPT ![p] = IF r.status = "failed"
                                          THEN [NoResponse EXCEPT !.status = "failed"]
                                          ELSE NoResponse]
    /\ UNCHANGED <<clock, aborts, startVars, provider, output, tables, got, row>>

Answer == IF backend = "openai" THEN OpenAIPoll(provider, output)
                                ELSE GCPVertexPoll(provider, output)

\* Mutant: a job whose state is not a final one is taken to have failed.
PollProvider_Impatient(p) ==
    /\ poll[p] = "polling"
    /\ Answer # "error"
    /\ got' = [got EXCEPT ![p] = IF Answer = "completed" THEN "completed" ELSE "failed"]
    /\ poll' = [poll EXCEPT ![p] = IF Answer = "completed" THEN "completing" ELSE "stamping"]
    /\ UNCHANGED <<clock, aborts, startVars, provider, output, tables, row, resp>>

\* poll_batch_inference: the provider answers with the job's state now, and the gateway
\* goes on when the answer arrives; of a completed job it fetches the output file, which
\* does not change any more.
PollProvider(p) ==
    /\ poll[p] = "polling"
    /\ Answer # "error"
    /\ got' = [got EXCEPT ![p] = Answer]
    /\ poll' = [poll EXCEPT ![p] = IF Answer = "completed" THEN "completing" ELSE "stamping"]
    /\ UNCHANGED <<clock, aborts, startVars, provider, output, tables, row, resp>>

\* A completed job without an output file: every poll fails.
OutputMissing(p) ==
    /\ poll[p] = "polling"
    /\ Answer = "error"
    /\ poll' = [poll EXCEPT ![p] = "idle"]
    /\ UNCHANGED <<clock, aborts, startVars, provider, output, tables, got, row, resp>>

\* The results in the output file.
elements == IF output = Absent THEN {}
            ELSE IF backend = "openai" THEN OpenAIFinishedBatch(output)
            ELSE GCPVertexFinishedBatch(output)

\* The inferences write_completed_batch_inference makes results of.
Completing == (elements \cap rows) \ BadSchema

\* get_batch_inferences finds none of the provider's ids: MissingBatchInferenceResponse.
MissingResponse(p) ==
    /\ poll[p] = "completing"
    /\ elements \cap rows = {}
    /\ poll' = [poll EXCEPT ![p] = "idle"]
    /\ got' = [got EXCEPT ![p] = "none"]
    /\ UNCHANGED <<clock, aborts, startVars, provider, output, tables, row, resp>>

Saturate(n) == IF n < MaxCopies THEN n + 1 ELSE n

\* Mutant: the ModelInference rows are left out.
WriteInferences_NoModelRows(p) ==
    /\ poll[p] = "completing"
    /\ elements \cap rows # {}
    /\ inferences' = [i \in Inferences |-> IF i \in Completing THEN Saturate(inferences[i])
                                                               ELSE inferences[i]]
    /\ poll' = [poll EXCEPT ![p] = "stamping"]
    /\ UNCHANGED <<clock, aborts, startVars, provider, output, rows, log, models,
                   got, row, resp>>

\* write_completed_batch_inference: one write with every Chat/JsonInference row ...
WriteInferences(p) ==
    /\ poll[p] = "completing"
    /\ elements \cap rows # {}
    /\ inferences' = [i \in Inferences |-> IF i \in Completing THEN Saturate(inferences[i])
                                                               ELSE inferences[i]]
    /\ poll' = [poll EXCEPT ![p] = "writing_models"]
    /\ UNCHANGED <<clock, aborts, startVars, provider, output, rows, log, models,
                   got, row, resp>>

\* ... and one with every ModelInference row.
WriteModels(p) ==
    /\ poll[p] = "writing_models"
    /\ models' = [i \in Inferences |-> IF i \in Completing THEN Saturate(models[i])
                                                           ELSE models[i]]
    /\ poll' = [poll EXCEPT ![p] = "stamping"]
    /\ UNCHANGED <<clock, aborts, startVars, provider, output, rows, log, inferences,
                   got, row, resp>>

\* write_batch_request_status_update: BatchRequestRow::new makes the id, and with it
\* the timestamp ...
StampStatus(p) ==
    /\ poll[p] = "stamping"
    /\ row' = [row EXCEPT ![p] = [ts |-> clock, status |-> got[p]]]
    /\ poll' = [poll EXCEPT ![p] = "inserting"]
    /\ UNCHANGED <<clock, aborts, startVars, provider, output, tables, got, resp>>

\* Mutant: the response leaves out the results it has just stored.
InsertStatus_NoResults(p) ==
    /\ poll[p] = "inserting"
    /\ log' = log \cup {row[p]}
    /\ poll' = [poll EXCEPT ![p] = "idle"]
    /\ got' = [got EXCEPT ![p] = "none"]
    /\ row' = [row EXCEPT ![p] = NoRow]
    /\ resp' = [resp EXCEPT ![p] = [NoResponse EXCEPT !.status = row[p].status]]
    /\ UNCHANGED <<clock, aborts, startVars, provider, output, rows, inferences, models>>

\* ... the write inserts it, and the handler responds.
InsertStatus(p) ==
    /\ poll[p] = "inserting"
    /\ log' = log \cup {row[p]}
    /\ poll' = [poll EXCEPT ![p] = "idle"]
    /\ got' = [got EXCEPT ![p] = "none"]
    /\ row' = [row EXCEPT ![p] = NoRow]
    /\ resp' = [resp EXCEPT ![p] =
                  [status |-> row[p].status,
                   usage  |-> [i \in Inferences |->
                                 IF row[p].status = "completed" /\ i \in Completing THEN 1 ELSE 0]]]
    /\ UNCHANGED <<clock, aborts, startVars, provider, output, rows, inferences, models>>

\* get_completed_batch_inference_response: the inferences of the batch joined with
\* their model inferences; usage is summed over the join.
ReadCompleted(p) ==
    /\ poll[p] = "reading"
    /\ resp' = [resp EXCEPT ![p] =
                  [status |-> "completed",
                   usage  |-> [i \in Inferences |-> inferences[i] * models[i]]]]
    /\ poll' = [poll EXCEPT ![p] = "idle"]
    /\ UNCHANGED <<clock, aborts, startVars, provider, output, tables, got, row>>

PollAborts(p) ==
    /\ poll[p] # "idle"
    /\ aborts < MaxAborts
    /\ aborts' = aborts + 1
    /\ poll' = [poll EXCEPT ![p] = "idle"]
    /\ got' = [got EXCEPT ![p] = "none"]
    /\ row' = [row EXCEPT ![p] = NoRow]
    /\ UNCHANGED <<clock, startVars, provider, output, tables, resp>>

-----------------------------------------------------------------------------
StartHandler ==
    \/ StartAccept \/ StartSample \/ StartSampleFails \/ StartAllVariantsFailed \/ StartVariantFails
    \/ StartRefused \/ VariantPrepares \/ OpenAIUploads \/ GCPVertexUploads \/ OpenAICreates \/ GCPVertexCreates
    \/ ProviderRefuses \/ WriteBatchModelInferences \/ WriteBatchRequest

PollHandler(p) ==
    \/ GetBatchRequest(p) \/ PollProvider(p) \/ OutputMissing(p) \/ MissingResponse(p)
    \/ WriteInferences(p)
    \/ WriteModels(p) \/ StampStatus(p) \/ InsertStatus(p) \/ ReadCompleted(p)

\* The start request failed: there is no batch to poll.
NoBatch == start = "error" /\ UNCHANGED vars

Next ==
    \/ StartHandler \/ StartAborts \/ ProviderMoves \/ Tick \/ NoBatch
    \/ \E p \in Pollers : PollHandler(p) \/ PollAborts(p)

(***************************************************************************)
(* The provider ends the batch, time passes, and clients keep polling.      *)
(***************************************************************************)
Fairness ==
    /\ WF_vars(StartHandler) /\ WF_vars(ProviderMoves) /\ WF_vars(Tick)
    /\ \A p \in Pollers : WF_vars(PollHandler(p))

Spec == Init /\ [][Next]_vars
FairSpec == Spec /\ Fairness

-----------------------------------------------------------------------------
(***************************************************************************)
(* Properties                                                               *)
(***************************************************************************)

\* Every variable has its type.
TypeOK ==
    /\ clock \in 0 .. MaxClock
    /\ aborts \in 0 .. MaxAborts
    /\ route \in 0 .. Len(Routing) + 1
    /\ request \in {Absent} \cup
          [vectors : StartRequests, pinned : Variants \cup {NoVariant}, hash : Hashes]
    /\ start \in {"idle", "sampling", "preparing", "unsupported", "starting", "creating",
                  "writing_inferences", "writing_request",
                  "answered", "error"}
    /\ cand \in SUBSET Variants
    /\ provider # "none" =>
          /\ route \in 1 .. Len(Routing) /\ SupportsBatch(backend)
          /\ Status \in Statuses
    /\ output \in OutputFiles \cup {Absent}
    /\ rows \in SUBSET Inferences
    /\ log \in SUBSET [ts : 0 .. MaxClock, status : Statuses]
    /\ inferences \in [Inferences -> 0 .. MaxCopies]
    /\ models \in [Inferences -> 0 .. MaxCopies]
    /\ poll \in [Pollers -> {"idle", "polling", "completing", "writing_models", "stamping",
                             "inserting", "reading"}]
    /\ got \in [Pollers -> Statuses \cup {"none"}]
    /\ row \in [Pollers -> [ts : 0 .. MaxClock, status : Statuses \cup {"none"}]]
    /\ resp \in [Pollers -> [status : Statuses \cup {"none"}, usage : [Inferences -> Nat]]]

HasStatus(s) == \E r \in log : r.status = s

\* The inferences the provider has a whole result of, whose output schema is usable.
Answered == {i \in Inferences \ BadSchema : output # Absent /\ output[i] = "whole"}

\* A BatchRequest row that says completed comes after the rows of every inference the
\* provider has a whole result of, whatever the other lines of its file look like,
\* however polls interleave and wherever they stop.
CompletedIsStored ==
    HasStatus("completed") =>
        \A i \in Answered : inferences[i] >= 1 /\ models[i] >= 1

\* A poll that is told the batch is completed gets every result the provider
\* returned for it, with at least the tokens it was billed.
CompletedResponseIsWhole ==
    \A p \in Pollers : resp[p].status = "completed" =>
        \A i \in Inferences : (resp[p].usage[i] >= 1) <=> (i \in Answered)

\* A batch whose id the client holds can be polled, and a BatchRequest row is never
\* without the BatchModelInference rows its results are matched with.
StartedBatchIsRecorded ==
    /\ start = "answered" => log # {}
    /\ log # {} => rows = Inferences

\* Once the provider has completed a recorded batch with a whole result in it, a client
\* that keeps polling gets it recorded as completed; unless the job was being cancelled
\* before, which counts as failed when a poll meets it.
CompletionIsRecorded ==
    (start = "answered" /\ Status = "completed" /\ Answered # {}) ~>
        HasStatus("completed") \/ (Late /\ HasStatus("failed"))

(***************************************************************************)
(* The lifecycle a client may rely on: the batch has the furthest status    *)
(* ever recorded.                                                           *)
(***************************************************************************)
RecordedStatus ==
    IF HasStatus("completed")    THEN "completed"
    ELSE IF HasStatus("failed")  THEN "failed"
    ELSE IF HasStatus("pending") THEN "pending"
    ELSE "absent"

Lifecycle == INSTANCE BatchLifecycle WITH
                 status <- RecordedStatus,
                 late <- Late,
                 stored <- {i \in Inferences : inferences[i] > 0}

\* The batch endpoints implement the lifecycle: in the history of recorded statuses,
\* completed and failed are final and exclude each other, and results are stored only
\* for a recorded batch that has not failed; but a failure that a poll recorded of a job
\* that was being cancelled yields to the results of an overlapping poll, if the job
\* finished after all.
ImplementsLifecycle == Lifecycle!Spec
=============================================================================
