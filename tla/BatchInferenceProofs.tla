------------------------ MODULE BatchInferenceProofs ------------------------
(***************************************************************************)
(* Proofs about BatchInference, for any routing, any number of inferences,  *)
(* pollers, aborts and copies of a row, and any output files.               *)
(*                                                                          *)
(* The inductive invariant has one part per piece of state.  Its core: a    *)
(* job completes once, and fails for good unless it finishes late, so what  *)
(* a poller was told of it stays true while the poller writes, stops or is  *)
(* overtaken (Learned); every row a poller still has to write is there      *)
(* before the row after it (Written).                                       *)
(***************************************************************************)
EXTENDS BatchInference, TLAPS

\* The states of a job.
OpenAIStates == {"validating", "in_progress", "finalizing", "completed", "failed", "expired",
                 "cancelling", "cancelled", "completed_late"}
GCPVertexStates == {"queued", "paused", "running", "succeeded", "partially_succeeded", "failed",
                    "cancelling", "cancelled", "succeeded_late"}
JobStates(b) == IF b = "openai" THEN OpenAIStates ELSE GCPVertexStates

Requests == [vectors : StartRequests, pinned : Variants \cup {NoVariant}, hash : Hashes]

\* Where the start handler is, and what it holds there.
Starting ==
    /\ clock \in 0 .. MaxClock
    /\ aborts \in 0 .. MaxAborts
    /\ route \in 0 .. Len(Routing) + 1
    /\ request \in {Absent} \cup Requests
    /\ start # "answered" => request \in Requests
    /\ start \in {"idle", "sampling", "preparing", "unsupported", "starting", "creating",
                  "writing_inferences", "writing_request", "answered", "error"}
    /\ cand \in SUBSET Variants
    /\ start = "starting" => route >= 1
    /\ start = "creating" => route \in 1 .. Len(Routing) /\ SupportsBatch(backend)

\* The job at the provider that accepted the batch, which exists from its creation on.
Job ==
    /\ start \in {"writing_inferences", "writing_request", "answered"} => provider # "none"
    /\ provider # "none" =>
          /\ start \in {"writing_inferences", "writing_request", "answered", "error"}
          /\ route \in 1 .. Len(Routing)
          /\ SupportsBatch(backend)
          /\ provider \in JobStates(backend)
    /\ output \in OutputFiles \cup {Absent}
    /\ output # Absent => Status = "completed"

\* The tables the start handler writes.
Recorded ==
    /\ rows \in SUBSET Inferences
    /\ log \in SUBSET [ts : 0 .. MaxClock, status : Statuses]
    /\ start \in {"writing_request", "answered"} => rows = Inferences
    /\ log # {} => start = "answered"
    /\ start = "answered" => HasStatus("pending")

\* The poll handlers; they run for an answered batch only.
Polls ==
    /\ poll \in [Pollers -> {"idle", "polling", "completing", "writing_models", "stamping",
                             "inserting", "reading"}]
    /\ got \in [Pollers -> Statuses \cup {"none"}]
    /\ row \in [Pollers -> [ts : 0 .. MaxClock, status : Statuses \cup {"none"}]]
    /\ resp \in [Pollers -> [status : Statuses \cup {"none"}, usage : [Inferences -> Nat]]]
    /\ \A p \in Pollers :
         /\ poll[p] # "idle" => start = "answered"
         /\ poll[p] \in {"completing", "writing_models"} => got[p] = "completed"
         /\ poll[p] \in {"stamping", "inserting"} => got[p] \in Statuses
         /\ poll[p] = "inserting" => row[p].status = got[p]

\* The job has completed and its output file is there.
Finished == Status = "completed" /\ output # Absent

\* What a status, held by a poller or recorded, says of the job.
Confirmed(s) ==
    /\ s = "completed" => Finished
    /\ s = "failed" => Status = "failed" \/ Late

Learned ==
    /\ \A p \in Pollers : Confirmed(got[p]) /\ Confirmed(resp[p].status)
    /\ \A r \in log : Confirmed(r.status)

InferencesStored == \A i \in Answered : inferences[i] >= 1
ModelsStored == \A i \in Answered : models[i] >= 1

\* The rows of the results, in the order in which a poller writes them.
Written ==
    /\ inferences \in [Inferences -> 0 .. MaxCopies]
    /\ models \in [Inferences -> 0 .. MaxCopies]
    /\ \A i \in Inferences : inferences[i] # 0 \/ models[i] # 0 => i \in Answered
    /\ \A p \in Pollers :
         /\ poll[p] = "writing_models" => InferencesStored
         /\ poll[p] \in {"stamping", "inserting"} /\ got[p] = "completed" =>
                InferencesStored /\ ModelsStored
         /\ poll[p] = "reading" => HasStatus("completed")
    /\ CompletedIsStored

IInv == Starting /\ Job /\ Recorded /\ Polls /\ Learned /\ Written /\ CompletedResponseIsWhole

-----------------------------------------------------------------------------
(***************************************************************************)
(* Lemmas                                                                   *)
(***************************************************************************)

\* The routing has a length.
LEMMA RoutingLength == Len(Routing) \in Nat
BY BatchAssumption

\* A job that is not there has the status "none", any other one of the three.
LEMMA StatusType ==
    ASSUME Job
    PROVE  /\ provider = "none" => Status = "none"
           /\ provider # "none" => Status \in Statuses
BY DEF Job, Status, BatchStatus, OpenAIBatchStatus, GCPVertexJobStatus, JobStates, OpenAIStates,
       GCPVertexStates, Statuses, SupportsBatch

\* The first state of a job is a pending one.
LEMMA FirstStateIsPending ==
    ASSUME NEW b, SupportsBatch(b)
    PROVE  /\ FirstState(b) \in JobStates(b)
           /\ FirstState(b) # "none" /\ FirstState(b) \notin LateStates
           /\ BatchStatus(b, FirstState(b)) = "pending"
BY DEF SupportsBatch, FirstState, JobStates, OpenAIStates, GCPVertexStates, BatchStatus,
       OpenAIBatchStatus, GCPVertexJobStatus, LateStates

\* A completed job does not move; a failed one stays failed, or finishes late.
LEMMA MovesAreFinal ==
    ASSUME NEW b, SupportsBatch(b), NEW s \in JobStates(b), NEW t \in Moves(b, s)
    PROVE  /\ t \in JobStates(b)
           /\ t # "none"
           /\ BatchStatus(b, s) # "completed"
           /\ s \notin LateStates
           /\ BatchStatus(b, s) = "failed" => BatchStatus(b, t) = "failed" \/ t \in LateStates
           /\ t \in LateStates => BatchStatus(b, t) = "completed"
<1>1. CASE b = "openai"
  BY <1>1 DEF Moves, JobStates, OpenAIStates, BatchStatus, OpenAIBatchStatus, LateStates
<1>2. CASE b = "gcp_vertex_gemini"
  BY <1>2 DEF Moves, JobStates, GCPVertexStates, BatchStatus, GCPVertexJobStatus, LateStates
<1>3. QED
  BY <1>1, <1>2 DEF SupportsBatch

\* The results both providers make of a file are those of its whole lines.
LEMMA ElementsAreWhole ==
    elements = {i \in Inferences : output # Absent /\ output[i] = "whole"}
<1> DEFINE whole == {i \in Inferences : output[i] = "whole"}
<1>1. OpenAIFinishedBatch(output) = whole /\ GCPVertexFinishedBatch(output) = whole
  <2>1. \A i : output[i] \notin {"absent", "garbled"} /\ output[i] \in {"whole"}
                <=> output[i] = "whole"
    OBVIOUS
  <2>2. QED
    BY <2>1 DEF OpenAIFinishedBatch, GCPVertexFinishedBatch, ParseJsonlBatchFile,
                OpenAIBatchFileRow, GCPVertexBatchResponseLine
<1>2. CASE output = Absent
  BY <1>2 DEF elements
<1>3. CASE output # Absent
  <2>1. elements = whole
    BY <1>1, <1>3 DEF elements
  <2>2. QED
    BY <1>3, <2>1
<1>4. QED
  BY <1>2, <1>3

\* For a recorded batch, the results that are written are those the provider has.
LEMMA CompletingIsAnswered ==
    ASSUME rows = Inferences
    PROVE  Completing = Answered
BY ElementsAreWhole DEF Completing, Answered

\* While the job and its file stay, so do the results, and what statuses say of them.
LEMMA JobStays ==
    ASSUME Status' = Status, Late' = Late, output' = output
    PROVE  /\ Answered' = Answered
           /\ Finished' = Finished
           /\ \A s : Confirmed(s)' = Confirmed(s)
BY DEF Answered, Finished, Confirmed

\* Before the job is created nothing is recorded, polled or stored.
LEMMA NothingYet ==
    ASSUME IInv, provider = "none"
    PROVE  /\ start \notin {"writing_inferences", "writing_request", "answered"}
           /\ log = {}
           /\ \A q \in Pollers : poll[q] = "idle"
           /\ Status = "none" /\ ~Late
           /\ output = Absent
BY StatusType DEF IInv, Job, Recorded, Polls, Late, LateStates

\* A step that leaves the job, the rows of the results and the polls alone, and records
\* nothing, keeps what is known and written.
LEMMA Undisturbed ==
    ASSUME IInv, Status' = Status, Late' = Late, output' = output,
           UNCHANGED <<log, inferences, models, poll, got, resp>>
    PROVE  Learned' /\ Written' /\ CompletedResponseIsWhole'
<1>1. /\ Answered' = Answered
      /\ Finished' = Finished
      /\ \A s : Confirmed(s)' = Confirmed(s)
  BY JobStays
<1>2. Learned'
  BY <1>1 DEF IInv, Learned, Confirmed
<1>3. CompletedResponseIsWhole'
  BY <1>1 DEF IInv, CompletedResponseIsWhole
<1>4. InferencesStored' = InferencesStored /\ ModelsStored' = ModelsStored
  BY <1>1 DEF InferencesStored, ModelsStored
<1>5. Written'
  BY <1>1, <1>4 DEF IInv, Written, CompletedIsStored, HasStatus
<1>6. QED
  BY <1>2, <1>3, <1>5

\* The steps of the start handler before a job exists: they move start, cand and route.
LEMMA EarlyStep ==
    ASSUME IInv, provider = "none", Starting',
           start' \notin {"writing_inferences", "writing_request", "answered"},
           UNCHANGED <<provider, output, tables, pollVars>>
    PROVE  IInv'
<1>1. /\ start \notin {"writing_inferences", "writing_request", "answered"}
      /\ log = {}
      /\ \A q \in Pollers : poll[q] = "idle"
      /\ Status = "none"
      /\ output = Absent
  BY NothingYet
<1>2. Status' = "none" /\ Late' = Late
  BY DEF Status, Late
<1>3. Job'
  BY <1>1, <1>2 DEF IInv, Job
<1>4. Recorded'
  BY <1>1 DEF IInv, Recorded, tables, HasStatus
<1>5. Polls'
  BY <1>1 DEF IInv, Polls, pollVars
<1>6. Learned' /\ Written' /\ CompletedResponseIsWhole'
  BY <1>1, <1>2, Undisturbed DEF tables, pollVars
<1>7. QED
  BY <1>3, <1>4, <1>5, <1>6 DEF IInv

\* A variant that is sampled or fails, a provider that is asked or refuses.
LEMMA EarlySteps ==
    ASSUME IInv,
           \/ StartAccept \/ StartRefused \/ StartSample \/ StartSampleFails
           \/ StartAllVariantsFailed \/ VariantPrepares \/ StartVariantFails
           \/ OpenAIUploads \/ GCPVertexUploads \/ ProviderRefuses
    PROVE  IInv'
<1> USE BatchAssumption, RoutingLength
<1>0. Starting /\ Job
  BY DEF IInv
<1>1. start \in {"idle", "sampling", "preparing", "unsupported", "starting", "creating"}
  BY DEF StartAccept, StartRefused, StartSample, StartSampleFails, StartAllVariantsFailed,
         VariantPrepares, StartVariantFails, OpenAIUploads, GCPVertexUploads, Uploads,
         ProviderRefuses
<1>2. provider = "none"
  BY <1>0, <1>1 DEF Job
<1>3. /\ UNCHANGED <<provider, output, tables, pollVars>>
      /\ UNCHANGED <<clock, aborts, request>>
      /\ start' \notin {"writing_inferences", "writing_request", "answered"}
  BY DEF StartAccept, StartRefused, StartSample, StartSampleFails, StartAllVariantsFailed,
         VariantPrepares, StartVariantFails, OpenAIUploads, GCPVertexUploads, Uploads,
         ProviderRefuses, startUnchanged, VariantStarts
<1>4. Starting'
  <2>1. CASE StartAccept
    <3>1. request \in Requests /\ request.pinned \in Variants \cup {NoVariant}
      BY <1>0, <1>1 DEF Starting, Requests
    <3>2. cand' \in SUBSET Variants
      BY <2>1, <3>1 DEF StartAccept
    <3>3. QED
      BY <1>0, <1>1, <1>3, <2>1, <3>2 DEF StartAccept, Starting
  <2>2. CASE StartRefused \/ StartSampleFails \/ StartAllVariantsFailed
    BY <1>0, <1>1, <1>3, <2>2 DEF StartRefused, StartSampleFails, StartAllVariantsFailed, Starting
  <2>3. CASE StartSample
    BY <1>0, <1>1, <1>3, <2>3 DEF StartSample, VariantStarts, Starting
  <2>4. CASE VariantPrepares \/ StartVariantFails
    BY <1>0, <1>1, <1>3, <2>4 DEF VariantPrepares, StartVariantFails, Starting
  <2>5. CASE OpenAIUploads \/ GCPVertexUploads
    <3>1. start = "starting" /\ start' = "creating" /\ route' = route /\ cand' = cand
      BY <2>5 DEF OpenAIUploads, GCPVertexUploads, Uploads
    <3>2. route' \in 1 .. Len(Routing) /\ SupportsBatch(backend')
      BY <1>0, <2>5, <3>1 DEF OpenAIUploads, GCPVertexUploads, Uploads, backend, SupportsBatch,
                              Starting
    <3>3. QED
      BY <1>0, <1>3, <3>1, <3>2 DEF Starting
  <2>6. CASE ProviderRefuses
    BY <1>0, <1>1, <1>3, <2>6 DEF ProviderRefuses, Starting
  <2>7. QED
    BY <2>1, <2>2, <2>3, <2>4, <2>5, <2>6
<1>5. QED
  BY <1>2, <1>3, <1>4, EarlyStep

\* The provider accepts the batch: a pending job without an output file.
LEMMA CreatesStep ==
    ASSUME IInv, OpenAICreates \/ GCPVertexCreates
    PROVE  IInv'
<1> USE RoutingLength
<1>0. Starting /\ Job
  BY DEF IInv
<1>1. PICK b \in {"openai", "gcp_vertex_gemini"} : Creates(b)
  BY DEF OpenAICreates, GCPVertexCreates
<1>2. /\ start = "creating" /\ start' = "writing_inferences"
      /\ backend = b /\ backend' = b
      /\ UNCHANGED <<clock, aborts, request, cand, route, output, tables, pollVars>>
  BY <1>1 DEF Creates, startUnchanged, backend
<1>3. provider = "none"
  BY <1>0, <1>2 DEF Job
<1>4. /\ log = {} /\ output = Absent /\ Status = "none" /\ ~Late
      /\ \A q \in Pollers : poll[q] = "idle"
  BY <1>3, NothingYet
<1>5. /\ provider' # "none" /\ provider' \in JobStates(b)
      /\ SupportsBatch(b) /\ Status' = "pending"
  BY <1>1, <1>2, FirstStateIsPending DEF Creates, Status, SupportsBatch
<1>6. Starting'
  BY <1>0, <1>2 DEF Starting
<1>7. Job'
  BY <1>0, <1>2, <1>4, <1>5 DEF Job, Starting
<1>8. Recorded'
  BY <1>2, <1>4 DEF IInv, Recorded, tables, HasStatus
<1>9. Polls'
  BY <1>2, <1>4 DEF IInv, Polls, pollVars
<1>10. Learned'
  <2>1. \A p \in Pollers : got[p] \notin {"completed", "failed"}
                        /\ resp[p].status \notin {"completed", "failed"}
    BY <1>4 DEF IInv, Learned, Confirmed, Finished
  <2>2. QED
    BY <1>2, <1>4, <2>1 DEF Learned, Confirmed, tables, pollVars
<1>11. CompletedResponseIsWhole'
  BY <1>2 DEF IInv, CompletedResponseIsWhole, Answered, pollVars
<1>12. Written'
  BY <1>2, <1>4 DEF IInv, Written, CompletedIsStored, HasStatus, Answered, InferencesStored,
                    ModelsStored, tables, pollVars
<1>13. QED
  BY <1>6, <1>7, <1>8, <1>9, <1>10, <1>11, <1>12 DEF IInv

\* The two writes of write_start_batch_inference.
LEMMA WriteStartSteps ==
    ASSUME IInv, WriteBatchModelInferences \/ WriteBatchRequest
    PROVE  IInv'
<1> USE RoutingLength, BatchAssumption
<1>0. Starting /\ Job /\ Recorded /\ Polls /\ Learned /\ Written
  BY DEF IInv
<1>1. UNCHANGED <<clock, aborts, route, provider, output, inferences, models, pollVars>>
  BY DEF WriteBatchModelInferences, WriteBatchRequest, startUnchanged
<1>2. Status' = Status /\ Late' = Late
  BY <1>1 DEF Status, Late, backend
<1>3. Starting'
  BY <1>0, <1>1 DEF WriteBatchModelInferences, WriteBatchRequest, startUnchanged, Starting
<1>4. Job'
  BY <1>0, <1>1, <1>2 DEF WriteBatchModelInferences, WriteBatchRequest, Job, backend
<1>5. log = {} /\ \A q \in Pollers : poll[q] = "idle"
  BY <1>0 DEF WriteBatchModelInferences, WriteBatchRequest, Recorded, Polls
<1>6. Polls'
  BY <1>0, <1>1, <1>5 DEF Polls, pollVars
<1>7. CASE WriteBatchModelInferences
  <2>1. Recorded'
    BY <1>0, <1>5, <1>7 DEF WriteBatchModelInferences, Recorded
  <2>2. Learned' /\ Written' /\ CompletedResponseIsWhole'
    BY <1>1, <1>2, <1>7, Undisturbed DEF WriteBatchModelInferences, pollVars
  <2>3. QED
    BY <1>3, <1>4, <1>6, <2>1, <2>2 DEF IInv
<1>8. CASE WriteBatchRequest
  <2>1. log' = {[ts |-> clock, status |-> "pending"]}
    BY <1>5, <1>8 DEF WriteBatchRequest
  <2>2. Recorded'
    <3>1. log' \in SUBSET [ts : 0 .. MaxClock, status : Statuses]
      BY <1>0, <2>1 DEF Statuses, Starting
    <3>2. rows' = Inferences /\ start' = "answered"
      BY <1>0, <1>8 DEF WriteBatchRequest, Recorded
    <3>3. HasStatus("pending")'
      BY <2>1 DEF HasStatus
    <3>4. QED
      BY <3>1, <3>2, <3>3 DEF Recorded
  <2>3. /\ Answered' = Answered /\ Finished' = Finished
        /\ \A s : Confirmed(s)' = Confirmed(s)
    BY <1>1, <1>2, JobStays
  <2>4. Learned'
    BY <1>0, <1>1, <2>1, <2>3 DEF Learned, Confirmed, pollVars
  <2>5. ~HasStatus("completed")'
    BY <2>1 DEF HasStatus
  <2>6. Written'
    BY <1>0, <1>1, <1>5, <2>3, <2>5 DEF Written, CompletedIsStored, pollVars
  <2>7. CompletedResponseIsWhole'
    BY <1>1, <2>3 DEF IInv, CompletedResponseIsWhole, pollVars
  <2>8. QED
    BY <1>3, <1>4, <1>6, <2>2, <2>4, <2>6, <2>7 DEF IInv
<1>9. QED
  BY <1>7, <1>8

\* The start handler stops half way; a job it has created runs on.
LEMMA StartAbortsStep ==
    ASSUME IInv, StartAborts
    PROVE  IInv'
<1> USE RoutingLength, BatchAssumption
<1>0. Starting /\ Job /\ Recorded /\ Polls
  BY DEF IInv
<1>1. /\ UNCHANGED <<clock, request, cand, route, provider, output, tables, pollVars>>
      /\ start # "answered" /\ start' = "error"
  BY DEF StartAborts
<1>2. Status' = Status /\ Late' = Late
  BY <1>1 DEF Status, Late, backend
<1>3. Starting'
  BY <1>0, <1>1 DEF StartAborts, Starting
<1>4. Job'
  BY <1>0, <1>1, <1>2 DEF StartAborts, Job, backend
<1>5. log = {} /\ \A q \in Pollers : poll[q] = "idle"
  BY <1>0, <1>1 DEF Recorded, Polls
<1>6. Recorded' /\ Polls'
  BY <1>0, <1>1, <1>5 DEF Recorded, HasStatus, Polls, tables, pollVars
<1>7. Learned' /\ Written' /\ CompletedResponseIsWhole'
  BY <1>1, <1>2, Undisturbed DEF tables, pollVars
<1>8. QED
  BY <1>3, <1>4, <1>6, <1>7 DEF IInv

\* The job moves.  It had not completed, so no poller holds results of it and none are
\* stored; what was said of a failed one stays true.
LEMMA ProviderMovesStep ==
    ASSUME IInv, ProviderMoves
    PROVE  IInv'
<1> USE RoutingLength, BatchAssumption
<1>0. Starting /\ Job /\ Recorded /\ Polls /\ Learned /\ Written
  BY DEF IInv
<1>1. PICK s \in Moves(backend, provider) :
        /\ provider' = s
        /\ IF BatchStatus(backend, s) = "completed" THEN output' \in OutputFiles \cup {Absent}
                                                   ELSE UNCHANGED output
  BY DEF ProviderMoves
<1>2. /\ provider # "none"
      /\ UNCHANGED <<clock, aborts, startVars, tables, pollVars>>
  BY DEF ProviderMoves
<1>3. SupportsBatch(backend) /\ provider \in JobStates(backend) /\ backend' = backend
  BY <1>0, <1>2 DEF Job, backend, startVars
<1>4. /\ provider' \in JobStates(backend) /\ provider' # "none"
      /\ Status # "completed" /\ ~Late
      /\ Status = "failed" => Status' = "failed" \/ Late'
      /\ Status' = BatchStatus(backend, s)
  BY <1>1, <1>2, <1>3, MovesAreFinal DEF Status, Late
<1>5. output = Absent
  BY <1>0, <1>4 DEF Job
<1>6. Starting' /\ Recorded' /\ Polls'
  BY <1>0, <1>2, <1>3 DEF Starting, Recorded, HasStatus, Polls, startVars, tables, pollVars
<1>7. Job'
  BY <1>0, <1>1, <1>2, <1>3, <1>4, <1>5 DEF Job, startVars
<1>8. /\ \A p \in Pollers : got[p] # "completed" /\ resp[p].status # "completed"
      /\ ~HasStatus("completed")
  BY <1>0, <1>4 DEF Learned, Confirmed, Finished, HasStatus
<1>9. Learned'
  <2>1. \A p \in Pollers : got'[p] = got[p] /\ resp'[p] = resp[p]
    BY <1>2 DEF pollVars
  <2>2. log' = log
    BY <1>2 DEF tables
  <2>3. \A x : Confirmed(x) /\ x # "completed" => Confirmed(x)'
    BY <1>4 DEF Confirmed
  <2>4. QED
    BY <1>0, <1>8, <2>1, <2>2, <2>3 DEF Learned, HasStatus
<1>10. CompletedResponseIsWhole'
  BY <1>2, <1>8 DEF CompletedResponseIsWhole, pollVars
<1>11. Written'
  <2>1. \A i \in Inferences : inferences[i] = 0 /\ models[i] = 0
    BY <1>0, <1>5 DEF Written, Answered
  <2>2. \A p \in Pollers : poll[p] \notin {"writing_models", "reading"}
    BY <1>0, <1>8 DEF Written, Polls
  <2>3. ~HasStatus("completed")'
    BY <1>2, <1>8 DEF HasStatus, tables
  <2>4. QED
    BY <1>0, <1>2, <1>8, <2>1, <2>2, <2>3 DEF Written, CompletedIsStored, tables, pollVars
<1>12. QED
  BY <1>6, <1>7, <1>9, <1>10, <1>11 DEF IInv

\* Time passes.
LEMMA TickStep ==
    ASSUME IInv, Tick
    PROVE  IInv'
<1> USE RoutingLength, BatchAssumption
<1>0. Starting /\ Job /\ Recorded /\ Polls
  BY DEF IInv
<1>1. UNCHANGED <<aborts, startVars, provider, output, tables, pollVars>>
  BY DEF Tick
<1>2. Status' = Status /\ Late' = Late
  BY <1>1 DEF Status, Late, backend, startVars
<1>3. Starting' /\ Job'
  BY <1>0, <1>1, <1>2 DEF Tick, Starting, Job, backend, startVars
<1>4. Recorded' /\ Polls'
  BY <1>0, <1>1 DEF Recorded, HasStatus, Polls, startVars, tables, pollVars
<1>5. Learned' /\ Written' /\ CompletedResponseIsWhole'
  BY <1>1, <1>2, Undisturbed DEF tables, pollVars
<1>6. QED
  BY <1>3, <1>4, <1>5 DEF IInv

-----------------------------------------------------------------------------
(***************************************************************************)
(* The steps of a poll                                                      *)
(***************************************************************************)

\* An answer that is no error is true of the job.
LEMMA AnswerIsTrue ==
    ASSUME Job, provider # "none", Answer # "error"
    PROVE  Answer \in Statuses /\ Confirmed(Answer)
<1>1. Status \in Statuses
  BY StatusType
<1>2. CASE backend = "openai"
  <2>1. Status = OpenAIBatchStatus(provider)
    BY <1>2 DEF Status, BatchStatus
  <2>2. Answer = Status /\ ~(Status = "completed" /\ output = Absent)
    BY <1>2, <2>1 DEF Answer, OpenAIPoll
  <2>3. QED
    BY <1>1, <2>2 DEF Confirmed, Finished
<1>3. CASE backend # "openai"
  <2>1. Status = GCPVertexJobStatus(provider)
    BY <1>3 DEF Status, BatchStatus
  <2>2. Answer = Status /\ ~(Status = "completed" /\ output = Absent)
    BY <1>3, <2>1 DEF Answer, GCPVertexPoll
  <2>3. QED
    BY <1>1, <2>2 DEF Confirmed, Finished
<1>4. QED
  BY <1>2, <1>3

\* The response without results has the type of a response.
LEMMA ResponseTypes ==
    /\ NoResponse \in [status : Statuses \cup {"none"}, usage : [Inferences -> Nat]]
    /\ [NoResponse EXCEPT !.status = "failed"]
          \in [status : Statuses \cup {"none"}, usage : [Inferences -> Nat]]
    /\ NoResponse.status = "none"
    /\ [NoResponse EXCEPT !.status = "failed"].status = "failed"
BY DEF NoResponse, Statuses

\* A poll leaves the start handler, the job and BatchModelInference alone.
LEMMA PollFrame ==
    ASSUME IInv, aborts' \in 0 .. MaxAborts, UNCHANGED <<clock, startVars, provider, output, rows>>
    PROVE  /\ Starting' /\ Job'
           /\ Status' = Status /\ Answered' = Answered /\ Finished' = Finished
           /\ \A s : Confirmed(s)' = Confirmed(s)
<1>1. Status' = Status /\ Late' = Late /\ backend' = backend
  BY DEF Status, Late, backend, startVars
<1>2. Starting' /\ Job'
  BY <1>1 DEF IInv, Starting, Job, startVars
<1>3. QED
  BY <1>1, <1>2, JobStays

\* get_batch_request returns a recorded row, and what it says is true of the job.
LEMMA GetBatchRequestStep ==
    ASSUME IInv, NEW p \in Pollers, GetBatchRequest(p)
    PROVE  IInv'
<1>0. Starting /\ Job /\ Recorded /\ Polls /\ Learned /\ Written
  BY DEF IInv
<1>1. PICK r \in Latest(log) :
         /\ poll' = [poll EXCEPT ![p] = CASE r.status = "pending"   -> "polling"
                                          [] r.status = "completed" -> "reading"
                                          [] r.status = "failed"    -> "idle"]
         /\ resp' = [resp EXCEPT ![p] = IF r.status = "failed"
                                          THEN [NoResponse EXCEPT !.status = "failed"]
                                          ELSE NoResponse]
  BY DEF GetBatchRequest
<1>2. /\ start = "answered"
      /\ UNCHANGED <<clock, aborts, startVars, provider, output, tables, got, row>>
  BY DEF GetBatchRequest
<1>3. r \in log /\ r.status \in Statuses
  BY <1>0 DEF Latest, Recorded
<1>4. /\ Starting' /\ Job' /\ Answered' = Answered
      /\ \A s : Confirmed(s)' = Confirmed(s)
  BY <1>0, <1>2, PollFrame DEF Starting, tables
<1>5. Recorded'
  BY <1>0, <1>2 DEF Recorded, HasStatus, startVars, tables
<1>6. \/ r.status = "pending" /\ poll' = [poll EXCEPT ![p] = "polling"]
      \/ r.status = "completed" /\ poll' = [poll EXCEPT ![p] = "reading"]
      \/ r.status = "failed" /\ poll' = [poll EXCEPT ![p] = "idle"]
  BY <1>1, <1>3 DEF Statuses
<1>7. \/ resp' = [resp EXCEPT ![p] = NoResponse]
      \/ r.status = "failed" /\ resp' = [resp EXCEPT ![p] = [NoResponse EXCEPT !.status = "failed"]]
  BY <1>1
<1>8. Polls'
  <2>1. resp' \in [Pollers -> [status : Statuses \cup {"none"}, usage : [Inferences -> Nat]]]
    BY <1>0, <1>7, ResponseTypes DEF Polls
  <2>2. QED
    BY <1>0, <1>2, <1>6, <2>1 DEF Polls, startVars
<1>9. Learned'
  <2>1. \A q \in Pollers : q # p => resp'[q] = resp[q]
    BY <1>0, <1>7 DEF Polls
  <2>2. resp'[p].status = "none" \/ (resp'[p].status = "failed" /\ r.status = "failed")
    BY <1>0, <1>7, ResponseTypes DEF Polls
  <2>3. Confirmed(r.status) /\ Confirmed("none")
    BY <1>0, <1>3 DEF Learned, Confirmed
  <2>4. \A q \in Pollers : Confirmed(resp'[q].status)
    BY <1>0, <2>1, <2>2, <2>3 DEF Learned
  <2>5. QED
    BY <1>0, <1>2, <1>4, <2>4 DEF Learned, tables
<1>10. CompletedResponseIsWhole'
  <2>1. \A q \in Pollers : q # p => resp'[q] = resp[q]
    BY <1>0, <1>7 DEF Polls
  <2>2. resp'[p].status # "completed"
    BY <1>0, <1>7, ResponseTypes DEF Polls
  <2>3. QED
    BY <1>4, <2>1, <2>2 DEF IInv, CompletedResponseIsWhole
<1>11. Written'
  <2>1. InferencesStored' = InferencesStored /\ ModelsStored' = ModelsStored
    BY <1>2, <1>4 DEF InferencesStored, ModelsStored, tables
  <2>2. HasStatus("completed")' = HasStatus("completed")
    BY <1>2 DEF HasStatus, tables
  <2>3. CompletedIsStored'
    BY <1>0, <1>2, <1>4, <2>2 DEF Written, CompletedIsStored, tables
  <2>4. r.status = "completed" => HasStatus("completed")
    BY <1>3 DEF HasStatus
  <2>5. \A q \in Pollers : \/ poll'[q] = poll[q]
                           \/ poll'[q] \in {"polling", "idle"}
                           \/ poll'[q] = "reading" /\ HasStatus("completed")
    BY <1>0, <1>6, <2>4 DEF Polls
  <2>6. QED
    BY <1>0, <1>2, <1>4, <2>1, <2>2, <2>3, <2>5 DEF Written, tables
<1>12. QED
  BY <1>4, <1>5, <1>8, <1>9, <1>10, <1>11 DEF IInv

\* A step of p that only moves p, and sets what it holds to what is true of the job.
LEMMA PollMoves ==
    ASSUME IInv, NEW p \in Pollers, NEW where, NEW what \in Statuses \cup {"none"},
           where \in {"idle", "completing", "stamping"}, start = "answered",
           where = "completing" => what = "completed",
           where = "stamping" => what \in Statuses \ {"completed"},
           Confirmed(what),
           aborts' \in 0 .. MaxAborts,
           UNCHANGED <<clock, startVars, provider, output, tables, resp>>,
           poll' = [poll EXCEPT ![p] = where],
           got' = [got EXCEPT ![p] = what],
           row' = row \/ row' = [row EXCEPT ![p] = NoRow]
    PROVE  IInv'
<1> USE BatchAssumption
<1>0. Starting /\ Job /\ Recorded /\ Polls /\ Learned /\ Written
  BY DEF IInv
<1>1. /\ Starting' /\ Job' /\ Answered' = Answered
      /\ \A s : Confirmed(s)' = Confirmed(s)
  BY PollFrame DEF tables
<1>2. Recorded'
  BY <1>0 DEF Recorded, HasStatus, startVars, tables
<1>3. /\ poll'[p] = where /\ got'[p] = what
      /\ \A q \in Pollers : q # p => poll'[q] = poll[q] /\ got'[q] = got[q] /\ row'[q] = row[q]
  BY <1>0 DEF Polls
<1>4. Polls'
  <2>1. NoRow \in [ts : 0 .. MaxClock, status : Statuses \cup {"none"}]
    BY DEF NoRow
  <2>2. row' \in [Pollers -> [ts : 0 .. MaxClock, status : Statuses \cup {"none"}]]
    BY <1>0, <2>1 DEF Polls
  <2>3. /\ poll' \in [Pollers -> {"idle", "polling", "completing", "writing_models", "stamping",
                                 "inserting", "reading"}]
        /\ got' \in [Pollers -> Statuses \cup {"none"}]
    BY <1>0 DEF Polls
  <2>4. \A q \in Pollers :
          /\ poll'[q] # "idle" => start' = "answered"
          /\ poll'[q] \in {"completing", "writing_models"} => got'[q] = "completed"
          /\ poll'[q] \in {"stamping", "inserting"} => got'[q] \in Statuses
          /\ poll'[q] = "inserting" => row'[q].status = got'[q]
    BY <1>0, <1>3 DEF Polls, startVars
  <2>5. QED
    BY <1>0, <2>2, <2>3, <2>4 DEF Polls
<1>5. Learned'
  <2>1. \A q \in Pollers : Confirmed(got'[q])
    BY <1>0, <1>3 DEF Learned
  <2>2. QED
    BY <1>0, <1>1, <2>1 DEF Learned, tables
<1>6. CompletedResponseIsWhole'
  BY <1>1 DEF IInv, CompletedResponseIsWhole
<1>7. Written'
  <2>1. InferencesStored' = InferencesStored /\ ModelsStored' = ModelsStored
    BY <1>1 DEF InferencesStored, ModelsStored, tables
  <2>2. HasStatus("completed")' = HasStatus("completed")
    BY DEF HasStatus, tables
  <2>3. CompletedIsStored'
    BY <1>0, <1>1, <2>2 DEF Written, CompletedIsStored, tables
  <2>4. \A q \in Pollers :
          /\ poll'[q] = "writing_models" => InferencesStored'
          /\ poll'[q] \in {"stamping", "inserting"} /\ got'[q] = "completed" =>
                InferencesStored' /\ ModelsStored'
          /\ poll'[q] = "reading" => HasStatus("completed")'
    BY <1>0, <1>3, <2>1, <2>2 DEF Written
  <2>5. QED
    BY <1>0, <1>1, <2>3, <2>4 DEF Written, tables
<1>8. QED
  BY <1>1, <1>2, <1>4, <1>5, <1>6, <1>7 DEF IInv

\* The provider answers, or its answer is an error; the results match no row; the poll stops.
LEMMA PollMovesSteps ==
    ASSUME IInv, NEW p \in Pollers,
           PollProvider(p) \/ OutputMissing(p) \/ MissingResponse(p) \/ PollAborts(p)
    PROVE  IInv'
<1> USE BatchAssumption
<1>0. Starting /\ Job /\ Recorded /\ Polls /\ Learned
  BY DEF IInv
<1>1. /\ start = "answered" /\ provider # "none"
      /\ UNCHANGED <<clock, startVars, provider, output, tables, resp>>
      /\ aborts' \in 0 .. MaxAborts
  BY <1>0 DEF PollProvider, OutputMissing, MissingResponse, PollAborts, Polls, Job, Starting
<1>2. Confirmed("none")
  BY DEF Confirmed
<1>3. CASE PollProvider(p)
  <2>1. Answer \in Statuses /\ Confirmed(Answer)
    BY <1>0, <1>1, <1>3, AnswerIsTrue DEF PollProvider
  <2>2. /\ got' = [got EXCEPT ![p] = Answer] /\ row' = row
        /\ poll' = [poll EXCEPT ![p] = IF Answer = "completed" THEN "completing" ELSE "stamping"]
    BY <1>3 DEF PollProvider
  <2>3. CASE Answer = "completed"
    BY <1>1, <2>1, <2>2, <2>3, PollMoves
  <2>4. CASE Answer # "completed"
    BY <1>1, <2>1, <2>2, <2>4, PollMoves
  <2>5. QED
    BY <2>3, <2>4
<1>4. CASE OutputMissing(p)
  <2>1. /\ poll' = [poll EXCEPT ![p] = "idle"]
        /\ got' = [got EXCEPT ![p] = got[p]] /\ row' = row
    BY <1>0, <1>4 DEF OutputMissing, Polls
  <2>2. got[p] \in Statuses \cup {"none"} /\ Confirmed(got[p])
    BY <1>0 DEF Polls, Learned
  <2>3. QED
    BY <1>1, <2>1, <2>2, PollMoves
<1>5. CASE MissingResponse(p) \/ PollAborts(p)
  <2>1. /\ poll' = [poll EXCEPT ![p] = "idle"]
        /\ got' = [got EXCEPT ![p] = "none"]
        /\ row' = row \/ row' = [row EXCEPT ![p] = NoRow]
    BY <1>5 DEF MissingResponse, PollAborts
  <2>2. QED
    BY <1>1, <1>2, <2>1, PollMoves
<1>6. QED
  BY <1>3, <1>4, <1>5

\* A count that is written is at least one, within its bound, and never falls.
LEMMA SaturateBounds ==
    ASSUME NEW n \in 0 .. MaxCopies
    PROVE  Saturate(n) \in 1 .. MaxCopies /\ Saturate(n) >= n
BY BatchAssumption DEF Saturate

\* The rows of the results are written: first those of the inferences, then those of the
\* model inferences.
LEMMA WriteResultsSteps ==
    ASSUME IInv, NEW p \in Pollers, WriteInferences(p) \/ WriteModels(p)
    PROVE  IInv'
<1> USE BatchAssumption
<1>0. Starting /\ Job /\ Recorded /\ Polls /\ Learned /\ Written
  BY DEF IInv
<1>1. /\ poll[p] \in {"completing", "writing_models"}
      /\ UNCHANGED <<clock, aborts, startVars, provider, output, rows, log, got, row, resp>>
  BY DEF WriteInferences, WriteModels
<1>2. start = "answered" /\ got[p] = "completed" /\ rows = Inferences
  BY <1>0, <1>1 DEF Polls, Recorded
<1>3. Completing = Answered
  BY <1>2, CompletingIsAnswered
<1>4. /\ Starting' /\ Job' /\ Answered' = Answered
      /\ \A s : Confirmed(s)' = Confirmed(s)
  BY <1>0, <1>1, PollFrame DEF Starting
<1>5. Recorded'
  BY <1>0, <1>1 DEF Recorded, HasStatus, startVars
<1>6. \/ poll' = [poll EXCEPT ![p] = "writing_models"] /\ WriteInferences(p)
      \/ poll' = [poll EXCEPT ![p] = "stamping"] /\ WriteModels(p)
  BY DEF WriteInferences, WriteModels
<1>7. Polls'
  BY <1>0, <1>1, <1>2, <1>6 DEF Polls, startVars, Statuses
<1>8. Learned'
  BY <1>0, <1>1, <1>4 DEF Learned
<1>9. CompletedResponseIsWhole'
  BY <1>1, <1>4 DEF IInv, CompletedResponseIsWhole
<1>10. /\ inferences' \in [Inferences -> 0 .. MaxCopies]
       /\ models' \in [Inferences -> 0 .. MaxCopies]
       /\ \A i \in Inferences : inferences'[i] >= inferences[i] /\ models'[i] >= models[i]
       /\ \A i \in Inferences \ Answered : inferences'[i] = inferences[i] /\ models'[i] = models[i]
  <2>1. CASE WriteInferences(p)
    <3>1. /\ inferences' = [i \in Inferences |-> IF i \in Answered THEN Saturate(inferences[i])
                                                                  ELSE inferences[i]]
          /\ models' = models
      BY <1>3, <2>1 DEF WriteInferences
    <3>2. QED
      BY <1>0, <3>1, SaturateBounds DEF Written
  <2>2. CASE WriteModels(p)
    <3>1. /\ models' = [i \in Inferences |-> IF i \in Answered THEN Saturate(models[i])
                                                              ELSE models[i]]
          /\ inferences' = inferences
      BY <1>3, <2>2 DEF WriteModels
    <3>2. QED
      BY <1>0, <3>1, SaturateBounds DEF Written
  <2>3. QED
    BY <2>1, <2>2
<1>11. \A i \in Inferences : inferences[i] \in Nat /\ models[i] \in Nat
                          /\ inferences'[i] \in Nat /\ models'[i] \in Nat
  BY <1>0, <1>10 DEF Written
<1>12. Answered \subseteq Inferences
  BY DEF Answered
<1>13. (InferencesStored => InferencesStored') /\ (ModelsStored => ModelsStored')
  BY <1>4, <1>10, <1>11, <1>12 DEF InferencesStored, ModelsStored
<1>14. WriteInferences(p) => InferencesStored'
  <2>1. SUFFICES ASSUME WriteInferences(p), NEW i \in Answered PROVE inferences'[i] >= 1
    BY <1>4 DEF InferencesStored
  <2>2. inferences'[i] = Saturate(inferences[i])
    BY <1>3, <1>12, <2>1 DEF WriteInferences
  <2>3. QED
    BY <1>0, <1>12, <2>2, SaturateBounds DEF Written
<1>15. WriteModels(p) => InferencesStored' /\ ModelsStored'
  <2>1. SUFFICES ASSUME WriteModels(p) PROVE InferencesStored' /\ ModelsStored'
    OBVIOUS
  <2>2. InferencesStored
    BY <1>0, <2>1 DEF WriteModels, Written
  <2>3. ASSUME NEW i \in Answered PROVE models'[i] >= 1
    <3>1. models'[i] = Saturate(models[i])
      BY <1>3, <1>12, <2>1 DEF WriteModels
    <3>2. QED
      BY <1>0, <1>12, <3>1, SaturateBounds DEF Written
  <2>4. QED
    BY <1>4, <1>13, <2>2, <2>3 DEF ModelsStored
<1>16. Written'
  <2>1. \A i \in Inferences : inferences'[i] # 0 \/ models'[i] # 0 => i \in Answered'
    BY <1>0, <1>4, <1>10 DEF Written
  <2>2. \A q \in Pollers :
          /\ poll'[q] = "writing_models" => InferencesStored'
          /\ poll'[q] \in {"stamping", "inserting"} /\ got'[q] = "completed" =>
                InferencesStored' /\ ModelsStored'
          /\ poll'[q] = "reading" => HasStatus("completed")'
    <3>1. HasStatus("completed")' = HasStatus("completed")
      BY <1>1 DEF HasStatus
    <3>2. \A q \in Pollers : q # p => poll'[q] = poll[q]
      BY <1>0, <1>6 DEF Polls
    <3>3. \/ poll'[p] = "writing_models" /\ WriteInferences(p)
          \/ poll'[p] = "stamping" /\ WriteModels(p)
      BY <1>0, <1>6 DEF Polls
    <3>4. QED
      BY <1>0, <1>1, <1>13, <1>14, <1>15, <3>1, <3>2, <3>3 DEF Written
  <2>3. CompletedIsStored'
    <3>1. HasStatus("completed") => InferencesStored /\ ModelsStored
      BY <1>0 DEF Written, CompletedIsStored, InferencesStored, ModelsStored
    <3>2. HasStatus("completed")' => InferencesStored' /\ ModelsStored'
      BY <1>1, <1>13, <3>1 DEF HasStatus
    <3>3. QED
      BY <3>2 DEF CompletedIsStored, InferencesStored, ModelsStored
  <2>4. QED
    BY <1>10, <2>1, <2>2, <2>3 DEF Written
<1>17. QED
  BY <1>4, <1>5, <1>7, <1>8, <1>9, <1>16 DEF IInv

\* The row with the new status is made ...
LEMMA StampStatusStep ==
    ASSUME IInv, NEW p \in Pollers, StampStatus(p)
    PROVE  IInv'
<1> USE BatchAssumption
<1>0. Starting /\ Job /\ Recorded /\ Polls /\ Learned /\ Written
  BY DEF IInv
<1>1. /\ poll[p] = "stamping"
      /\ row' = [row EXCEPT ![p] = [ts |-> clock, status |-> got[p]]]
      /\ poll' = [poll EXCEPT ![p] = "inserting"]
      /\ UNCHANGED <<clock, aborts, startVars, provider, output, tables, got, resp>>
  BY DEF StampStatus
<1>2. start = "answered" /\ got[p] \in Statuses
  BY <1>0, <1>1 DEF Polls
<1>3. /\ Starting' /\ Job' /\ Answered' = Answered
      /\ \A s : Confirmed(s)' = Confirmed(s)
  BY <1>0, <1>1, PollFrame DEF Starting, tables
<1>4. Recorded'
  BY <1>0, <1>1 DEF Recorded, HasStatus, startVars, tables
<1>5. /\ poll'[p] = "inserting" /\ row'[p].status = got[p]
      /\ \A q \in Pollers : q # p => poll'[q] = poll[q] /\ row'[q] = row[q]
  BY <1>0, <1>1 DEF Polls
<1>6. Polls'
  <2>1. [ts |-> clock, status |-> got[p]] \in [ts : 0 .. MaxClock, status : Statuses \cup {"none"}]
    BY <1>0, <1>2 DEF Starting
  <2>2. /\ row' \in [Pollers -> [ts : 0 .. MaxClock, status : Statuses \cup {"none"}]]
        /\ poll' \in [Pollers -> {"idle", "polling", "completing", "writing_models", "stamping",
                                 "inserting", "reading"}]
    BY <1>0, <1>1, <2>1 DEF Polls
  <2>3. QED
    BY <1>0, <1>1, <1>2, <1>5, <2>2 DEF Polls, startVars
<1>7. Learned'
  BY <1>0, <1>1, <1>3 DEF Learned, tables
<1>8. CompletedResponseIsWhole'
  BY <1>1, <1>3 DEF IInv, CompletedResponseIsWhole
<1>9. Written'
  <2>1. InferencesStored' = InferencesStored /\ ModelsStored' = ModelsStored
    BY <1>1, <1>3 DEF InferencesStored, ModelsStored, tables
  <2>2. HasStatus("completed")' = HasStatus("completed")
    BY <1>1 DEF HasStatus, tables
  <2>3. CompletedIsStored'
    BY <1>0, <1>1, <1>3, <2>2 DEF Written, CompletedIsStored, tables
  <2>4. QED
    BY <1>0, <1>1, <1>3, <1>5, <2>1, <2>2, <2>3 DEF Written, tables
<1>10. QED
  BY <1>3, <1>4, <1>6, <1>7, <1>8, <1>9 DEF IInv

\* ... and recorded: if it says completed, its results are already stored, and the
\* response has every one of them.
LEMMA InsertStatusStep ==
    ASSUME IInv, NEW p \in Pollers, InsertStatus(p)
    PROVE  IInv'
<1> USE BatchAssumption
<1>0. Starting /\ Job /\ Recorded /\ Polls /\ Learned /\ Written
  BY DEF IInv
<1>1. /\ poll[p] = "inserting"
      /\ log' = log \cup {row[p]}
      /\ poll' = [poll EXCEPT ![p] = "idle"]
      /\ got' = [got EXCEPT ![p] = "none"]
      /\ row' = [row EXCEPT ![p] = NoRow]
      /\ UNCHANGED <<clock, aborts, startVars, provider, output, rows, inferences, models>>
  BY DEF InsertStatus
<1>2. start = "answered" /\ got[p] \in Statuses /\ row[p].status = got[p] /\ rows = Inferences
  BY <1>0, <1>1 DEF Polls, Recorded
<1>3. Completing = Answered
  BY <1>2, CompletingIsAnswered
<1>4. /\ Starting' /\ Job' /\ Answered' = Answered
      /\ \A s : Confirmed(s)' = Confirmed(s)
  BY <1>0, <1>1, PollFrame DEF Starting
<1>5. row[p] \in [ts : 0 .. MaxClock, status : Statuses]
  BY <1>0, <1>2 DEF Polls
<1>6. Recorded'
  <2>1. HasStatus("pending") => HasStatus("pending")'
    BY <1>1 DEF HasStatus
  <2>2. QED
    BY <1>0, <1>1, <1>2, <1>5, <2>1 DEF Recorded, startVars
<1> DEFINE said == [status |-> row[p].status,
                    usage  |-> [i \in Inferences |->
                                  IF row[p].status = "completed" /\ i \in Answered THEN 1 ELSE 0]]
<1>7. resp' = [resp EXCEPT ![p] = said]
  BY <1>3 DEF InsertStatus
<1>8. said \in [status : Statuses \cup {"none"}, usage : [Inferences -> Nat]]
  BY <1>2
<1>9. said.status = got[p] /\ \A i \in Inferences : said.usage[i] = IF got[p] = "completed" /\ i \in Answered THEN 1 ELSE 0
  BY <1>2
<1> HIDE DEF said
<1>10. /\ poll'[p] = "idle" /\ got'[p] = "none" /\ resp'[p] = said
       /\ \A q \in Pollers : q # p =>
             poll'[q] = poll[q] /\ got'[q] = got[q] /\ row'[q] = row[q] /\ resp'[q] = resp[q]
  BY <1>0, <1>1, <1>7 DEF Polls
<1>11. Polls'
  <2>1. NoRow \in [ts : 0 .. MaxClock, status : Statuses \cup {"none"}]
    BY DEF NoRow
  <2>2. /\ row' \in [Pollers -> [ts : 0 .. MaxClock, status : Statuses \cup {"none"}]]
        /\ got' \in [Pollers -> Statuses \cup {"none"}]
        /\ resp' \in [Pollers -> [status : Statuses \cup {"none"}, usage : [Inferences -> Nat]]]
        /\ poll' \in [Pollers -> {"idle", "polling", "completing", "writing_models", "stamping",
                                 "inserting", "reading"}]
    BY <1>0, <1>1, <1>7, <1>8, <2>1 DEF Polls
  <2>3. QED
    BY <1>0, <1>1, <1>2, <1>10, <2>2 DEF Polls, startVars
<1>12. Learned'
  <2>1. Confirmed(got[p]) /\ Confirmed("none")
    BY <1>0 DEF Learned, Confirmed
  <2>2. \A q \in Pollers : Confirmed(got'[q]) /\ Confirmed(resp'[q].status)
    BY <1>0, <1>9, <1>10, <2>1 DEF Learned
  <2>3. \A r \in log' : Confirmed(r.status)
    BY <1>0, <1>1, <1>2, <2>1 DEF Learned
  <2>4. QED
    BY <1>4, <2>2, <2>3 DEF Learned
<1>13. CompletedResponseIsWhole'
  <2>1. ASSUME NEW q \in Pollers, resp'[q].status = "completed", NEW i \in Inferences
        PROVE  (resp'[q].usage[i] >= 1) <=> (i \in Answered)
    <3>1. CASE q = p
      BY <1>9, <1>10, <2>1, <3>1
    <3>2. CASE q # p
      BY <1>10, <2>1, <3>2 DEF IInv, CompletedResponseIsWhole
    <3>3. QED
      BY <3>1, <3>2
  <2>2. QED
    BY <1>4, <2>1 DEF CompletedResponseIsWhole
<1>14. Written'
  <2>1. InferencesStored' = InferencesStored /\ ModelsStored' = ModelsStored
    BY <1>1, <1>4 DEF InferencesStored, ModelsStored
  <2>2. HasStatus("completed") => HasStatus("completed")'
    BY <1>1 DEF HasStatus
  <2>3. CompletedIsStored'
    <3>1. HasStatus("completed")' => HasStatus("completed") \/ got[p] = "completed"
      BY <1>1, <1>2 DEF HasStatus
    <3>2. HasStatus("completed")' => InferencesStored /\ ModelsStored
      BY <1>0, <1>1, <3>1 DEF Written, CompletedIsStored, InferencesStored, ModelsStored
    <3>3. QED
      BY <2>1, <3>2 DEF CompletedIsStored, InferencesStored, ModelsStored
  <2>4. QED
    BY <1>0, <1>1, <1>4, <1>10, <2>1, <2>2, <2>3 DEF Written
<1>15. QED
  BY <1>4, <1>6, <1>11, <1>12, <1>13, <1>14 DEF IInv

\* A product of numbers is a number, and positive if both are.
LEMMA Products ==
    ASSUME NEW m \in Nat, NEW n \in Nat
    PROVE  m * n \in Nat /\ (m >= 1 /\ n >= 1 => m * n >= 1) /\ (m = 0 => m * n = 0)
OBVIOUS

\* The stored results are read: each is there, and was billed at least once.
LEMMA ReadCompletedStep ==
    ASSUME IInv, NEW p \in Pollers, ReadCompleted(p)
    PROVE  IInv'
<1> USE BatchAssumption
<1>0. Starting /\ Job /\ Recorded /\ Polls /\ Learned /\ Written
  BY DEF IInv
<1> DEFINE said == [status |-> "completed",
                    usage  |-> [i \in Inferences |-> inferences[i] * models[i]]]
<1>1. /\ poll[p] = "reading"
      /\ resp' = [resp EXCEPT ![p] = said]
      /\ poll' = [poll EXCEPT ![p] = "idle"]
      /\ UNCHANGED <<clock, aborts, startVars, provider, output, tables, got, row>>
  BY DEF ReadCompleted
<1> HIDE DEF said
<1>2. /\ Starting' /\ Job' /\ Answered' = Answered
      /\ \A s : Confirmed(s)' = Confirmed(s)
  BY <1>0, <1>1, PollFrame DEF Starting, tables
<1>3. HasStatus("completed") /\ Confirmed("completed")
  BY <1>0, <1>1 DEF Written, Learned, HasStatus
<1>4. \A i \in Inferences : inferences[i] \in Nat /\ models[i] \in Nat
  <2>1. inferences \in [Inferences -> 0 .. MaxCopies] /\ models \in [Inferences -> 0 .. MaxCopies]
    BY <1>0 DEF Written
  <2>2. QED
    BY <2>1
<1>5. \A i \in Inferences : inferences[i] * models[i] \in Nat
  BY <1>4, Products
<1>6. said \in [status : Statuses \cup {"none"}, usage : [Inferences -> Nat]]
  BY <1>5 DEF said, Statuses
<1>7. \A i \in Inferences : (inferences[i] * models[i] >= 1) <=> (i \in Answered)
  <2>1. ASSUME NEW i \in Answered PROVE inferences[i] * models[i] >= 1
    <3>1. i \in Inferences
      BY DEF Answered
    <3>2. inferences[i] >= 1 /\ models[i] >= 1
      BY <1>0, <1>3 DEF Written, CompletedIsStored
    <3>3. QED
      BY <1>4, <3>1, <3>2, Products
  <2>2. ASSUME NEW i \in Inferences, i \notin Answered PROVE inferences[i] * models[i] = 0
    <3>1. inferences[i] = 0
      BY <1>0, <2>2 DEF Written
    <3>2. QED
      BY <1>4, <2>2, <3>1, Products
  <2>3. ~(0 >= 1)
    OBVIOUS
  <2>4. QED
    BY <2>1, <2>2, <2>3, Zenon
<1>8. said.status = "completed" /\ \A i \in Inferences : said.usage[i] = inferences[i] * models[i]
  BY DEF said
<1>9. /\ poll'[p] = "idle" /\ resp'[p] = said
      /\ \A q \in Pollers : q # p => poll'[q] = poll[q] /\ resp'[q] = resp[q]
  BY <1>0, <1>1 DEF Polls
<1>10. Recorded'
  BY <1>0, <1>1 DEF Recorded, HasStatus, startVars, tables
<1>11. Polls'
  <2>1. /\ resp' \in [Pollers -> [status : Statuses \cup {"none"}, usage : [Inferences -> Nat]]]
        /\ poll' \in [Pollers -> {"idle", "polling", "completing", "writing_models", "stamping",
                                 "inserting", "reading"}]
    BY <1>0, <1>1, <1>6 DEF Polls
  <2>2. QED
    BY <1>0, <1>1, <1>9, <2>1 DEF Polls, startVars
<1>12. Learned'
  <2>1. \A q \in Pollers : Confirmed(resp'[q].status)
    BY <1>0, <1>3, <1>8, <1>9 DEF Learned
  <2>2. QED
    BY <1>0, <1>1, <1>2, <2>1 DEF Learned, tables
<1>13. CompletedResponseIsWhole'
  <2>1. ASSUME NEW q \in Pollers, resp'[q].status = "completed", NEW i \in Inferences
        PROVE  (resp'[q].usage[i] >= 1) <=> (i \in Answered)
    <3>1. CASE q = p
      BY <1>7, <1>8, <1>9, <3>1
    <3>2. CASE q # p
      BY <1>9, <2>1, <3>2 DEF IInv, CompletedResponseIsWhole
    <3>3. QED
      BY <3>1, <3>2
  <2>2. QED
    BY <1>2, <2>1 DEF CompletedResponseIsWhole
<1>14. Written'
  <2>1. InferencesStored' = InferencesStored /\ ModelsStored' = ModelsStored
    BY <1>1, <1>2 DEF InferencesStored, ModelsStored, tables
  <2>2. HasStatus("completed")' = HasStatus("completed")
    BY <1>1 DEF HasStatus, tables
  <2>3. CompletedIsStored'
    BY <1>0, <1>1, <1>2, <2>2 DEF Written, CompletedIsStored, tables
  <2>4. QED
    BY <1>0, <1>1, <1>2, <1>9, <2>1, <2>2, <2>3 DEF Written, tables
<1>15. QED
  BY <1>2, <1>10, <1>11, <1>12, <1>13, <1>14 DEF IInv

-----------------------------------------------------------------------------
(***************************************************************************)
(* The theorems                                                             *)
(***************************************************************************)

\* The invariant holds before anything has happened.
LEMMA InitIInv == Init => IInv
<1> USE BatchAssumption, RoutingLength
<1> SUFFICES ASSUME Init PROVE IInv
  OBVIOUS
<1>2. Starting
  BY DEF Init, Starting, Requests
<1>3. Job /\ Status = "none"
  BY DEF Init, Job, Status
<1>4. Recorded
  BY DEF Init, Recorded
<1>5. Polls
  <2>1. NoRow \in [ts : 0 .. MaxClock, status : Statuses \cup {"none"}]
    BY DEF NoRow
  <2>2. QED
    BY <2>1, ResponseTypes DEF Init, Polls
<1>6. \A p \in Pollers : got[p] = "none" /\ resp[p].status = "none"
  BY ResponseTypes DEF Init
<1>7. Learned
  BY <1>6 DEF Init, Learned, Confirmed
<1>8. Written
  <2>1. ~HasStatus("completed")
    BY DEF Init, HasStatus
  <2>2. \A p \in Pollers : poll[p] = "idle"
    BY DEF Init
  <2>3. \A i \in Inferences : inferences[i] = 0 /\ models[i] = 0
    BY DEF Init
  <2>4. inferences \in [Inferences -> 0 .. MaxCopies] /\ models \in [Inferences -> 0 .. MaxCopies]
    BY DEF Init
  <2>5. QED
    BY <2>1, <2>2, <2>3, <2>4 DEF Written, CompletedIsStored
<1>9. CompletedResponseIsWhole
  BY <1>6 DEF CompletedResponseIsWhole
<1>10. QED
  BY <1>2, <1>3, <1>4, <1>5, <1>7, <1>8, <1>9 DEF IInv

\* A step that changes nothing keeps the invariant.
LEMMA StutterIInv ==
    ASSUME IInv, UNCHANGED vars
    PROVE  IInv'
<1>1. UNCHANGED <<clock, aborts, startVars, provider, output, tables, pollVars>>
  BY DEF vars
<1>2. aborts' \in 0 .. MaxAborts
  BY <1>1 DEF IInv, Starting
<1>3. Starting' /\ Job' /\ Status' = Status /\ Late' = Late
  BY <1>1, <1>2, PollFrame DEF tables, Late
<1>4. Recorded' /\ Polls'
  BY <1>1 DEF IInv, Recorded, HasStatus, Polls, startVars, tables, pollVars
<1>5. Learned' /\ Written' /\ CompletedResponseIsWhole'
  BY <1>1, <1>3, Undisturbed DEF tables, pollVars
<1>6. QED
  BY <1>3, <1>4, <1>5 DEF IInv

\* The invariant holds throughout.
LEMMA Invariance == Spec => []IInv
<1>1. IInv /\ [Next]_vars => IInv'
  <2>1. SUFFICES ASSUME IInv, [Next]_vars PROVE IInv'
    OBVIOUS
  <2>2. CASE StartHandler
    BY <2>1, <2>2, EarlySteps, CreatesStep, WriteStartSteps DEF StartHandler
  <2>3. CASE StartAborts
    BY <2>1, <2>3, StartAbortsStep
  <2>4. CASE ProviderMoves
    BY <2>1, <2>4, ProviderMovesStep
  <2>5. CASE Tick
    BY <2>1, <2>5, TickStep
  <2>6. CASE NoBatch
    BY <2>1, <2>6, StutterIInv DEF NoBatch
  <2>7. ASSUME NEW p \in Pollers, PollHandler(p) \/ PollAborts(p)
        PROVE  IInv'
    BY <2>1, <2>7, GetBatchRequestStep, PollMovesSteps, WriteResultsSteps, StampStatusStep,
       InsertStatusStep, ReadCompletedStep DEF PollHandler
  <2>8. CASE UNCHANGED vars
    BY <2>1, <2>8, StutterIInv
  <2>9. QED
    BY <2>1, <2>2, <2>3, <2>4, <2>5, <2>6, <2>7, <2>8 DEF Next
<1>2. QED
  BY <1>1, InitIInv, PTL DEF Spec

\* Every variable keeps its type: in particular a job that exists belongs to a provider of
\* the routing that does batches, and is in one of the states its status conversion knows.
THEOREM TypeCorrect == Spec => []TypeOK
<1>1. IInv => TypeOK
  <2>1. SUFFICES ASSUME IInv PROVE TypeOK
    OBVIOUS
  <2>2. Starting /\ Job /\ Recorded /\ Polls /\ Written
    BY <2>1 DEF IInv
  <2>3. provider # "none" =>
          /\ route \in 1 .. Len(Routing) /\ SupportsBatch(backend)
          /\ Status \in Statuses
    BY <2>2, StatusType DEF Job
  <2>4. QED
    BY <2>2, <2>3 DEF TypeOK, Starting, Requests, Job, Recorded, Polls, Written
<1>2. QED
  BY <1>1, Invariance, PTL

\* A BatchRequest row that says completed comes after the Chat/JsonInference and the
\* ModelInference rows of every inference the provider has a whole result of, however
\* many polls interleave in write_poll_batch_inference and wherever they stop.
THEOREM CompletedRowsAreStored == Spec => []CompletedIsStored
<1>1. IInv => CompletedIsStored
  BY DEF IInv, Written
<1>2. QED
  BY <1>1, Invariance, PTL

\* A poll that is told the batch is completed, by the poll that completed it or by a read
\* of what is stored, gets exactly the results the provider returned.
THEOREM CompletedResponsesAreWhole == Spec => []CompletedResponseIsWhole
<1>1. IInv => CompletedResponseIsWhole
  BY DEF IInv
<1>2. QED
  BY <1>1, Invariance, PTL

\* A batch id is returned after both writes of write_start_batch_inference, and there is
\* no BatchRequest row without the BatchModelInference rows.
THEOREM StartedBatchesAreRecorded == Spec => []StartedBatchIsRecorded
<1>1. IInv => StartedBatchIsRecorded
  BY DEF IInv, Recorded, HasStatus, StartedBatchIsRecorded
<1>2. QED
  BY <1>1, Invariance, PTL

-----------------------------------------------------------------------------
(***************************************************************************)
(* The refinement of BatchLifecycle: the furthest status ever recorded, and *)
(* the inferences with a stored result.                                     *)
(***************************************************************************)

Stored == {i \in Inferences : inferences[i] > 0}

\* What the recorded statuses of an answered batch can be.
LEMMA RecordedStatuses ==
    ASSUME IInv
    PROVE  /\ log = {} => RecordedStatus = "absent"
           /\ start = "answered" => RecordedStatus \in Statuses
           /\ RecordedStatus = "completed" <=> HasStatus("completed")
           /\ RecordedStatus = "failed" <=> HasStatus("failed") /\ ~HasStatus("completed")
           /\ HasStatus("completed") => Status = "completed"
           /\ HasStatus("failed") => Status = "failed" \/ Late
<1>1. /\ HasStatus("completed") => Status = "completed"
      /\ HasStatus("failed") => Status = "failed" \/ Late
  BY DEF IInv, Learned, Confirmed, Finished, HasStatus
<1>2. start = "answered" => HasStatus("pending")
  BY DEF IInv, Recorded
<1>3. log = {} => ~HasStatus("completed") /\ ~HasStatus("failed") /\ ~HasStatus("pending")
  BY DEF HasStatus
<1>4. QED
  BY <1>1, <1>2, <1>3 DEF RecordedStatus, Statuses

\* A step that writes neither BatchRequest nor inference rows, and leaves the job alone, is
\* a stuttering step.
LEMMA LifecycleStutters ==
    ASSUME UNCHANGED <<log, inferences, provider>>
    PROVE  UNCHANGED <<RecordedStatus, Stored, Late>>
BY DEF RecordedStatus, HasStatus, Stored, Late

\* A job that is created is not late, and neither is one that is not there yet.
LEMMA CreatesIsNotLate ==
    ASSUME IInv, NEW b, SupportsBatch(b), Creates(b)
    PROVE  Late' = Late
<1>1. provider' = FirstState(b) /\ start = "creating"
  BY DEF Creates
<1>2. provider = "none"
  BY <1>1 DEF IInv, Job
<1>3. QED
  BY <1>1, <1>2, FirstStateIsPending DEF Late, LateStates

\* The batch is recorded: the lifecycle starts.
LEMMA WriteBatchRequestStarts ==
    ASSUME IInv, WriteBatchRequest
    PROVE  Lifecycle!Start
<1>1. start = "writing_request" /\ log = {}
  BY DEF IInv, Recorded, WriteBatchRequest
<1>2. RecordedStatus = "absent"
  BY <1>1, RecordedStatuses
<1>3. log' = {[ts |-> clock, status |-> "pending"]} /\ inferences' = inferences /\ Late' = Late
  BY <1>1 DEF WriteBatchRequest, Late
<1>4. HasStatus("pending")' /\ ~HasStatus("completed")' /\ ~HasStatus("failed")'
  BY <1>3 DEF HasStatus
<1>5. RecordedStatus' = "pending"
  BY <1>4 DEF RecordedStatus
<1>6. QED
  BY <1>2, <1>3, <1>5 DEF Lifecycle!Start

\* A job that was being cancelled finishes: nothing is stored or completed yet.
LEMMA ProviderMovesFinishesLate ==
    ASSUME IInv, ProviderMoves
    PROVE  Lifecycle!FinishLate \/ UNCHANGED <<RecordedStatus, Stored, Late>>
<1>1. PICK s \in Moves(backend, provider) : provider' = s
  BY DEF ProviderMoves
<1>2. provider # "none" /\ UNCHANGED <<log, inferences>>
  BY DEF ProviderMoves, tables
<1>3. SupportsBatch(backend) /\ provider \in JobStates(backend)
  BY <1>2 DEF IInv, Job
<1>4. Status # "completed" /\ ~Late
  BY <1>1, <1>2, <1>3, MovesAreFinal DEF Status, Late
<1>5. RecordedStatus # "completed"
  BY <1>4, RecordedStatuses
<1>6. Stored = {}
  BY <1>4 DEF IInv, Job, Written, Answered, Stored
<1>7. UNCHANGED <<RecordedStatus, Stored>>
  BY <1>2 DEF RecordedStatus, HasStatus, Stored
<1>8. Late' \in BOOLEAN /\ Late \in BOOLEAN
  BY DEF Late
<1>9. QED
  BY <1>4, <1>5, <1>6, <1>7, <1>8 DEF Lifecycle!FinishLate, Stored

\* Results are stored while the batch is open; a poll that was overtaken by the one that
\* completed it stores copies only.
LEMMA WriteInferencesStores ==
    ASSUME IInv, NEW p \in Pollers, WriteInferences(p)
    PROVE  Lifecycle!Store \/ UNCHANGED <<RecordedStatus, Stored, Late>>
<1>1. /\ poll[p] = "completing" /\ log' = log /\ Late' = Late
      /\ start = "answered" /\ got[p] = "completed" /\ rows = Inferences
  BY DEF IInv, Polls, Recorded, WriteInferences, Late
<1>2. Completing = Answered /\ Answered \subseteq Inferences
  BY <1>1, CompletingIsAnswered DEF Answered
<1>3. RecordedStatus' = RecordedStatus
  BY <1>1 DEF RecordedStatus, HasStatus
<1>4. Stored' = Stored \cup Answered
  <2>1. ASSUME NEW i \in Inferences
        PROVE  inferences'[i] > 0 <=> inferences[i] > 0 \/ i \in Answered
    <3>1. inferences'[i] = IF i \in Answered THEN Saturate(inferences[i]) ELSE inferences[i]
      BY <1>2 DEF WriteInferences
    <3>2. inferences[i] \in 0 .. MaxCopies
      BY DEF IInv, Written
    <3>3. Saturate(inferences[i]) > 0
      BY <3>2, SaturateBounds
    <3>4. QED
      BY <3>1, <3>3
  <2>2. QED
    BY <1>2, <2>1 DEF Stored
<1>5. HasStatus("failed") => Late
  BY <1>1, RecordedStatuses DEF IInv, Learned, Confirmed, Finished
<1>6. CASE HasStatus("completed")
  <2>1. ASSUME NEW i \in Answered PROVE i \in Stored
    <3>1. i \in Inferences /\ inferences[i] \in 0 .. MaxCopies /\ inferences[i] >= 1
      BY <1>2, <1>6 DEF IInv, Written, CompletedIsStored
    <3>2. QED
      BY <3>1, BatchAssumption DEF Stored
  <2>2. QED
    BY <1>1, <1>3, <1>4, <2>1
<1>7. CASE ~HasStatus("completed")
  <2>1. RecordedStatus = "pending" \/ (Late /\ RecordedStatus = "failed")
    BY <1>1, <1>5, <1>7, RecordedStatuses DEF Statuses
  <2>2. QED
    BY <1>1, <1>2, <1>3, <1>4, <2>1 DEF Lifecycle!Store, Lifecycle!Open, Stored
<1>8. QED
  BY <1>6, <1>7

\* The first row that says completed ends the lifecycle; so does the first that says failed,
\* unless the job finished late.
LEMMA InsertStatusEnds ==
    ASSUME IInv, NEW p \in Pollers, InsertStatus(p)
    PROVE  Lifecycle!Complete \/ Lifecycle!Fail \/ UNCHANGED <<RecordedStatus, Stored, Late>>
<1>1. /\ poll[p] = "inserting" /\ start = "answered"
      /\ log' = log \cup {row[p]} /\ inferences' = inferences /\ Late' = Late
      /\ row[p].status = got[p] /\ got[p] \in Statuses /\ Confirmed(got[p])
  BY DEF IInv, Polls, Learned, InsertStatus, Late
<1>2. Stored' = Stored
  BY <1>1 DEF Stored
<1>3. RecordedStatus \in Statuses
  BY <1>1, RecordedStatuses
<1>4. \A s : HasStatus(s)' <=> HasStatus(s) \/ s = got[p]
  BY <1>1 DEF HasStatus
<1>5. CASE got[p] = "pending"
  <2>1. HasStatus("pending")
    BY <1>1 DEF IInv, Recorded
  <2>2. RecordedStatus' = RecordedStatus
    BY <1>4, <1>5, <2>1 DEF RecordedStatus
  <2>3. QED
    BY <1>1, <1>2, <2>2
<1>6. CASE got[p] = "completed"
  <2>1. HasStatus("failed") => Late
    BY <1>1, <1>6, RecordedStatuses DEF Confirmed, Finished
  <2>2. RecordedStatus' = "completed"
    BY <1>4, <1>6 DEF RecordedStatus
  <2>3. RecordedStatus \in {"pending", "completed"} \/ (Late /\ RecordedStatus = "failed")
    BY <1>3, <2>1, RecordedStatuses DEF Statuses
  <2>4. QED
    BY <1>1, <1>2, <2>2, <2>3 DEF Lifecycle!Complete, Lifecycle!Open, Stored
<1>7. CASE got[p] = "failed" /\ ~HasStatus("completed")
  <2>1. RecordedStatus' = "failed"
    BY <1>4, <1>7 DEF RecordedStatus
  <2>2. RecordedStatus \in {"pending", "failed"}
    BY <1>3, <1>7, RecordedStatuses DEF Statuses
  <2>3. Stored = {} \/ Late
    <3>1. SUFFICES ASSUME ~Late PROVE Stored = {}
      OBVIOUS
    <3>2. Status = "failed"
      BY <1>1, <1>7, <3>1 DEF Confirmed
    <3>3. Answered = {}
      BY <3>2 DEF IInv, Job, Answered
    <3>4. \A i \in Inferences : inferences[i] = 0
      BY <3>3 DEF IInv, Written
    <3>5. QED
      BY <3>4 DEF Stored
  <2>4. QED
    BY <1>1, <1>2, <2>1, <2>2, <2>3 DEF Lifecycle!Fail, Stored
<1>8. CASE got[p] = "failed" /\ HasStatus("completed")
  <2>1. RecordedStatus' = RecordedStatus
    BY <1>4, <1>8 DEF RecordedStatus
  <2>2. QED
    BY <1>1, <1>2, <2>1
<1>9. QED
  BY <1>1, <1>5, <1>6, <1>7, <1>8 DEF Statuses

\* The batch endpoints implement the lifecycle a client may rely on: completed and failed
\* are final and exclude each other, results are stored only for a recorded batch that is
\* still pending, and a batch fails with nothing stored; all but the first of which end
\* when a job that was being cancelled finishes late.
THEOREM BatchesImplementLifecycle == Spec => ImplementsLifecycle
<1>1. Init => Lifecycle!Init
  <2>1. SUFFICES ASSUME Init PROVE Lifecycle!Init
    OBVIOUS
  <2>2. log = {} /\ (\A i \in Inferences : inferences[i] = 0) /\ provider = "none"
    BY <2>1 DEF Init
  <2>3. RecordedStatus = "absent" /\ Late = FALSE
    BY <2>2 DEF RecordedStatus, HasStatus, Late, LateStates
  <2>4. QED
    BY <2>2, <2>3 DEF Lifecycle!Init
<1>2. IInv /\ [Next]_vars => [Lifecycle!Next]_<<RecordedStatus, Stored, Late>>
  <2>1. SUFFICES ASSUME IInv, [Next]_vars, ~UNCHANGED <<RecordedStatus, Stored, Late>>
                 PROVE  Lifecycle!Next
    OBVIOUS
  <2>2. ~UNCHANGED <<log, inferences, provider>>
    BY <2>1, LifecycleStutters
  <2>3. CASE StartHandler
    <3>1. CASE WriteBatchRequest
      BY <2>1, <3>1, WriteBatchRequestStarts DEF Lifecycle!Next
    <3>2. CASE OpenAICreates \/ GCPVertexCreates
      <4>1. UNCHANGED <<log, inferences>> /\ Late' = Late
        <5>1. CASE Creates("openai")
          BY <2>1, <5>1, CreatesIsNotLate DEF Creates, SupportsBatch, tables
        <5>2. CASE Creates("gcp_vertex_gemini")
          BY <2>1, <5>2, CreatesIsNotLate DEF Creates, SupportsBatch, tables
        <5>3. QED
          BY <3>2, <5>1, <5>2 DEF OpenAICreates, GCPVertexCreates
      <4>2. QED
        BY <2>1, <4>1 DEF RecordedStatus, HasStatus, Stored
    <3>3. QED
      BY <2>2, <2>3, <3>1, <3>2 DEF StartHandler, StartAccept, StartRefused, StartSample,
         StartSampleFails, StartAllVariantsFailed, VariantPrepares, StartVariantFails,
         OpenAIUploads, GCPVertexUploads, Uploads, ProviderRefuses, WriteBatchModelInferences,
         tables
  <2>4. ASSUME NEW p \in Pollers, PollHandler(p) \/ PollAborts(p)
        PROVE  Lifecycle!Next
    <3>1. WriteInferences(p) \/ InsertStatus(p)
      BY <2>2, <2>4 DEF PollHandler, PollAborts, GetBatchRequest, PollProvider, OutputMissing,
         MissingResponse, WriteModels, StampStatus, ReadCompleted, tables
    <3>2. QED
      BY <2>1, <3>1, WriteInferencesStores, InsertStatusEnds DEF Lifecycle!Next
  <2>5. CASE ProviderMoves
    BY <2>1, <2>5, ProviderMovesFinishesLate DEF Lifecycle!Next
  <2>6. ~(StartAborts \/ Tick \/ NoBatch \/ UNCHANGED vars)
    BY <2>2 DEF StartAborts, Tick, NoBatch, vars, tables
  <2>7. QED
    BY <2>1, <2>3, <2>4, <2>5, <2>6 DEF Next
<1>3. QED
  BY <1>1, <1>2, Invariance, PTL DEF Spec, ImplementsLifecycle, Lifecycle!Spec, Stored

=============================================================================
