------------------------------ MODULE Optimization ------------------------------
(***************************************************************************)
(* Fine-tuning (endpoints/optimization.rs, optimization/, query_builder).  *)
(* The workflow lists stored inferences with a filter, renders them,       *)
(* splits them into a training and a validation set, uploads both to the   *)
(* provider concurrently and creates a job.  The caller then polls the job *)
(* until it has ended; a Fireworks model must also be deployed, which the  *)
(* polls do.                                                               *)
(*                                                                         *)
(* An inference is a record: its output, whether its input can be          *)
(* rendered, whether it asked for parallel tool calls, the values each     *)
(* metric was given in time order, and its demonstrations likewise.        *)
(***************************************************************************)
EXTENDS Integers, Sequences, FiniteSets

CONSTANTS
    Corpora,    \* what the database may hold: functions from inference ids to inferences
    Requests,   \* the requests: optimizer, filter, source, limit, order, val_fraction, via
    Missing,    \* no value
    MaxPolls,   \* bound: concurrent polls
    MaxFaults   \* bound: failures of provider calls, over a behaviour

ASSUME OptimizationAssumption ==
    /\ MaxPolls \in Nat \ {0}
    /\ MaxFaults \in Nat
    /\ \A r \in Requests :
          /\ r.optimizer \in {"fireworks", "together", "openai", "gcp"}
          /\ r.via \in {"workflow", "samples"}
          /\ \A i \in DOMAIN r.filter : r.filter[i].kind \in {"metric", "and", "or", "not"}
    /\ \A c \in Corpora : \A S \in SUBSET (DOMAIN c) : S # Missing

VARIABLES
    stored,   \* the database's inferences
    request,  \* the request being handled
    launch,   \* the launch: its phase, and the examples in each set
    files,    \* the provider's copies of the two sets: state and rows
    job,      \* the provider's job: its state, its files and its model
    deployed, \* the provider's default deployments of the model
    polls,    \* the polls in progress
    answers,  \* what polls have answered
    faults    \* provider calls that failed so far

optimizationVars == <<stored, request, launch, files, job, deployed, polls, answers, faults>>

Splits == {"train", "val"}

(***************************************************************************)
(* The filter (to_clickhouse_sql).  A filter tree is a sequence of nodes,  *)
(* children before parents.  A leaf compares the latest value a metric has *)
(* for the inference, found through a LEFT JOIN.  The connection does not  *)
(* set join_use_nulls, so a row without a match holds the column's         *)
(* default, 0, and not NULL.                                               *)
(***************************************************************************)
Latest(values) == IF values = << >> THEN Missing ELSE values[Len(values)]

\* LEFT JOIN (SELECT target_id, argMax(value, timestamp) ... GROUP BY target_id)
JoinedValue(inf, metric) == IF inf.metrics[metric] = << >> THEN 0 ELSE Latest(inf.metrics[metric])

Compare(op, a, b) ==
    CASE op = "<" -> a < b [] op = "<=" -> a <= b [] op = "=" -> a = b
      [] op = ">" -> a > b [] op = ">=" -> a >= b [] op = "!=" -> a # b

\* The truth values of the nodes follow from the leaves; the last node is the filter.
Filter(tree, inf) ==
    tree = << >> \/ \E holds \in [DOMAIN tree -> BOOLEAN] :
        /\ holds[Len(tree)]
        /\ \A i \in DOMAIN tree : holds[i] =
             CASE tree[i].kind = "metric" -> Compare(tree[i].op, JoinedValue(inf, tree[i].metric), tree[i].value)
               [] tree[i].kind = "and" -> \A c \in tree[i].children : holds[c]
               [] tree[i].kind = "or"  -> \E c \in tree[i].children : holds[c]
               [] tree[i].kind = "not" -> \A c \in tree[i].children : ~holds[c]

(***************************************************************************)
(* generate_list_inferences_sql.  With demonstrations as the source an     *)
(* inference without one is not listed, and the latest one is its output.  *)
(* LIMIT keeps a prefix of the requested order; without ORDER BY, and      *)
(* among equals, any.                                                      *)
(***************************************************************************)
Output(inf) == IF request.source = "demonstration" THEN Latest(inf.demonstrations) ELSE inf.output

Matching ==
    {i \in DOMAIN stored : /\ Filter(request.filter, stored[i])
                           /\ request.source = "demonstration" => stored[i].demonstrations # << >>}

Precedes(i, j) ==
    LET a == JoinedValue(stored[i], request.order.metric)
        b == JoinedValue(stored[j], request.order.metric)
    IN  CASE request.order.direction = "none" -> FALSE
          [] request.order.direction = "desc" -> a > b
          [] request.order.direction = "asc"  -> a < b

Listings ==
    {S \in SUBSET Matching :
        /\ Cardinality(S) = Cardinality(Matching) \/ Cardinality(S) = request.limit
        /\ Cardinality(S) <= request.limit
        /\ \A i \in S, j \in Matching \ S : ~Precedes(j, i)}

(***************************************************************************)
(* render_samples drops, with only a log line, what cannot be resolved or  *)
(* rendered; the workflow then drops examples without an output.           *)
(***************************************************************************)
Renderable(i) == stored[i].renderable
RenderSamples(S) == {i \in S : Renderable(i)}
WithOutput(S) == {i \in S : Output(stored[i]) # Missing}

(***************************************************************************)
(* split_examples: a fraction outside (0, 1) is refused, the examples are  *)
(* shuffled and the first round(n * fraction) of them validate.            *)
(***************************************************************************)
ValCount(n, fraction) == (2 * n * fraction[1] + fraction[2]) \div (2 * fraction[2])

InvalidFraction(fraction) ==
    fraction # Missing /\ (fraction[1] <= 0 \/ fraction[1] >= fraction[2])

SplitExamples(S) ==
    IF request.val_fraction = Missing THEN {[train |-> S, val |-> Missing]}
    ELSE {[train |-> S \ V, val |-> V] :
             V \in {W \in SUBSET S : Cardinality(W) = ValCount(Cardinality(S), request.val_fraction)}}

(***************************************************************************)
(* The conversion of an example to a row of the provider's file.  None     *)
(* takes an example without output; Fireworks and Together take none that  *)
(* asked for parallel tool calls.  One refused example fails the launch.   *)
(***************************************************************************)
WithoutOutput(i) == Output(stored[i]) \in {Missing, "empty"}

FireworksRefuses(i) == stored[i].parallel \/ WithoutOutput(i)
TogetherRefuses(i) == stored[i].parallel \/ WithoutOutput(i)
OpenAIRefuses(i) == WithoutOutput(i)
GCPRefuses(i) == WithoutOutput(i)

RowIsRefused(i) ==
    CASE request.optimizer = "fireworks" -> FireworksRefuses(i)
      [] request.optimizer = "together"  -> TogetherRefuses(i)
      [] request.optimizer = "openai"    -> OpenAIRefuses(i)
      [] request.optimizer = "gcp"       -> GCPRefuses(i)

(***************************************************************************)
(* What the states of a provider's job mean to a poll.                     *)
(***************************************************************************)
FireworksStates ==
    [pending |-> {"creating", "pending", "running", "writing_results", "validating", "rollout",
                  "evaluation", "unspecified", "policy_update"},
     failed |-> {"failed", "failed_cleaning_up", "cancelled", "deleting", "deleting_cleaning_up"}]

TogetherStates ==
    [pending |-> {"pending", "queued", "running", "compressing", "uploading"},
     failed |-> {"cancel_requested", "cancelled", "user_error", "error"}]

OpenAIStates ==
    [pending |-> {"validating_files", "queued", "running"}, failed |-> {"failed", "cancelled"}]

GCPStates ==
    [pending |-> {"unspecified", "queued", "pending", "running", "paused", "updating"},
     failed |-> {"failed", "cancelling", "cancelled", "expired", "partially_succeeded"}]

JobStates ==
    CASE request.optimizer = "fireworks" -> FireworksStates
      [] request.optimizer = "together"  -> TogetherStates
      [] request.optimizer = "openai"    -> OpenAIStates
      [] request.optimizer = "gcp"       -> GCPStates

\* A completed job that names no model is an error.
OptimizerStatus(state, model) ==
    CASE state \in JobStates.pending -> "Pending"
      [] state \in JobStates.failed -> "Failed"
      [] state = "completed" -> IF model THEN "Completed" ELSE "Error"

(***************************************************************************)
(* Launching                                                               *)
(***************************************************************************)
Launch(split) == launch' = [phase |-> "converting", train |-> split.train, val |-> split.val]

\* launch_optimization_workflow
ListInferences ==
    /\ launch.phase = "listing" /\ request.via = "workflow"
    /\ \E S \in Listings :
           IF InvalidFraction(request.val_fraction)
           THEN launch' = [launch EXCEPT !.phase = "error"]
           ELSE \E split \in SplitExamples(WithOutput(RenderSamples(S))) : Launch(split)
    /\ UNCHANGED <<stored, request, files, job, deployed, polls, answers, faults>>

\* launch_optimization: the caller sends any two lists of rendered samples, or one.
LaunchOptimization ==
    /\ launch.phase = "listing" /\ request.via = "samples"
    /\ LET lists == SUBSET RenderSamples(DOMAIN stored)
       IN  \E train \in lists, val \in lists \cup {Missing} : Launch([train |-> train, val |-> val])
    /\ UNCHANGED <<stored, request, files, job, deployed, polls, answers, faults>>

WantedSplits == IF launch.val = Missing THEN {"train"} ELSE Splits
Examples(split) == IF split = "train" THEN launch.train ELSE launch.val

ConvertRows ==
    /\ launch.phase = "converting"
    /\ launch' = [launch EXCEPT !.phase =
           IF \E split \in WantedSplits : \E i \in Examples(split) : RowIsRefused(i)
           THEN "error" ELSE "uploading"]
    /\ UNCHANGED <<stored, request, files, job, deployed, polls, answers, faults>>

(***************************************************************************)
(* The uploads of the two sets, concurrently.  Fireworks takes three       *)
(* calls: the dataset is created, its rows are uploaded, and its state is  *)
(* read until it is READY.  The others take one.                           *)
(***************************************************************************)
FireworksUpload == <<"none", "created", "processing", "ready">>
SingleUpload == <<"none", "ready">>
UploadSteps == IF request.optimizer = "fireworks" THEN FireworksUpload ELSE SingleUpload

NextStep(state) ==
    LET i == CHOOSE i \in DOMAIN UploadSteps : UploadSteps[i] = state
    IN  UploadSteps[i + 1]

Upload(split) ==
    /\ launch.phase = "uploading"
    /\ split \in WantedSplits /\ files[split].state # "ready"
    /\ files' = [files EXCEPT ![split] =
           [state |-> NextStep(@.state),
            rows |-> IF @.state \in {"created", "none"} THEN Examples(split) ELSE @.rows]]
    /\ UNCHANGED <<stored, request, launch, job, deployed, polls, answers, faults>>

\* try_join: the first error ends the launch, and the other upload with it.
UploadFails ==
    /\ launch.phase = "uploading" /\ faults < MaxFaults
    /\ launch' = [launch EXCEPT !.phase = "error"]
    /\ faults' = faults + 1
    /\ UNCHANGED <<stored, request, files, job, deployed, polls, answers>>

\* The launch goes on with the first upload that ends.
UploadsDone_Either == \E split \in WantedSplits : files[split].state = "ready"

(***************************************************************************)
(* The job is created from the two files.  When the call fails the caller  *)
(* gets no handle, though the provider may have created the job.           *)
(***************************************************************************)
UploadsDone == \A split \in WantedSplits : files[split].state = "ready"

NewJob == [state |-> CHOOSE state \in JobStates.pending : TRUE, files |-> WantedSplits, model |-> FALSE]

CreateJob ==
    /\ launch.phase = "uploading" /\ UploadsDone
    /\ \/ /\ launch' = [launch EXCEPT !.phase = "launched"]
          /\ job' = NewJob
          /\ faults' = faults
       \/ /\ faults < MaxFaults
          /\ launch' = [launch EXCEPT !.phase = "error"]
          /\ job' \in {job, NewJob}
          /\ faults' = faults + 1
    /\ UNCHANGED <<stored, request, files, deployed, polls, answers>>

(***************************************************************************)
(* The provider's job and deployments (external).  A job moves between the *)
(* states in which it is at work and then ends in one of the others; when  *)
(* it completed it names its model, at once or a little later.             *)
(***************************************************************************)
JobMoves ==
    /\ job.state # "none" /\ job.state \in JobStates.pending
    /\ \E state \in JobStates.pending : job' = [job EXCEPT !.state = state]
    /\ UNCHANGED <<stored, request, launch, files, deployed, polls, answers, faults>>

JobEnds ==
    /\ job.state # "none" /\ job.state \in JobStates.pending
    /\ \/ \E state \in JobStates.failed : job' = [job EXCEPT !.state = state]
       \/ \E named \in BOOLEAN : job' = [job EXCEPT !.state = "completed", !.model = named]
    /\ UNCHANGED <<stored, request, launch, files, deployed, polls, answers, faults>>

ModelIsNamed ==
    /\ job.state = "completed" /\ ~job.model
    /\ job' = [job EXCEPT !.model = TRUE]
    /\ UNCHANGED <<stored, request, launch, files, deployed, polls, answers, faults>>

DeploymentProceeds ==
    /\ \E i \in DOMAIN deployed :
          /\ deployed[i] = "deploying"
          /\ deployed' = [deployed EXCEPT ![i] = "deployed"]
    /\ UNCHANGED <<stored, request, launch, files, job, polls, answers, faults>>

(***************************************************************************)
(* Polling                                                                 *)
(***************************************************************************)
Answered(status) == answers' = answers \cup {status}
Done(p) == polls' = [polls EXCEPT ![p] = "idle"]

StartPoll(p) ==
    /\ launch.phase = "launched" /\ polls[p] = "idle"
    /\ polls' = [polls EXCEPT ![p] = "job"]
    /\ UNCHANGED <<stored, request, launch, files, job, deployed, answers, faults>>

\* The job's state is read; a Fireworks job that completed has its model looked up next.
PollJob(p) ==
    /\ polls[p] = "job"
    /\ IF request.optimizer = "fireworks" /\ job.state = "completed" /\ job.model
       THEN polls' = [polls EXCEPT ![p] = "model"] /\ answers' = answers
       ELSE Done(p) /\ Answered(OptimizerStatus(job.state, job.model))
    /\ UNCHANGED <<stored, request, launch, files, job, deployed, faults>>

\* A deployment that was asked for counts as done.
DeploymentStatus_Asked(state) == "Completed"

(***************************************************************************)
(* deploy_or_poll_model: the state of the model's default deployment, or,  *)
(* if it has none, a request to create one.                                *)
(***************************************************************************)
DeploymentStatus(state) == IF state = "deployed" THEN "Completed" ELSE "Pending"

GetModel(p) ==
    /\ polls[p] = "model"
    /\ IF deployed = << >>
       THEN polls' = [polls EXCEPT ![p] = "deploy"] /\ answers' = answers
       ELSE Done(p) /\ Answered(DeploymentStatus(deployed[1]))
    /\ UNCHANGED <<stored, request, launch, files, job, deployed, faults>>

\* A poll reports a deployment it never asks for.
Deploy_Never(p) ==
    /\ polls[p] = "deploy"
    /\ Answered("Pending")
    /\ Done(p)
    /\ UNCHANGED <<stored, request, launch, files, job, deployed, faults>>

Deploy(p) ==
    /\ polls[p] = "deploy"
    /\ \E state \in {"deploying", "deployed"} :
          /\ deployed' = Append(deployed, state)
          /\ Answered(DeploymentStatus(state))
    /\ Done(p)
    /\ UNCHANGED <<stored, request, launch, files, job, faults>>

\* Any of a poll's calls may fail; the caller polls again.
PollFails(p) ==
    /\ polls[p] # "idle" /\ faults < MaxFaults
    /\ Done(p)
    /\ Answered("Error")
    /\ faults' = faults + 1
    /\ UNCHANGED <<stored, request, launch, files, job, deployed>>

Idling ==
    /\ launch = [phase |-> "listing", train |-> {}, val |-> Missing]
    /\ files = [split \in Splits |-> [state |-> "none", rows |-> {}]]
    /\ job = [state |-> "none", files |-> {}, model |-> FALSE]
    /\ deployed = << >>
    /\ polls = [p \in 1..MaxPolls |-> "idle"]
    /\ answers = {}
    /\ faults = 0

NoRequest == stored = << >> /\ request = Missing /\ Idling

OptimizationInit == stored \in Corpora /\ request \in Requests /\ Idling

Launching ==
    \/ ListInferences
    \/ LaunchOptimization
    \/ ConvertRows
    \/ \E split \in Splits : Upload(split)
    \/ UploadFails
    \/ CreateJob

Provider == JobMoves \/ JobEnds \/ ModelIsNamed \/ DeploymentProceeds

Poll(p) == StartPoll(p) \/ PollJob(p) \/ GetModel(p) \/ Deploy(p) \/ PollFails(p)

OptimizationNext == Launching \/ Provider \/ \E p \in 1..MaxPolls : Poll(p)

(***************************************************************************)
(* A filter, on the values the metrics were given last.                    *)
(***************************************************************************)
Metrics(tree) == {tree[i].metric : i \in {k \in DOMAIN tree : tree[k].kind = "metric"}}

Meets(tree, inf) ==
    tree = << >> \/ \E holds \in [DOMAIN tree -> BOOLEAN] :
        /\ holds[Len(tree)]
        /\ \A i \in DOMAIN tree : holds[i] =
             CASE tree[i].kind = "metric" -> Compare(tree[i].op, Latest(inf.metrics[tree[i].metric]), tree[i].value)
               [] tree[i].kind = "and" -> \A c \in tree[i].children : holds[c]
               [] tree[i].kind = "or"  -> \E c \in tree[i].children : holds[c]
               [] tree[i].kind = "not" -> \A c \in tree[i].children : ~holds[c]

(***************************************************************************)
(* A job trains on what it was launched for: its files are complete when   *)
(* it is created and each holds all of its examples.  The workflow's job   *)
(* has a validation file exactly when a fraction was asked for, no example *)
(* is in both of its files, and every example that has a value for each    *)
(* metric of the filter met the filter.                                    *)
(***************************************************************************)
JobHasItsExamples ==
    job.state # "none" =>
        /\ \A split \in job.files : files[split].state = "ready" /\ files[split].rows = Examples(split)
        /\ request.via = "workflow" =>
              /\ files["train"].rows \cap files["val"].rows = {}
              /\ ("val" \in job.files) <=> (request.val_fraction # Missing)
              /\ \A i \in files["train"].rows \cup files["val"].rows :
                    (\A m \in Metrics(request.filter) : stored[i].metrics[m] # << >>) =>
                        Meets(request.filter, stored[i])

(***************************************************************************)
(* Completed is only answered when the model can be used: the provider's   *)
(* job completed and, at Fireworks, a deployment of the model is up.       *)
(***************************************************************************)
CompletedIsServed ==
    "Completed" \in answers =>
        /\ job.state = "completed" /\ job.model
        /\ request.optimizer = "fireworks" => \E i \in DOMAIN deployed : deployed[i] = "deployed"

(***************************************************************************)
(* A caller that keeps polling learns how its job ended, the deployment    *)
(* that a Fireworks model needs included: the polls themselves start it.   *)
(***************************************************************************)
EndIsReported ==
    (launch.phase = "launched") ~> ({"Completed", "Failed"} \cap answers # {})
===============================================================================
