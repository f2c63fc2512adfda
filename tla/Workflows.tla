------------------------------- MODULE Workflows -------------------------------
(***************************************************************************)
(* The offline workflows over one ClickHouse database: a client edits a    *)
(* dataset, the evaluations runner evaluates a function on it while the    *)
(* client goes on, and an optimization trains a model on stored            *)
(* inferences.  The optimization reads neither the dataset nor the rows of *)
(* a run in progress, so it is checked beside them and not in step with    *)
(* them: a behaviour is of one workflow.                                   *)
(***************************************************************************)
EXTENDS Evaluations, Optimization

CONSTANTS
    InitialRows,   \* datasets that earlier requests may have left
    HumanScores    \* the scores people may have given outputs of earlier runs

ASSUME WorkflowsAssumption ==
    /\ InitialRows \subseteq [Keys -> Seq(Versions)]
    /\ \A r \in InitialRows, k \in Keys : InsertedInTime(r[k])
    /\ HumanScores \subseteq SUBSET [evaluator : Evaluators, id : Ids, output : Outputs, value : {0, 1}]

VARIABLE workflow  \* "datasets", "evaluation" or "optimization"

vars == <<workflow, datasetVars, evaluationVars, optimizationVars>>

\* The requests that made these rows have been answered; one more may come during the run.
EarlierRequests ==
    /\ rows \in InitialRows
    /\ now = MaxNow
    /\ edit = Idle
    /\ edits = MaxEdits - 1
    /\ acked = [k \in Keys |-> Visible(k)]

Init ==
    \/ /\ workflow = "datasets"
       /\ DatasetsInit /\ NoRun /\ NoRequest
    \/ /\ workflow = "evaluation"
       /\ EarlierRequests /\ NoRun /\ NoRequest
    \/ /\ workflow = "optimization"
       /\ DatasetsInit /\ NoRun /\ OptimizationInit

(***************************************************************************)
(* The request that overlaps a run is the one that touches every datapoint *)
(* the run reads.  The runner reads the dataset once, so what happens to   *)
(* it afterwards is left out.                                              *)
(***************************************************************************)
EditDataset ==
    /\ workflow = "datasets" \/ (workflow = "evaluation" /\ run = "loading")
    /\ DatasetsNext
    /\ workflow = "evaluation" => (edit = Idle => edit'.op = "stale")
    /\ UNCHANGED <<workflow, evaluationVars, optimizationVars>>

Evaluate ==
    /\ workflow = "evaluation"
    /\ EvaluationsNext \/ \E scores \in HumanScores : StartEvaluation(scores)
    /\ UNCHANGED <<workflow, datasetVars, optimizationVars>>

\* The gateway writes the feedback it has answered; the runner does not wait for it.
WriteFeedback ==
    /\ workflow = "evaluation"
    /\ \E row \in feedback.writing : FeedbackIsWritten(row)
    /\ UNCHANGED <<workflow, datasetVars, optimizationVars>>

Optimize ==
    /\ workflow = "optimization"
    /\ OptimizationNext
    /\ UNCHANGED <<workflow, datasetVars, evaluationVars>>

Next == EditDataset \/ Evaluate \/ WriteFeedback \/ Optimize

(***************************************************************************)
(* Fairness: the runner's tasks are scheduled and the gateway answers or   *)
(* refuses every request; the caller polls again after every poll, each of *)
(* its calls returns, and the provider ends its jobs and deployments.      *)
(***************************************************************************)
Fairness ==
    /\ WF_vars(Evaluate)
    /\ \A p \in 1..MaxPolls :
          WF_vars((StartPoll(p) \/ PollJob(p) \/ GetModel(p) \/ Deploy(p))
                    /\ UNCHANGED <<workflow, datasetVars, evaluationVars>>)
    /\ WF_vars((JobEnds \/ ModelIsNamed \/ DeploymentProceeds)
                    /\ UNCHANGED <<workflow, datasetVars, evaluationVars>>)

Spec == Init /\ [][Next]_vars /\ Fairness
===============================================================================
