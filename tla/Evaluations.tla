------------------------------ MODULE Evaluations ------------------------------
(***************************************************************************)
(* The evaluations runner (evaluations/src): it reads a dataset once,      *)
(* starts a task for every datapoint, and in each task asks the gateway    *)
(* for an inference, runs every evaluator on the answer concurrently and   *)
(* sends each score back to the gateway as feedback on that inference,     *)
(* which the gateway answers before the row is stored.                     *)
(* Inference requests, those of the tasks and those of the LLM judges      *)
(* alike, share one semaphore.  When all tasks have ended the runner takes *)
(* the mean of each evaluator and compares it with its cutoff.             *)
(*                                                                         *)
(* A datapoint's output and an answer are members of Outputs.  The member  *)
(* "bad" is an output that cannot be serialized for a judge: a JSON output *)
(* that did not parse, or a chat output of unknown blocks only.  A score   *)
(* is 0 or 1.                                                              *)
(***************************************************************************)
EXTENDS Datasets

CONSTANTS
    EvaluatedFunction, \* the function of the evaluation
    Evaluators,     \* the evaluators of the evaluation
    Config,         \* Config[e]: type, cutoff, optimize, input_format, reference_output
    InputKind,      \* InputKind[d]: "text", "file" (needs the messages format) or "unknown"
    Concurrency,    \* permits of the semaphore
    OutputFormat,   \* cutoffs are only checked with "pretty", not with "jsonl"
    NoCutoff,       \* an evaluator without a cutoff
    MaxLost         \* bound: the inserts of feedback that fail

ASSUME EvaluationsAssumption ==
    /\ EvaluatedFunction \in FunctionNames
    /\ Concurrency \in Nat \ {0} /\ MaxLost \in Nat
    /\ IsFiniteSet(Ids) /\ None \notin {0, 1}
    /\ \A e \in Evaluators : Config[e].cutoff \in Nat \cup {NoCutoff}
    /\ InputKind \in [Ids -> {"text", "file", "unknown"}]

VARIABLES
    run,        \* "none", "loading", "running", or how the run ended
    reference,  \* the datapoints that were read, with their outputs
    task,       \* task[d]: where the task of datapoint d is
    answer,     \* answer[d]: the output of the inference made for d
    evaluator,  \* evaluator[d][e]: where evaluator e is, with the score it found
    human,      \* StaticEvaluationHumanFeedback: [evaluator, id, output, value]
    feedback    \* the metric rows [id, evaluator, value] of this run: those stored, those being
                \* written and those whose insert failed (not in the code)

evaluationVars == <<run, reference, task, answer, evaluator, human, feedback>>

Pending(state) == [state |-> state, value |-> None]
Scored(state, value) == [state |-> state, value |-> value]
Failed == Pending("error")
ToSend(value) == Scored("sending", value)
\* A result that carries no value is not sent as feedback.
Result(value) == IF value = None THEN Scored("done", None) ELSE ToSend(value)

\* The task keeps its permit until its evaluators are done.
HoldsPermit_ToTheEnd(d) == task[d] \in {"inferring", "evaluating"}

(***************************************************************************)
(* The permits in use.  A task holds one only while its own inference      *)
(* request is open, a judge only while the judge's is.                     *)
(***************************************************************************)
HoldsPermit(d) == task[d] = "inferring"
PermitsInUse ==
    Cardinality({d \in Ids : HoldsPermit(d)})
      + Cardinality({p \in Ids \X Evaluators : evaluator[p[1]][p[2]].state = "judging"})

MayInfer == PermitsInUse < Concurrency

(***************************************************************************)
(* query_dataset, and the tasks that are spawned for what it returned.     *)
(***************************************************************************)
QueryDataset ==
    /\ run = "loading"
    /\ LET found == ListDatapoints(EvaluatedFunction)
       IN /\ reference' = [d \in found |-> Visible(<<EvaluatedFunction, d>>).output]
          /\ task' = [d \in Ids |-> IF d \in found THEN "started" ELSE "none"]
    /\ run' = "running"
    /\ UNCHANGED <<answer, evaluator, human, feedback>>

QueryFails ==
    /\ run = "loading"
    /\ run' = "error"
    /\ UNCHANGED <<reference, task, answer, evaluator, human, feedback>>

(***************************************************************************)
(* resolved_input_to_client_input fetches the input's files; the task ends *)
(* with an error when it cannot.                                           *)
(***************************************************************************)
ResolveInput(d) ==
    /\ task[d] = "started"
    /\ task' \in {[task EXCEPT ![d] = "waiting"]} \cup
                 (IF InputKind[d] = "file" THEN {[task EXCEPT ![d] = "error"]} ELSE {})
    /\ UNCHANGED <<run, reference, answer, evaluator, human, feedback>>

(***************************************************************************)
(* infer_datapoint: the request waits for a permit and gives it back with  *)
(* the answer.                                                             *)
(***************************************************************************)
SendInference(d) ==
    /\ task[d] = "waiting"
    /\ MayInfer
    /\ task' = [task EXCEPT ![d] = "inferring"]
    /\ UNCHANGED <<run, reference, answer, evaluator, human, feedback>>

Infer(d, out) ==
    /\ task[d] = "inferring"
    /\ task' = [task EXCEPT ![d] = "evaluating"]
    /\ answer' = [answer EXCEPT ![d] = out]
    /\ evaluator' = [evaluator EXCEPT ![d] = [e \in Evaluators |-> Pending("started")]]
    /\ UNCHANGED <<run, reference, human, feedback>>

InferFails(d) ==
    /\ task[d] = "inferring"
    /\ task' = [task EXCEPT ![d] = "error"]
    /\ UNCHANGED <<run, reference, answer, evaluator, human, feedback>>

(***************************************************************************)
(* The evaluators of a task, concurrently.                                 *)
(***************************************************************************)
SetEvaluator(d, e, state) ==
    evaluator' = [evaluator EXCEPT ![d][e] = state]

\* run_exact_match_evaluator; a reference that did not parse gives no score.
ExactMatch(d) ==
    IF reference[d] = None \/ (Table[EvaluatedFunction] = "json" /\ reference[d] = "bad") THEN None
    ELSE IF answer[d] = reference[d] THEN 1 ELSE 0

RunExactMatch(d, e) ==
    /\ evaluator[d][e].state = "started" /\ Config[e].type = "exact_match"
    /\ SetEvaluator(d, e, Result(ExactMatch(d)))
    /\ UNCHANGED <<run, reference, task, answer, human, feedback>>

(***************************************************************************)
(* check_static_eval_human_feedback: the score a person gave this very     *)
(* output of this datapoint, if there is one, replaces the judge.          *)
(***************************************************************************)
HumanFeedback(d, e) ==
    {h \in human : h.evaluator = e /\ h.id = d /\ h.output = answer[d]}

(***************************************************************************)
(* prepare_llm_judge_input.  An answer or an input that cannot be          *)
(* serialized is an error; a missing reference is no score at all.         *)
(***************************************************************************)
PrepareJudgeInput(d, e) ==
    LET missing == Config[e].reference_output /\ reference[d] \in {None, "bad"}
        unserializable == \/ InputKind[d] = "unknown"
                          \/ InputKind[d] = "file" /\ Config[e].input_format = "serialized"
    IN  IF answer[d] = "bad" THEN Failed
        ELSE IF missing THEN Result(None)
        ELSE IF unserializable THEN Failed
        ELSE Pending("waiting")

RunJudge(d, e) ==
    /\ evaluator[d][e].state = "started" /\ Config[e].type = "llm_judge"
    /\ \/ \E h \in HumanFeedback(d, e) : SetEvaluator(d, e, ToSend(h.value))
       \/ /\ HumanFeedback(d, e) = {}
          /\ SetEvaluator(d, e, PrepareJudgeInput(d, e))
       \/ SetEvaluator(d, e, Failed)   \* the query failed
    /\ UNCHANGED <<run, reference, task, answer, human, feedback>>

SendJudge(d, e) ==
    /\ evaluator[d][e].state = "waiting"
    /\ MayInfer
    /\ SetEvaluator(d, e, Pending("judging"))
    /\ UNCHANGED <<run, reference, task, answer, human, feedback>>

\* The judge's answer holds a score, or it cannot be used.
JudgeAnswers(d, e) ==
    /\ evaluator[d][e].state = "judging"
    /\ \E state \in {ToSend(0), ToSend(1), Failed} : SetEvaluator(d, e, state)
    /\ UNCHANGED <<run, reference, task, answer, human, feedback>>

(***************************************************************************)
(* evaluate_inference sends a score as feedback on the inference.  The     *)
(* gateway spawns the insert (write_float, write_boolean) and answers.     *)
(* When the request fails, whether or not an insert was spawned, the       *)
(* evaluator ends with the error and not with the score.                   *)
(***************************************************************************)
FeedbackRow(d, e) == [id |-> d, evaluator |-> e, value |-> evaluator[d][e].value]

Spawned(row) == [feedback EXCEPT !.writing = @ \cup {row}]

SendFeedback(d, e) ==
    /\ evaluator[d][e].state = "sending"
    /\ feedback' = Spawned(FeedbackRow(d, e))
    /\ SetEvaluator(d, e, Scored("done", evaluator[d][e].value))
    /\ UNCHANGED <<run, reference, task, answer, human>>

\* The failed request is only logged.
FeedbackFails_Logged(d, e) ==
    /\ evaluator[d][e].state = "sending"
    /\ feedback' \in {feedback, Spawned(FeedbackRow(d, e))}
    /\ SetEvaluator(d, e, Scored("done", evaluator[d][e].value))
    /\ UNCHANGED <<run, reference, task, answer, human>>

FeedbackFails(d, e) ==
    /\ evaluator[d][e].state = "sending"
    /\ feedback' \in {feedback, Spawned(FeedbackRow(d, e))}
    /\ SetEvaluator(d, e, Failed)
    /\ UNCHANGED <<run, reference, task, answer, human>>

(***************************************************************************)
(* The spawned insert ends, on its own: the row is stored, or the insert   *)
(* failed, which nobody is told.                                           *)
(***************************************************************************)
FeedbackIsWritten(row) ==
    /\ row \in feedback.writing
    /\ \/ feedback' = [feedback EXCEPT !.writing = @ \ {row}, !.stored = @ \cup {row}]
       \/ /\ Cardinality(feedback.lost) < MaxLost
          /\ feedback' = [feedback EXCEPT !.writing = @ \ {row}, !.lost = @ \cup {row}]
    /\ UNCHANGED <<run, reference, task, answer, evaluator, human>>

(***************************************************************************)
(* join_next: the task's result is pushed to the run's statistics.         *)
(***************************************************************************)
Collect(d) ==
    /\ task[d] = "evaluating"
    /\ \A e \in Evaluators : evaluator[d][e].state \in {"done", "error"}
    /\ task' = [task EXCEPT ![d] = "collected"]
    /\ UNCHANGED <<run, reference, answer, evaluator, human, feedback>>

(***************************************************************************)
(* compute_stats: the values of an evaluator over the tasks that ended     *)
(* without an error; what has no value, or failed, is left out.            *)
(***************************************************************************)
Scores(e) ==
    {d \in Ids : task[d] = "collected" /\ evaluator[d][e].value # None}
Sum(e) == Cardinality({d \in Scores(e) : evaluator[d][e].value = 1})

(***************************************************************************)
(* check_evaluator_cutoffs, with the cutoff in percent.  The mean of no    *)
(* scores is 0.                                                            *)
(***************************************************************************)
FailsCutoff(e) ==
    LET count == Cardinality(Scores(e))
        cutoff == Config[e].cutoff * (IF count = 0 THEN 1 ELSE count)
    IN  /\ Config[e].cutoff # NoCutoff
        /\ IF Config[e].optimize = "max" THEN 100 * Sum(e) < cutoff ELSE 100 * Sum(e) > cutoff

Report ==
    /\ run = "running"
    /\ \A d \in Ids : task[d] \in {"none", "collected", "error"}
    /\ run' = IF OutputFormat = "pretty" /\ \E e \in Evaluators : FailsCutoff(e)
              THEN "failed" ELSE "passed"
    /\ UNCHANGED <<reference, task, answer, evaluator, human, feedback>>

NoRun ==
    /\ run = "none"
    /\ reference = << >>
    /\ task = [d \in Ids |-> "none"]
    /\ answer = [d \in Ids |-> None]
    /\ evaluator = [d \in Ids |-> [e \in Evaluators |-> Pending("none")]]
    /\ human = {}
    /\ feedback = [stored |-> {}, writing |-> {}, lost |-> {}]

\* run_evaluation, with the scores people have given the outputs of earlier runs.
StartEvaluation(scores) ==
    /\ run = "none"
    /\ run' = "loading"
    /\ human' = scores
    /\ UNCHANGED <<reference, task, answer, evaluator, feedback>>

EvaluatorStep(d, e) ==
    \/ RunExactMatch(d, e)
    \/ RunJudge(d, e)
    \/ SendJudge(d, e)
    \/ JudgeAnswers(d, e)
    \/ SendFeedback(d, e)
    \/ FeedbackFails(d, e)

TaskStep(d) ==
    \/ ResolveInput(d)
    \/ SendInference(d)
    \/ \E out \in Outputs : Infer(d, out)
    \/ InferFails(d)
    \/ \E e \in Evaluators : EvaluatorStep(d, e)
    \/ Collect(d)

EvaluationsNext ==
    \/ QueryDataset
    \/ QueryFails
    \/ \E d \in Ids : TaskStep(d)
    \/ Report

(***************************************************************************)
(* A report is of what is stored: every score it counts has its feedback   *)
(* row, on the inference made for that datapoint, in the database, unless  *)
(* the gateway is still writing it or could not; and once every row is     *)
(* written, a run that passed met its cutoffs, for every evaluator that    *)
(* scored anything, on the mean of the rows it was told of, whichever      *)
(* tasks, judges and feedback requests failed on the way.                  *)
(***************************************************************************)
ReportIsStored ==
    /\ run \in {"passed", "failed"} =>
          \A e \in Evaluators : \A d \in Scores(e) :
              /\ d \in DOMAIN reference
              /\ FeedbackRow(d, e) \in feedback.stored \cup feedback.writing \cup feedback.lost
    /\ (run = "passed" /\ OutputFormat = "pretty" /\ feedback.writing \cup feedback.lost = {}) =>
          \A e \in Evaluators :
              LET stored == {f \in feedback.stored : f.evaluator = e /\ evaluator[f.id][e].state = "done"}
                  mean == 100 * Cardinality({f \in stored : f.value = 1})
                  cutoff == Config[e].cutoff * Cardinality(stored)
              IN  (Config[e].cutoff # NoCutoff /\ stored # {}) =>
                      IF Config[e].optimize = "max" THEN mean >= cutoff ELSE mean <= cutoff

(***************************************************************************)
(* The run ends: tasks and judges that wait for each other's permits never *)
(* all wait at once, since no permit is held while waiting for another.    *)
(***************************************************************************)
RunEnds == (run = "loading") ~> (run \in {"passed", "failed", "error"})
===============================================================================
