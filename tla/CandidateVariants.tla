--------------------------- MODULE CandidateVariants ---------------------------
(***************************************************************************)
(* best_of_n_sampling and mixture_of_n variants over chat_completion, dicl  *)
(* and chain_of_thought candidates (variant/*.rs).                          *)
(*                                                                          *)
(* The candidates run concurrently, each under a timeout; those that        *)
(* succeed, in the order of the configuration, go to a judge (the evaluator *)
(* or the fuser), whose failure makes the gateway draw one of them.  The    *)
(* variant may have a timeout of its own, which drops all of it.            *)
(*                                                                          *)
(* A call is one successful request to a model or an embedding model: it is *)
(* what becomes a row of ModelInference, with its usage.                    *)
(***************************************************************************)
EXTENDS Integers, Sequences, SequencesExt, FiniteSets, Vectors

CONSTANTS N            \* the number of candidates

ASSUME CandidatesAssumption == N \in Nat \ {0}

VARIABLES request,   \* the variant and what the request asks of it
          candidate, \* of each candidate: its variant type, its phase, its output
          made,      \* the calls made so far
          judge,     \* what the judge was shown and what it said
          phase,     \* "candidates", "judge", then "answered", "failed" or "timed_out"
          answer     \* what the variant returns

candidatesVars == <<request, candidate, made, judge, phase, answer>>

Candidates == 1 .. N

\* Chain of thought is for JSON functions only (its `validate`).
Kinds(function) == {"chat_completion", "dicl"} \cup (IF function = "json" THEN {"chain_of_thought"} ELSE {})

\* A chat answer may hold a block the gateway does not know; the output of a JSON function
\* may fail to parse or to match its schema.
Outputs(function) == IF function = "json" THEN {"parsed", "unparsed"} ELSE {"known", "unknown"}

Over == {"done", "failed"}

NoJudge == [shown |-> <<>>, named |-> {}]
NoAnswer == [by |-> 0, calls |-> <<>>, streamed |-> FALSE, original |-> "none"]

TypeOK ==
    /\ request.top \in {"best_of_n", "mixture_of_n"} /\ request.function \in {"chat", "json"}
    /\ request.stream \in BOOLEAN /\ request.extra_body \in BOOLEAN /\ request.timeout \in BOOLEAN
    /\ \A i \in Candidates : candidate[i].phase \in {"running", "embedded", "prompted"} \cup Over
    /\ phase \in {"candidates", "judge", "answered", "failed", "timed_out"}
    /\ answer.by \in 0 .. (N + 1)

\* `timeout`: the variant has a timeout for the request, total_ms for a plain one and ttft_ms
\* for a stream.
CandidatesInit ==
    /\ request \in [top : {"best_of_n", "mixture_of_n"}, function : {"chat", "json"},
                    stream : BOOLEAN, extra_body : BOOLEAN, timeout : BOOLEAN]
    /\ candidate \in [Candidates -> [kind : Kinds(request.function), phase : {"running"}, output : {"none"}]]
    /\ made = {} /\ judge = NoJudge /\ phase = "candidates" /\ answer = NoAnswer

-----------------------------------------------------------------------------
(***************************************************************************)
(* The candidates                                                           *)
(***************************************************************************)
Model(i) == <<"model", i>>
Embedding(i) == <<"embedding", i>>
Judge == N + 1

\* DICL embeds the input ...
Embed(i) ==
    /\ phase = "candidates"
    /\ candidate[i].kind = "dicl" /\ candidate[i].phase = "running"
    /\ candidate' = [candidate EXCEPT ![i].phase = "embedded"]
    /\ made' = made \cup {Embedding(i)}
    /\ UNCHANGED <<request, judge, phase, answer>>

\* parse_raw_examples: one example with a file in it, or that does not parse, is an error.
ParseRawExamples(examples) == examples \subseteq {"usable"}

\* ... fetches its nearest examples, as many as there are ...
FetchExamples(i) ==
    /\ phase = "candidates"
    /\ candidate[i].kind = "dicl" /\ candidate[i].phase = "embedded"
    /\ \E examples \in {{}, {"usable"}, {"usable", "file"}, {"garbled"}} :
           candidate' = [candidate EXCEPT ![i].phase = IF ParseRawExamples(examples) THEN "prompted" ELSE "failed"]
    /\ UNCHANGED <<request, made, judge, phase, answer>>

\* ... and asks the model.  prepare_request of DICL refuses an inference-level extra_body;
\* chat completion and chain of thought pass it on.
MayAsk(i) ==
    IF candidate[i].kind = "dicl"
    THEN candidate[i].phase = "prompted" /\ ~request.extra_body
    ELSE candidate[i].phase = "running"

\* Retries are inside the call.  Chain of thought unwraps the response of an output that
\* parsed and leaves one that did not: either way the output keeps its kind.
ModelAnswers(i) ==
    /\ phase = "candidates" /\ MayAsk(i)
    /\ \E output \in Outputs(request.function) :
           candidate' = [candidate EXCEPT ![i] = [@ EXCEPT !.phase = "done", !.output = output]]
    /\ made' = made \cup {Model(i)}
    /\ UNCHANGED <<request, judge, phase, answer>>

\* VariantInfo::infer of the candidate: a template, the model, the embedding model or the query
\* for examples fails, or the timeout of the candidate or that of its variant passes, and its
\* future is dropped.
CandidateFails(i) ==
    /\ phase = "candidates" /\ candidate[i].phase \notin Over
    /\ candidate' = [candidate EXCEPT ![i].phase = "failed"]
    /\ UNCHANGED <<request, made, judge, phase, answer>>

\* model_inference_results of a result: the judge's one call, or those of the candidate.
Calls(i) ==
    IF i = Judge THEN <<Model(Judge)>>
    ELSE IF candidate[i].kind = "dicl" THEN <<Model(i), Embedding(i)>> ELSE <<Model(i)>>

-----------------------------------------------------------------------------
(***************************************************************************)
(* The judge                                                                *)
(***************************************************************************)
Succeeded == {i \in Candidates : candidate[i].phase = "done"}

\* infer_candidates: the results of the candidates that succeeded, in order.
Results == Select(N, Succeeded)

\* prepare_candidate_message of the evaluator, and the indices (from 0) of the results it skips:
\* an output of a JSON function that did not parse is not shown.
Unparsed == {k \in 1 .. Len(Results) : candidate[Results[k]].output = "unparsed"}
Included == Select(Len(Results), 1 .. Len(Results) \ Unparsed)
EvaluatorSees == [k \in 1 .. Len(Included) |-> Results[Included[k]]]
Skipped == LET skipped == Select(Len(Results), Unparsed) IN [k \in 1 .. Len(skipped) |-> skipped[k] - 1]

\* prepare_candidate_message of the fuser, which keeps the indices it includes.
FuserSees == [k \in 1 .. Len(Included) |-> Results[Included[k]]]

Shown == IF request.top = "best_of_n" THEN EvaluatorSees ELSE FuserSees

\* prepare_request of each fails on an inference-level extra_body; an empty choice is refused.
EvaluatorRequest == EvaluatorSees # <<>> /\ ~request.extra_body
FuserRequest == FuserSees # <<>> /\ ~request.extra_body

JudgeRequest == IF request.top = "best_of_n" THEN EvaluatorRequest ELSE FuserRequest

\* Mutant: a skipped index equal to the current one does not move it.
MapIndex_Strict(index, skipped) ==
    LET actual[k \in 0 .. Len(skipped)] ==
            IF k = 0 THEN index ELSE IF skipped[k] < actual[k - 1] THEN actual[k - 1] + 1 ELSE actual[k - 1]
    IN  actual[Len(skipped)]

\* map_evaluator_to_actual_index after k rounds, indices from 0, `skipped` in increasing order.
ActualIndex(index, skipped) ==
    LET actual[k \in 0 .. Len(skipped)] ==
            IF k = 0 THEN index ELSE IF skipped[k] <= actual[k - 1] THEN actual[k - 1] + 1 ELSE actual[k - 1]
    IN  actual

MapIndex(index, skipped) == ActualIndex(index, skipped)[Len(skipped)]

CallsOf(results) == Flatten([k \in 1 .. Len(results) |-> Calls(results[k])])

\* stream_inference_from_non_stream: the first call describes the stream, the others are the
\* previous ones; an unknown block cannot be streamed.
Streamed(result) ==
    IF candidate[result.by].output = "unknown"
    THEN phase' = "failed" /\ UNCHANGED answer
    ELSE phase' = "answered" /\ answer' = [result EXCEPT !.streamed = TRUE]

\* A result of a candidate is answered as it is, or as a stream of one chunk.
Return(result) ==
    IF request.stream THEN Streamed(result) ELSE phase' = "answered" /\ answer' = result

\* Candidate k of the results is returned; the calls of the others follow its own.
ReturnCandidate(k, judged) ==
    Return([by |-> Results[k], streamed |-> FALSE,
            calls |-> Calls(Results[k]) \o CallsOf(SwapRemove(Results, k))
                      \o (IF judged THEN Calls(Judge) ELSE <<>>),
            original |-> IF judged THEN "judge" ELSE "none"])

ReturnAny(judged) == \E k \in 1 .. Len(Results) : ReturnCandidate(k, judged)

CandidatesEnd == phase = "candidates" /\ \A i \in Candidates : candidate[i].phase \in Over

NoCandidate ==
    /\ CandidatesEnd /\ Results = <<>>
    /\ phase' = "failed"
    /\ UNCHANGED <<request, candidate, made, judge, answer>>

\* One result is returned untouched: no judge, and its own original_response.
OneCandidate ==
    /\ CandidatesEnd /\ Len(Results) = 1
    /\ Return([by |-> Results[1], streamed |-> FALSE, calls |-> Calls(Results[1]), original |-> "candidate"])
    /\ UNCHANGED <<request, candidate, made, judge>>

\* The judge cannot be asked: nothing to show it, or an inference-level extra_body.
CannotJudge ==
    /\ CandidatesEnd /\ Len(Results) > 1 /\ ~JudgeRequest
    /\ ReturnAny(FALSE)
    /\ UNCHANGED <<request, candidate, made, judge>>

\* The evaluator is not asked to choose from one.
OnlyOneShown ==
    /\ CandidatesEnd /\ Len(Results) > 1 /\ JudgeRequest
    /\ request.top = "best_of_n" /\ Len(Shown) = 1
    /\ ReturnCandidate(CHOOSE k \in 1 .. Len(Results) : Results[k] = Shown[1], FALSE)
    /\ judge' = [shown |-> Shown, named |-> {0}]
    /\ UNCHANGED <<request, candidate, made>>

AskJudge ==
    /\ CandidatesEnd /\ Len(Results) > 1 /\ JudgeRequest
    /\ request.top = "best_of_n" => Len(Shown) > 1
    /\ judge' = [shown |-> Shown, named |-> {}]
    /\ phase' = "judge"
    /\ UNCHANGED <<request, candidate, made, answer>>

\* The evaluator names an index; one that is out of bounds after the mapping is no answer.
EvaluatorNames ==
    /\ phase = "judge" /\ request.top = "best_of_n"
    /\ \E index \in 0 .. N :
           LET actual == MapIndex(index, Skipped) IN
           /\ judge' = [judge EXCEPT !.named = {index}]
           /\ IF actual < Len(Results) THEN ReturnCandidate(actual + 1, TRUE) ELSE ReturnAny(TRUE)
    /\ made' = made \cup {Model(Judge)}
    /\ UNCHANGED <<request, candidate>>

\* It answers with no text, no JSON, or no integer: the call is kept.
EvaluatorBabbles ==
    /\ phase = "judge" /\ request.top = "best_of_n"
    /\ ReturnAny(TRUE)
    /\ made' = made \cup {Model(Judge)}
    /\ UNCHANGED <<request, candidate, judge>>

\* Mutant: the calls of the candidates are added to a result and not to a stream.
FuserAnswers_ResultOnly ==
    /\ phase = "judge" /\ request.top = "mixture_of_n"
    /\ phase' = "answered"
    /\ answer' = [by |-> Judge, streamed |-> request.stream, original |-> "judge",
                  calls |-> Calls(Judge) \o (IF request.stream THEN <<>> ELSE CallsOf(Results))]
    /\ made' = made \cup {Model(Judge)}
    /\ UNCHANGED <<request, candidate, judge>>

\* The fuser writes the answer, as a result or as a stream.
FuserAnswers ==
    /\ phase = "judge" /\ request.top = "mixture_of_n"
    /\ phase' = "answered"
    /\ answer' = [by |-> Judge, streamed |-> request.stream, original |-> "judge",
                  calls |-> Calls(Judge) \o CallsOf(Results)]
    /\ made' = made \cup {Model(Judge)}
    /\ UNCHANGED <<request, candidate, judge>>

\* Mutant: an error of the judge is the error of the variant.
JudgeFails_Propagated ==
    /\ phase = "judge"
    /\ phase' = "failed"
    /\ UNCHANGED <<request, candidate, made, judge, answer>>

\* The judge's model is unknown or fails, after its retries.
JudgeFails ==
    /\ phase = "judge"
    /\ ReturnAny(FALSE)
    /\ UNCHANGED <<request, candidate, made, judge>>

\* The timeout of the variant itself: the futures of the candidates or of the judge are dropped,
\* and with them what they returned.
VariantTimesOut ==
    /\ request.timeout /\ phase \in {"candidates", "judge"}
    /\ phase' = "timed_out"
    /\ UNCHANGED <<request, candidate, made, judge, answer>>

\* The only states without another step: TLC checks that nothing else is stuck.
Done == phase \in {"answered", "failed", "timed_out"} /\ UNCHANGED candidatesVars

CandidatesNext ==
    \/ \E i \in Candidates : Embed(i) \/ FetchExamples(i) \/ ModelAnswers(i) \/ CandidateFails(i)
    \/ NoCandidate \/ OneCandidate \/ CannotJudge \/ OnlyOneShown \/ AskJudge
    \/ EvaluatorNames \/ EvaluatorBabbles \/ FuserAnswers \/ JudgeFails
    \/ VariantTimesOut
    \/ Done

CandidatesSpec == CandidatesInit /\ [][CandidatesNext]_candidatesVars

-----------------------------------------------------------------------------
(***************************************************************************)
(* Properties                                                               *)
(***************************************************************************)
\* An answer carries each call of each candidate that succeeded, and the judge's call if it
\* was made, exactly once: nothing it cost is dropped or stored twice, whatever was drawn,
\* skipped or streamed (extend, swap_remove and the previous results of a stream).  The
\* first one is the model call that wrote it: a stream takes its usage, its model and its
\* raw response from that one (stream_inference_from_non_stream).
CallsStoredOnce ==
    phase = "answered" =>
        /\ IsInjective(answer.calls)
        /\ ToSet(answer.calls) = {c \in made : c[2] \in Succeeded \cup {Judge}}
        /\ answer.calls[1] = Model(answer.by)

\* If the evaluator names one of the outputs it was shown, the answer is that output: indices
\* that were skipped and results that failed do not shift the choice.
NamedIsReturned ==
    (phase = "answered" /\ request.top = "best_of_n") =>
        \A index \in judge.named :
            index < Len(judge.shown) => answer.by = judge.shown[index + 1]

\* One candidate is enough: the variant fails only if every candidate failed, if the answer
\* drawn for a stream holds a block that cannot be streamed, or if the variant has a timeout
\* and it passed.  A failing judge is no reason.
OneIsEnough ==
    phase \in {"failed", "timed_out"} =>
        \/ Succeeded = {}
        \/ request.timeout /\ phase = "timed_out"
        \/ request.stream /\ \E i \in Succeeded : candidate[i].output = "unknown"
=============================================================================
