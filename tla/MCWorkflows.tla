----------------------------- MODULE MCWorkflows -----------------------------
(***************************************************************************)
(* Two ids of datapoints, chat functions and a JSON function;              *)
(* an exact-match evaluator and a judge, both with cutoffs and with one    *)
(* permit between them and the tasks; three inferences to train on.        *)
(***************************************************************************)
EXTENDS Workflows

MCTable == [f \in FunctionNames |-> IF f = "j" THEN "json" ELSE "chat"]
MCSources == {[function |-> "f", output |-> "o1", demonstrations |-> <<"bad", "o1">>]}
MCInputKind == [d \in Ids |-> IF d = "d2" THEN "file" ELSE "text"]
MCConfig ==
    [e \in Evaluators |->
        IF e = "exact"
        THEN [type |-> "exact_match", cutoff |-> 50, optimize |-> "max"]
        ELSE [type |-> "llm_judge", cutoff |-> 60, optimize |-> "min",
              input_format |-> "messages", reference_output |-> TRUE]]

Version(at, stale, out) == [at |-> at, stale |-> stale, output |-> out]

\* An id was updated under another function, or was staled and then written under another one.
MCInitialRows ==
    { [k \in Keys |-> CASE k = <<"f", "d1">> -> <<Version(0, FALSE, "o1")>>
                       [] k = <<"f", "d2">> -> <<Version(0, FALSE, None), Version(1, FALSE, "o1")>>
                       [] k = <<"j", "d2">> -> <<Version(1, FALSE, "o1")>>
                       [] OTHER -> << >>],
      [k \in Keys |-> CASE k = <<"f", "d1">> -> <<Version(0, FALSE, "o1"), Version(MaxNow, TRUE, "o1")>>
                       [] k = <<"f", "d2">> -> <<Version(0, FALSE, None)>>
                       [] k = <<"j", "d1">> -> <<Version(0, FALSE, "o1")>>
                       [] OTHER -> << >>] }
MCHumanScores ==
    {{[evaluator |-> "judge", id |-> "d1", output |-> "o1", value |-> 0]}}

Inference(out, renderable, parallel, m, b, demos) ==
    [output |-> out, renderable |-> renderable, parallel |-> parallel,
     metrics |-> [score |-> m, success |-> b], demonstrations |-> demos]
MCCorpora ==
    { << Inference("o1", TRUE, FALSE, <<0, 1>>, <<1>>, <<"o2">>),
         Inference("o2", TRUE, FALSE, <<1, 0>>, << >>, << >>),
         Inference("o2", TRUE, FALSE, << >>, <<0>>, <<"empty", "o1">>) >>,
      << Inference("o1", TRUE, TRUE, <<1>>, <<1, 0>>, << >>),
         Inference("empty", TRUE, FALSE, <<1>>, <<1>>, <<"o1", "o2">>),
         Inference("o2", FALSE, FALSE, <<1>>, <<1>>, <<"o1">>) >>,
      << Inference("o1", TRUE, FALSE, <<1>>, <<1>>, <<"o1">>),
         Inference(Missing, TRUE, FALSE, <<0>>, <<0, 1>>, << >>) >> }

Metric(name, op, value) == [kind |-> "metric", metric |-> name, op |-> op, value |-> value]
Node(kind, children) == [kind |-> kind, children |-> children]
MCFilters ==
    { << >>,
      <<Metric("score", ">=", 1)>>,
      <<Metric("score", "<", 1), Metric("success", "=", 1), Node("or", {1, 2})>>,
      <<Metric("score", ">=", 1), Metric("success", "=", 1), Node("and", {1, 2}), Node("not", {3})>> }

MCRequests ==
    [optimizer : {"fireworks", "together", "openai", "gcp"}, via : {"workflow"},
     filter : MCFilters, source : {"inference"}, limit : {2},
     order : {[metric |-> "score", direction |-> "desc"]}, val_fraction : {Missing, <<1, 3>>}]
    \cup
    [optimizer : {"fireworks", "openai"}, via : {"workflow"},
     filter : {<< >>}, source : {"demonstration"}, limit : {2, 5},
     order : {[metric |-> "score", direction |-> "none"], [metric |-> "score", direction |-> "asc"]},
     val_fraction : {<<1, 1>>, <<1, 2>>}]
    \cup
    [optimizer : {"together", "gcp"}, via : {"samples"}, filter : {<< >>}, source : {"inference"},
     limit : {5}, order : {[metric |-> "score", direction |-> "none"]}, val_fraction : {Missing}]
===============================================================================
