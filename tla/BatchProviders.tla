--------------------------- MODULE BatchProviders ---------------------------
(***************************************************************************)
(* What the batch endpoints hand to the model providers and what these      *)
(* return: the vectors of a start request, the providers that accept a      *)
(* batch (OpenAI and GCP Vertex Gemini; the others always refuse), the      *)
(* states of the provider's job, and the output file of a finished job.     *)
(***************************************************************************)
EXTENDS Naturals

CONSTANTS
    Inferences,   \* the inferences of the batch
    Absent        \* None

-----------------------------------------------------------------------------
(***************************************************************************)
(* The optional vectors of a start request.  A vector is represented by its *)
(* length, an episode id by whether it is one TensorZero made.              *)
(***************************************************************************)

\* A given vector has an element for each of the n inferences.
WithSize(v, n) == v # Absent => v = n

\* Vec<DynamicToolParams>: allowed_tools, additional_tools, tool_choice and
\* parallel_tool_calls, each checked.
BatchDynamicToolParams(r, n) == WithSize(r.tools, n)

BatchOutputSchemas(r, n) == WithSize(r.schemas, n)

\* Vec<ChatCompletionInferenceParams>: temperature ... stop_sequences, each checked.
BatchChatCompletionParams(r, n) == WithSize(r.params, n)

\* The ids are given or made; each is then validated (version 7, not too early or late).
BatchEpisodeIds(r, n) == WithSize(r.episodes, n) /\ r.validEpisodes

-----------------------------------------------------------------------------
(***************************************************************************)
(* The jobs                                                                 *)
(***************************************************************************)

\* ModelProvider::start_batch_inference: what is not listed answers
\* UnsupportedModelProviderForBatchInference.
SupportsBatch(b) == b \in {"openai", "gcp_vertex_gemini"}

\* The state a new job is in, and how jobs move.  A job that is being cancelled, which
\* only the provider's own interface can ask for, may still finish; "completed_late" and
\* "succeeded_late" are the states "completed" and "succeeded", reached in that way.
FirstState(b) == IF b = "openai" THEN "validating" ELSE "queued"

Moves(b, s) ==
    IF b = "openai"
      THEN CASE s = "validating"  -> {"in_progress", "failed"}
             [] s = "in_progress" -> {"finalizing", "expired", "cancelling"}
             [] s = "finalizing"  -> {"completed"}
             [] s = "cancelling"  -> {"cancelled", "completed_late"}
             [] OTHER             -> {}
      ELSE CASE s = "queued"     -> {"running", "paused"}
             [] s = "paused"     -> {"running"}
             [] s = "running"    -> {"succeeded", "partially_succeeded", "failed", "cancelling"}
             [] s = "cancelling" -> {"cancelled", "failed", "succeeded_late"}
             [] OTHER            -> {}

LateStates == {"completed_late", "succeeded_late"}

\* From<OpenAIBatchStatus>
OpenAIBatchStatus(s) ==
    CASE s \in {"completed", "completed_late"}                     -> "completed"
      [] s \in {"validating", "in_progress", "finalizing"}         -> "pending"
      [] s \in {"failed", "expired", "cancelling", "cancelled"}    -> "failed"

\* The match on GCPVertexJobState; a state it does not know is a failure.
GCPVertexJobStatus(s) ==
    CASE s \in {"succeeded", "succeeded_late", "partially_succeeded"} -> "completed"
      [] s \in {"pending", "running", "queued", "paused", "updating", "unspecified"} -> "pending"
      [] OTHER                                                     -> "failed"

BatchStatus(b, s) == IF b = "openai" THEN OpenAIBatchStatus(s) ELSE GCPVertexJobStatus(s)

-----------------------------------------------------------------------------
(***************************************************************************)
(* The output file: a line per inference, or none.  A line is "whole", or   *)
(* JSON the row type takes that lacks something ("partial"), or "garbled".  *)
(***************************************************************************)
Lines == {"absent", "whole", "partial", "garbled"}

\* The lines TryFrom<OpenAIBatchFileRow> converts: a partial one has no choice or several.
OpenAIBatchFileRow == {"whole"}

\* The lines make_provider_batch_inference_output converts: a partial one lacks the label
\* with the inference id, the usage or the content.
GCPVertexBatchResponseLine == {"whole"}

\* Mutant: one bad line loses the whole file.
ParseJsonlBatchFile_Strict(file, convertible) ==
    IF \E i \in Inferences : file[i] \notin convertible \cup {"absent"} THEN {}
    ELSE {i \in Inferences : file[i] \in convertible}

\* parse_jsonl_batch_file: lines that do not parse and rows that do not convert are
\* logged and left out.
ParseJsonlBatchFile(file, convertible) ==
    {i \in Inferences : file[i] \notin {"absent", "garbled"} /\ file[i] \in convertible}

\* collect_finished_batch of each provider.
OpenAIFinishedBatch(file) == ParseJsonlBatchFile(file, OpenAIBatchFileRow)
GCPVertexFinishedBatch(file) == ParseJsonlBatchFile(file, GCPVertexBatchResponseLine)

\* poll_batch_inference of each provider: a completed job must name its output file.
OpenAIPoll(s, file) ==
    IF OpenAIBatchStatus(s) = "completed" /\ file = Absent THEN "error" ELSE OpenAIBatchStatus(s)

GCPVertexPoll(s, file) ==
    IF GCPVertexJobStatus(s) = "completed" /\ file = Absent THEN "error" ELSE GCPVertexJobStatus(s)
=============================================================================
