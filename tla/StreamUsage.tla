---------------------------- MODULE StreamUsage ----------------------------
(***************************************************************************)
(* The token accounting of one streamed inference: create_stream and        *)
(* InferenceResponseChunk::new (endpoints/inference.rs) report usage to the *)
(* client, collect_chunks (inference/types/mod.rs) computes the usage that  *)
(* is stored with the top model inference.                                  *)
(*                                                                          *)
(* A best_of_n, mixture_of_n or dicl variant has made other model           *)
(* inferences before the stream (`previous_model_inference_results`): they  *)
(* are stored as rows of their own, and the tokens billed for them are      *)
(* added to what the stream reports.  One counter stands for input and      *)
(* output tokens, which are treated alike.                                  *)
(***************************************************************************)
EXTENDS Naturals, Sequences, SequencesExt, Vectors

CONSTANTS MaxTokens,  \* bound: tokens of one chunk or model inference
          MaxChunks,  \* bound: chunks of the stream
          MaxPrev,    \* bound: previous model inferences
          None        \* Option::None

ASSUME UsageAssumption ==
    MaxTokens \in Nat /\ MaxChunks \in Nat /\ MaxPrev \in Nat /\ None \notin Nat

Tokens == 0 .. MaxTokens

\* A chunk of the model's stream: `empty` if it has no content (chat) or no raw (JSON).
Chunks == [empty : BOOLEAN, usage : Tokens \cup {None}]

VARIABLES
    function,  \* "chat" or "json"
    cached,    \* metadata.cached: the stream comes from the cache
    prev,      \* previous_model_inference_results
    pc,        \* "streaming", "storing" or "done"
    extra,     \* extra_usage
    buffer,    \* the chunks kept for storage
    received,  \* the chunks of the model's stream
    reported,  \* tokens reported to the client, over all chunks
    stored     \* usage of the top ModelInference row; None if there is none

streamVars == <<function, cached, prev, pc, extra, buffer, received, reported, stored>>

-----------------------------------------------------------------------------
UsageOrZero(u) == IF u = None THEN 0 ELSE u

\* Sum of the usage of a sequence of chunks.
TotalUsage(s) == Sum([i \in DOMAIN s |-> UsageOrZero(s[i].usage)])

\* ModelInferenceResponseWithMetadata::usage_considering_cached
UsageConsideringCached(result) == IF result.cached THEN 0 ELSE result.usage

PreviousUsage == Sum([i \in DOMAIN prev |-> UsageConsideringCached(prev[i])])

StreamInit ==
    /\ function \in {"chat", "json"}
    /\ cached \in BOOLEAN
    /\ prev \in BoundedSeq([usage : Tokens, cached : BOOLEAN], MaxPrev)
    /\ pc = "streaming"
    /\ extra = IF PreviousUsage = 0 THEN None ELSE PreviousUsage
    /\ buffer = << >>
    /\ received = << >>
    /\ reported = 0
    /\ stored = None

-----------------------------------------------------------------------------
\* InferenceResponseChunk::new: the usage of the response chunk ...
ResultUsage(chunk) == IF cached THEN 0 ELSE chunk.usage

\* ... to which an empty chunk with usage adds what extra_usage has left ...
TakesExtra(chunk) == ResultUsage(chunk) # None /\ chunk.empty

\* ... and which is dropped with a JSON chunk that has neither raw nor usage.
Dropped(chunk) == function = "json" /\ chunk.empty /\ chunk.usage = None

Reported(chunk, more) ==
    IF Dropped(chunk) THEN 0
    ELSE UsageOrZero(ResultUsage(chunk)) + (IF TakesExtra(chunk) THEN UsageOrZero(more) ELSE 0)

\* Mutant: extra_usage is copied, not taken.
Chunk_NotTaken ==
    /\ pc = "streaming" /\ Len(received) < MaxChunks
    /\ \E chunk \in Chunks :
         /\ received' = Append(received, chunk)
         /\ buffer' = Append(buffer, chunk)
         /\ reported' = reported + Reported(chunk, extra)
    /\ UNCHANGED <<function, cached, prev, pc, extra, stored>>

\* Mutant: only what the client is sent is kept for storage.
Chunk_OnlyContent ==
    /\ pc = "streaming" /\ Len(received) < MaxChunks
    /\ \E chunk \in Chunks :
         /\ received' = Append(received, chunk)
         /\ buffer' = IF chunk.empty THEN buffer ELSE Append(buffer, chunk)
         /\ reported' = reported + Reported(chunk, extra)
         /\ extra' = IF TakesExtra(chunk) THEN None ELSE extra
    /\ UNCHANGED <<function, cached, prev, pc, stored>>

\* A good item of the model's stream is kept and passed on (a bad one is passed on).
Chunk ==
    /\ pc = "streaming" /\ Len(received) < MaxChunks
    /\ \E chunk \in Chunks :
         /\ received' = Append(received, chunk)
         /\ buffer' = Append(buffer, chunk)
         /\ reported' = reported + Reported(chunk, extra)
         /\ extra' = IF TakesExtra(chunk) THEN None ELSE extra
    /\ UNCHANGED <<function, cached, prev, pc, stored>>

\* The stream ends: extra_usage that is left goes into a chunk of its own, which is
\* kept and passed on like the others.
StreamEnds ==
    /\ pc = "streaming"
    /\ pc' = "storing"
    /\ IF extra = None
         THEN UNCHANGED <<buffer, reported>>
         ELSE LET usageChunk == [empty |-> TRUE, usage |-> extra]
              IN  /\ buffer' = Append(buffer, usageChunk)
                  /\ reported' = reported + Reported(usageChunk, None)
    /\ UNCHANGED <<function, cached, prev, extra, received, stored>>

\* collect_chunks has a TTFT if a chunk has content; any JSON chunk will do.
HasTtft == \E i \in DOMAIN buffer : function = "json" \/ ~buffer[i].empty

\* collect_chunks adds up the usage it finds; it fails without a TTFT.
CollectChunks ==
    /\ pc = "storing"
    /\ pc' = "done"
    /\ stored' = IF HasTtft THEN TotalUsage(buffer) ELSE None
    /\ UNCHANGED <<function, cached, prev, extra, buffer, received, reported>>

StreamFinished == pc = "done" /\ UNCHANGED streamVars

StreamNext == Chunk \/ StreamEnds \/ CollectChunks \/ StreamFinished

StreamSpec == StreamInit /\ [][StreamNext]_streamVars

-----------------------------------------------------------------------------
(***************************************************************************)
(* Properties                                                               *)
(***************************************************************************)

\* Reference: what the client is billed, the stream's tokens unless it is cached and
\* those of the previous results that are not.
Billed ==
    (IF cached THEN 0 ELSE TotalUsage(received))
      + Sum([i \in DOMAIN prev |-> IF prev[i].cached THEN 0 ELSE prev[i].usage])

\* Wherever usage turns up in the stream, the client is never reported more tokens than it
\* is billed; a stream that was not cached reports all of them, those of the previous
\* results included, whether or not one of its chunks could take them.
ReportedIsBilled ==
    /\ reported <= Billed
    /\ pc = "done" /\ ~cached => reported = Billed

\* The row stored for the stream has all tokens of its chunks, also of chunks the client
\* never saw, and those of the previous results, which have rows of their own, at most
\* once.
StoredCoversUsage ==
    stored # None => stored \in {TotalUsage(received), TotalUsage(received) + PreviousUsage}
=============================================================================
