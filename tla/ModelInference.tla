--------------------------- MODULE ModelInference ---------------------------
(***************************************************************************)
(* One call of a model (model.rs, embeddings.rs) behind a variant: the      *)
(* routing loop over the model's providers, the provider and model          *)
(* timeouts, the retries around the loop (variant/mod.rs), and the          *)
(* ModelInferenceCache table (cache.rs) that concurrent calls with the same *)
(* request share.                                                           *)
(*                                                                          *)
(* The calls of an instance send the same messages, so the cache keys of    *)
(* two calls differ exactly when their provider or their kind does (the     *)
(* key hashes the model, the provider and the request with its `stream`     *)
(* flag).  ClickHouse and the providers may be slow or never answer; the    *)
(* caller may drop the call at any await.                                   *)
(***************************************************************************)
EXTENDS Integers, Sequences, FiniteSets, Functions

CONSTANTS
    Calls,            \* concurrent model calls
    Routing,          \* the model's `routing`
    Inputs,           \* the calls' options, a subset of Options
    Ages,             \* values of max_age_s that are tried
    NoLimit,          \* max_age_s: None
    NumRetries,       \* the variant's retries.num_retries
    ProviderTimeouts, \* do the providers have timeouts
    ModelTimeouts,    \* has the model timeouts
    MaxChunks,        \* bound: items of one stream
    MaxClock          \* bound: seconds

Kinds == {"plain", "stream", "embed", "batch"}
CacheModes == {"on", "off", "read_only", "write_only"}

\* What a call is made with: infer, infer_stream, embed or start_batch_inference,
\* and the request's cache options.
Options == [kind : Kinds, mode : CacheModes, dryrun : BOOLEAN, age : Ages \cup {NoLimit}]

\* ModelConfig::validate: the entries of `routing` are unique, and not none.
ASSUME ModelAssumption ==
    /\ Routing \in Seq(Range(Routing)) /\ Routing # << >>
    /\ IsInjective(Routing)
    /\ Inputs \subseteq Options
    /\ Ages \subseteq Nat /\ NoLimit \notin Nat
    /\ NumRetries \in Nat
    /\ ProviderTimeouts \in BOOLEAN /\ ModelTimeouts \in BOOLEAN
    /\ MaxChunks \in Nat \ {0} /\ MaxClock \in Nat

Providers == Range(Routing)

VARIABLES
    opts,    \* the options of each call
    pc,      \* where it is
    attempt, \* retries made so far
    pos,     \* the entry of routing being tried
    errors,  \* keys of provider_errors, of this attempt
    sent,    \* requests sent to providers, over all attempts
    resp,    \* the response or the stream it got
    spawned, \* cache writes that have been started and not ended
    cache,   \* rows of ModelInferenceCache
    clock    \* the second it is

control == <<opts, pc, attempt, pos, errors, sent>>
storage == <<spawned, cache>>
vars == <<control, resp, storage, clock>>

\* An output: the call and attempt that asked the provider for it, the call that
\* caches it, its chunks, and whether it is all the provider had to say, without error.
Outputs == [provider : Providers, kind : Kinds, from : Calls, try : 0 .. NumRetries,
            by : Calls, chunks : 0 .. MaxChunks, whole : BOOLEAN]
CacheRows == [out : Outputs, ts : 0 .. MaxClock]

NoResponse == [status |-> "none"]
Response(fromCache, out) == [status |-> "ok", cached |-> fromCache, out |-> out]

Init ==
    /\ opts \in [Calls -> Inputs]
    /\ pc = [c \in Calls |-> "idle"]
    /\ attempt = [c \in Calls |-> 0]
    /\ pos = [c \in Calls |-> 1]
    /\ errors = [c \in Calls |-> {}]
    /\ sent = [c \in Calls |-> 0]
    /\ resp = [c \in Calls |-> NoResponse]
    /\ spawned = {}
    /\ cache = {}
    /\ clock = 0

Goto(c, where) == pc' = [pc EXCEPT ![c] = where]
Current(c) == Routing[pos[c]]

-----------------------------------------------------------------------------
(***************************************************************************)
(* Cache options                                                            *)
(***************************************************************************)

\* From<(CacheParamsOptions, bool)> for CacheOptions: a dryrun never writes.
CacheOptions(o) ==
    IF ~o.dryrun THEN o.mode
    ELSE IF o.mode \in {"on", "read_only"} THEN "read_only" ELSE "off"

Reads(c)  == opts[c].kind # "batch" /\ CacheOptions(opts[c]) \in {"on", "read_only"}
Writes(c) == opts[c].kind # "batch" /\ CacheOptions(opts[c]) \in {"on", "write_only"}

\* start_cache_write and start_cache_write_streaming: the insert runs in a task.
StartCacheWrite(out) ==
    /\ spawned' = spawned \cup {out}
    /\ UNCHANGED cache

MayCache(c, out) ==
    IF Writes(c) THEN StartCacheWrite(out) ELSE UNCHANGED storage

\* What a provider answered call c with.
Answered(c, n, whole) ==
    [provider |-> Current(c), kind |-> opts[c].kind, from |-> c,
     try |-> attempt[c], by |-> c, chunks |-> n, whole |-> whole]

-----------------------------------------------------------------------------
(***************************************************************************)
(* The routing loop                                                         *)
(***************************************************************************)

\* The next entry of routing: look it up in the cache first if the mode reads.
TryProvider(c) ==
    /\ pc[c] \in {"idle", "routing"}
    /\ pos[c] <= Len(Routing)
    /\ Goto(c, IF Reads(c) THEN "lookup" ELSE "send")
    /\ UNCHANGED <<opts, attempt, pos, errors, sent, resp, storage, clock>>

\* The rows cache_lookup_inner may find: of this key, younger than max_age_s, the
\* latest ones.
Lookup(c) ==
    LET found == {row \in cache :
                     /\ row.out.provider = Current(c)
                     /\ row.out.kind = opts[c].kind
                     /\ opts[c].age # NoLimit => row.ts > clock - opts[c].age}
    IN  {row \in found : \A other \in found : other.ts <= row.ts}

\* Mutant: a stream served from the cache is cached again when it ends.
CacheHit_StreamWritten(c) ==
    /\ pc[c] = "lookup"
    /\ \E row \in Lookup(c) :
         /\ resp' = [resp EXCEPT ![c] = Response(TRUE, row.out)]
         /\ IF opts[c].kind # "embed" THEN MayCache(c, [row.out EXCEPT !.by = c])
                                      ELSE UNCHANGED storage
    /\ Goto(c, "done")
    /\ UNCHANGED <<opts, attempt, pos, errors, sent, clock>>

\* A hit is the response.  `infer` writes its response to the cache wherever it came
\* from; a cached stream and a cached embedding are returned as they are.
CacheHit(c) ==
    /\ pc[c] = "lookup"
    /\ \E row \in Lookup(c) :
         /\ resp' = [resp EXCEPT ![c] = Response(TRUE, row.out)]
         /\ IF opts[c].kind = "plain" THEN MayCache(c, [row.out EXCEPT !.by = c])
                                      ELSE UNCHANGED storage
    /\ Goto(c, "done")
    /\ UNCHANGED <<opts, attempt, pos, errors, sent, clock>>

\* No row, or a lookup that fails (`.ok().flatten()`).
CacheMiss(c) ==
    /\ pc[c] = "lookup"
    /\ Goto(c, "send")
    /\ UNCHANGED <<opts, attempt, pos, errors, sent, resp, storage, clock>>

SendRequest(c) ==
    /\ pc[c] = "send"
    /\ sent' = [sent EXCEPT ![c] = @ + 1]
    /\ Goto(c, "waiting")
    /\ UNCHANGED <<opts, attempt, pos, errors, resp, storage, clock>>

\* provider_errors.insert, and on to the next entry.
RecordError(c) ==
    /\ errors' = [errors EXCEPT ![c] = @ \cup {Current(c)}]
    /\ pos' = [pos EXCEPT ![c] = @ + 1]
    /\ Goto(c, "routing")

\* The request fails, or the first item of the stream is an error: the stream is
\* dropped unread.
ProviderFails(c) ==
    /\ pc[c] = "waiting"
    /\ RecordError(c)
    /\ UNCHANGED <<opts, attempt, sent, resp, storage, clock>>

\* A stream with no item at all is an error too, but reading it to its end has
\* started its cache write.
StreamIsEmpty(c) ==
    /\ pc[c] = "waiting"
    /\ opts[c].kind = "stream"
    /\ RecordError(c)
    /\ MayCache(c, Answered(c, 0, TRUE))
    /\ UNCHANGED <<opts, attempt, sent, resp, clock>>

ProviderAnswers(c) ==
    /\ pc[c] = "waiting"
    /\ opts[c].kind # "stream"
    /\ LET out == Answered(c, 1, TRUE)
       IN  /\ resp' = [resp EXCEPT ![c] = Response(FALSE, out)]
           /\ MayCache(c, out)
    /\ Goto(c, "done")
    /\ UNCHANGED <<opts, attempt, pos, errors, sent, clock>>

\* peek_first_chunk: the first item is good, and the caller gets the stream.
FirstChunk(c) ==
    /\ pc[c] = "waiting"
    /\ opts[c].kind = "stream"
    /\ resp' = [resp EXCEPT ![c] = Response(FALSE, Answered(c, 1, TRUE))]
    /\ Goto(c, "streaming")
    /\ UNCHANGED <<opts, attempt, pos, errors, sent, storage, clock>>

-----------------------------------------------------------------------------
(***************************************************************************)
(* The rest of the stream (stream_with_cache_write)                         *)
(***************************************************************************)

\* A later item is a chunk, or an error after which nothing is buffered.
StreamItem(c) ==
    /\ pc[c] = "streaming"
    /\ resp[c].out.whole
    /\ resp[c].out.chunks < MaxChunks
    /\ \E good \in BOOLEAN :
         resp' = [resp EXCEPT ![c] =
                    Response(FALSE, [resp[c].out EXCEPT !.chunks = IF good THEN @ + 1 ELSE @,
                                                        !.whole = good])]
    /\ UNCHANGED <<control, storage, clock>>

\* Mutant: a stream with an error in it is cached like any other.
StreamEnds_CachesErrors(c) ==
    /\ pc[c] = "streaming"
    /\ MayCache(c, resp[c].out)
    /\ Goto(c, "done")
    /\ UNCHANGED <<opts, attempt, pos, errors, sent, resp, clock>>

\* The caller has read the stream to its end: cache it if no item was an error.
StreamEnds(c) ==
    /\ pc[c] = "streaming"
    /\ IF resp[c].out.whole THEN MayCache(c, resp[c].out)
                            ELSE UNCHANGED storage
    /\ Goto(c, "done")
    /\ UNCHANGED <<opts, attempt, pos, errors, sent, resp, clock>>

-----------------------------------------------------------------------------
(***************************************************************************)
(* Timeouts, retries and the caller                                         *)
(***************************************************************************)

\* Mutant: the timeouts do not cover the cache lookup.
Underway_NotLookup == {"send", "waiting"}

\* Where a call waits for ClickHouse or for a provider: the timeouts wrap all of it.
Underway == {"lookup", "send", "waiting"}

\* non_streaming.total_ms, or streaming.ttft_ms up to the first chunk, elapses.
ProviderTimesOut(c) ==
    /\ ProviderTimeouts
    /\ opts[c].kind \in {"plain", "stream"}
    /\ pc[c] \in Underway
    /\ RecordError(c)
    /\ UNCHANGED <<opts, attempt, sent, resp, storage, clock>>

\* The retry around infer and infer_stream (any error is retried); embed and
\* start_batch_inference are not retried.
MaxRetries(c) == IF opts[c].kind \in {"plain", "stream"} THEN NumRetries ELSE 0

\* Mutant: provider_errors outlives the attempt.
Retry_KeepsErrors(c, error) ==
    IF attempt[c] < MaxRetries(c)
      THEN /\ attempt' = [attempt EXCEPT ![c] = @ + 1]
           /\ pos' = [pos EXCEPT ![c] = 1]
           /\ Goto(c, "routing")
           /\ UNCHANGED <<errors, resp>>
      ELSE /\ resp' = [resp EXCEPT ![c] = [status |-> error]]
           /\ Goto(c, "done")
           /\ UNCHANGED <<attempt, pos, errors>>

\* Mutant: one retry too many.
Retry_OffByOne(c, error) ==
    IF attempt[c] <= MaxRetries(c)
      THEN /\ attempt' = [attempt EXCEPT ![c] = @ + 1]
           /\ pos' = [pos EXCEPT ![c] = 1]
           /\ errors' = [errors EXCEPT ![c] = {}]
           /\ Goto(c, "routing")
           /\ UNCHANGED resp
      ELSE /\ resp' = [resp EXCEPT ![c] = [status |-> error]]
           /\ Goto(c, "done")
           /\ UNCHANGED <<attempt, pos, errors>>

\* An attempt failed: start over from the first provider, or give up.
Retry(c, error) ==
    IF attempt[c] < MaxRetries(c)
      THEN /\ attempt' = [attempt EXCEPT ![c] = @ + 1]
           /\ pos' = [pos EXCEPT ![c] = 1]
           /\ errors' = [errors EXCEPT ![c] = {}]
           /\ Goto(c, "routing")
           /\ UNCHANGED resp
      ELSE /\ resp' = [resp EXCEPT ![c] = [status |-> error]]
           /\ Goto(c, "done")
           /\ UNCHANGED <<attempt, pos, errors>>

ModelProvidersExhausted(c) ==
    /\ pc[c] = "routing"
    /\ pos[c] > Len(Routing)
    /\ Retry(c, "ModelProvidersExhausted")
    /\ UNCHANGED <<opts, sent, storage, clock>>

\* The model's own timeout: it covers the whole loop, up to the first chunk.
ModelTimesOut(c) ==
    /\ ModelTimeouts
    /\ opts[c].kind \in {"plain", "stream"}
    /\ pc[c] \in Underway
    /\ Retry(c, "ModelTimeout")
    /\ UNCHANGED <<opts, sent, storage, clock>>

\* The caller drops the call or its stream: the variant timed out, or the client
\* went away.
CallDropped(c) ==
    /\ pc[c] \in Underway \cup {"routing", "streaming"}
    /\ resp' = [resp EXCEPT ![c] = [status |-> "dropped"]]
    /\ Goto(c, "done")
    /\ UNCHANGED <<opts, attempt, pos, errors, sent, storage, clock>>

-----------------------------------------------------------------------------
(***************************************************************************)
(* ClickHouse and the clock                                                 *)
(***************************************************************************)

\* The insert of a spawned write: `timestamp DateTime DEFAULT now()`.
CacheWritten ==
    /\ \E out \in spawned :
         /\ spawned' = spawned \ {out}
         /\ cache' = cache \cup {[out |-> out, ts |-> clock]}
    /\ UNCHANGED <<control, resp, clock>>

\* The insert fails, or the gateway dies before it.
CacheWriteLost ==
    /\ \E out \in spawned : spawned' = spawned \ {out}
    /\ UNCHANGED <<control, resp, cache, clock>>

Tick ==
    /\ clock < MaxClock
    /\ clock' = clock + 1
    /\ UNCHANGED <<control, resp, storage>>

-----------------------------------------------------------------------------
\* Steps the gateway takes on its own, and steps that wait for someone else.
GatewayStep(c) ==
    \/ TryProvider(c) \/ SendRequest(c) \/ ModelProvidersExhausted(c)

TimeoutStep(c) == ProviderTimesOut(c) \/ ModelTimesOut(c)

OutsideStep(c) ==
    \/ CacheHit(c) \/ CacheMiss(c) \/ ProviderFails(c) \/ StreamIsEmpty(c)
    \/ ProviderAnswers(c) \/ FirstChunk(c) \/ StreamItem(c) \/ StreamEnds(c)
    \/ CallDropped(c)

AllDone == (\A c \in Calls : pc[c] = "done") /\ UNCHANGED vars

Next ==
    \/ \E c \in Calls : GatewayStep(c) \/ TimeoutStep(c) \/ OutsideStep(c)
    \/ CacheWritten \/ CacheWriteLost \/ Tick \/ AllDone

(***************************************************************************)
(* The executor runs ready tasks and fires timers; nothing is assumed of    *)
(* the providers or of ClickHouse.                                          *)
(***************************************************************************)
Fairness == \A c \in Calls : WF_vars(GatewayStep(c)) /\ WF_vars(TimeoutStep(c))

Spec == Init /\ [][Next]_vars
FairSpec == Spec /\ Fairness

-----------------------------------------------------------------------------
(***************************************************************************)
(* Properties                                                               *)
(***************************************************************************)

Statuses == {"none", "ModelProvidersExhausted", "ModelTimeout", "dropped"}

\* Every variable has its type.
TypeOK ==
    /\ opts \in [Calls -> Inputs]
    /\ pc \in [Calls -> {"idle", "routing", "streaming", "done"} \cup Underway]
    /\ attempt \in [Calls -> 0 .. NumRetries]
    /\ pos \in [Calls -> 1 .. (Len(Routing) + 1)]
    /\ errors \in [Calls -> SUBSET Providers]
    /\ sent \in [Calls -> Nat]
    /\ resp \in [Calls -> [status : Statuses]
                          \cup [status : {"ok"}, cached : BOOLEAN, out : Outputs]]
    /\ spawned \in SUBSET Outputs
    /\ cache \in SUBSET CacheRows
    /\ clock \in 0 .. MaxClock

\* Only whole outputs are cached, and only by calls that may write: no interrupted or
\* erroneous stream and no dryrun ever leaves a row, whatever fails around it.
CacheRowsAreSound ==
    \A row \in cache : row.out.whole /\ Writes(row.out.by) /\ ~opts[row.out.by].dryrun

\* The response comes from the first provider of the routing that did not fail in
\* this attempt, from its cache or not; giving up means that all failed in one attempt.
ResponseFollowsRouting ==
    \A c \in Calls :
        /\ resp[c].status = "ok" =>
              /\ resp[c].out.provider = Current(c)
              /\ errors[c] = {Routing[i] : i \in 1 .. (pos[c] - 1)}
        /\ resp[c].status = "ModelProvidersExhausted" =>
              errors[c] = Providers /\ attempt[c] = MaxRetries(c)

\* Retries, fallbacks and timeouts send a provider at most one request per attempt.
RequestsAreBounded ==
    \A c \in Calls : sent[c] <= (MaxRetries(c) + 1) * Len(Routing)

\* A row of a stream or an embedding was written by the call that asked the provider
\* for it, so max_age_s bounds the age of what such calls are served.
RowIsOfItsCall ==
    \A row \in cache : row.out.kind \in {"stream", "embed"} => row.out.by = row.out.from

\* With provider timeouts a call ends or streams, even if a provider or ClickHouse
\* never answers.
CallEnds ==
    \A c \in Calls : opts[c].kind \in {"plain", "stream"} /\ pc[c] # "idle"
                        ~> pc[c] \in {"streaming", "done"}
=============================================================================
