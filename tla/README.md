# TensorZero gateway: TLA+ specifications

TLA+ models of the TensorZero gateway and of the programs that work on its database,
checked with TLC on small instances; all of their safety properties but two are proved with
TLAPS for every instance. Paths below are relative to `src/tensorzero-core/src/` unless
they start with another directory.

    tlc -workers 2 -config MCModelCache.cfg MCModelInference
    tlapm ModelInferenceProofs.tla

## 1. The system and its parts

A gateway process serves HTTP requests; each request is a tokio task that is
dropped when its client goes away. What must survive goes to ClickHouse (rows in
append-only or replacing tables, no transactions) and to an object store. Model
providers are external services that may be slow, fail, or never answer. A second
program, the evaluations runner, is a client of the gateway that also reads its
database.

| Part | State it keeps | Operations | What makes it correct |
|---|---|---|---|
| Inference endpoint, `endpoints/inference.rs` | candidate variants, failed variants, the stream's buffer; rows `ModelInference` and `Chat/JsonInference`, files | pick variants until one succeeds, answer or stream, trailing `write_inference` | weights are respected, every candidate is tried before giving up, rows come in order and files with them, dryruns leave nothing, a disconnect does not cut a spawned write |
| Variant sampling, `function.rs` | the candidates left, one hash per episode | `sample_variant` | each candidate once, in proportion to its weight, weighted ones first |
| Variants, `variant/*.rs` | candidates of best-of-n and mixture-of-n | retries, timeouts, evaluators and fusers | bounded attempts; a result whenever one candidate has one; every call is accounted for once |
| Functions and tools, `function.rs`, `tool.rs` | none | tools offered, tool choice, JSON output, parsing of calls | what the model is offered is what the function and the request allow |
| Model calls, `model.rs`, `embeddings.rs` | position in `routing`, `provider_errors` | `infer`, `infer_stream`, `embed`, `start_batch_inference` | the first provider that works answers; timeouts end what hangs |
| Providers, `providers/*.rs` | per stream: the tool call being read, the thinking state | request, response and stream of each API | nothing of the conversation is lost or doubled, streamed or not, and the next turn is accepted |
| OpenAI-compatible endpoint, `endpoints/openai_compatible.rs` | per stream: a map from tool ids to indices | the same in OpenAI's format | a client can put the answer together and send it back |
| Cache, `cache.rs` | table `ModelInferenceCache` | lookup with `max_age_s`, spawned writes | rows are whole answers, of requests that may write, and as old as they say |
| Stream accounting, `endpoints/inference.rs`, `inference/types/mod.rs` | `extra_usage`, the chunk buffer | `create_stream`, `InferenceResponseChunk::new`, `collect_chunks` | tokens are reported and stored once |
| Batch inference, `endpoints/batch_inference.rs` | tables `BatchRequest`, `BatchModelInference`, and the inference tables; the provider's job and file | start, poll, store results, read a completed batch | results are stored before a batch is completed, and an end the provider reached is recorded |
| Feedback, `endpoints/feedback.rs` | feedback tables | wait for the target to appear, validate, spawned write | feedback of an existing target is accepted, of a missing one refused |
| Dynamic evaluation runs, `endpoints/dynamic_evaluation_run.rs`, `uuid_util.rs` | run and episode tables | start a run, start an episode, look up pins by episode id | an inference has the pins and tags of its run |
| Datasets, `endpoints/datasets.rs` | `ChatInferenceDatapoint`, `JsonInferenceDatapoint` (replacing tables) | insert, bulk insert, update, stale, delete | the latest answered version wins |
| Evaluations runner, `src/evaluations/` | tasks, a semaphore, scores | infer, evaluate, send feedback, compare with cutoffs | it ends, and reports what is stored |
| Optimization, `optimization/`, `endpoints/optimization.rs`, `clickhouse/query_builder` | files, jobs and deployments of a provider | list, render, split, upload, create, poll, deploy | a job has all of its examples, and its end is reported when it is one |
| Migrations and start-up, `clickhouse/migration_manager`, `src/gateway/src/main.rs` | the schema and `TensorZeroMigration` | connect, `can_apply`, `should_apply`, `apply`, `has_succeeded`, record, listen | concurrent and restarted gateways end with one whole schema and no lost row |
| Configuration, templates, clients, proxy, UI, recipes | none of the gateway's | parsing, wiring, presentation | stateless or external |

How they interact: the inference endpoint calls `sample_variant` and a variant in a
loop; the variant calls a model, the model its providers and the cache. The endpoint's
trailing write, the cache write and the feedback write run in tasks of their own and
meet only in ClickHouse. The batch handlers, the dataset handlers, the runner and
starting gateways share nothing but tables. What is hard to test is therefore: a task
dropped between two inserts, two handlers that read the same row before either writes,
timeouts that race answers, a stream cut anywhere or whose events interleave, spawned
writes that outlive or precede what depends on them, migrations run by two gateways at
once. `PROJECT.json` lists these hazards by line.

## 2. The modules

| Module | Models | State ↔ code | Actions ↔ code |
|---|---|---|---|
| `Inference` | `inference` handler, `create_stream`, `write_inference` | `cand` = `candidate_variant_names`, `errs` = keys of `variant_errors`, `chunks`/`content` = `buffer`, `task`/`wpos`/`fput` = the `write_future` and how far it is, `db`, `store` = ClickHouse and the object store | `Accept`, `UnknownVariant`, `SampleVariant`, `VariantFails`, `InferSucceeds`, `StreamStarts`, `StreamChunk`, `StreamEnds`, `WriteRow`, `WriteFile`, `WriteDone`, `Disconnect`, `Crash` … |
| `SampleVariant` | `sample_variant`, `get_uniform_value` | `names` = `candidate_variant_names` in order, `hash` = `truncated_hash`, `MaxHash` = `u32::MAX` | `Draw`, `DrawFails` |
| `ModelInference` | `ModelConfig::infer`, `infer_stream`, `start_batch_inference`, `EmbeddingModelConfig::embed`, `stream_with_cache_write`, `cache.rs`, the retries of `variant/mod.rs` | `pos` = place in `routing`, `errors` = `provider_errors`, `spawned` = cache write tasks, `cache` = table rows with their `timestamp` | `TryProvider`, `CacheHit`, `CacheMiss`, `SendRequest`, `ProviderFails`, `StreamIsEmpty`, `ProviderAnswers`, `FirstChunk`, `StreamItem`, `StreamEnds`, `ProviderTimesOut`, `ModelTimesOut`, `CallDropped`, `CacheWritten`, `CacheWriteLost` |
| `StreamUsage` | usage in `create_stream` and `InferenceResponseChunk::new`, `collect_chunks` | `extra` = `extra_usage`, `buffer`, `prev` = `previous_model_inference_results` | `Chunk`, `StreamEnds`, `CollectChunks` |
| `CandidateVariants` | best-of-n, mixture-of-n, DICL, chain of thought | `candidate` = the futures of the candidates, `made` = model and embedding calls that were answered, `judge` = what the evaluator or fuser saw and said, `answer` = the `InferenceResult` | `Embed`, `FetchExamples`, `ModelAnswers`, `CandidateFails`, `VariantTimesOut`, the judge's answer, failure and fallback |
| `ProviderRequests` | what each provider is sent: messages, roles, tools, JSON mode | operators, one per provider and conversion | |
| `ProviderResponses` | what each provider's response and stream events become; thinking tags; `collect_chunks` | `st` = what a stream's adapter remembers | |
| `FunctionCalls` | tool configs, JSON modes, input checks and output parsing of a function | operators | |
| `OpenAICompatible` | requests, responses and streams of the OpenAI-compatible endpoint | operators; the map of `tool_id_to_index` | |
| `ProviderCall` | two turns of a conversation with one provider, through either endpoint | `call` = the request as it is converted, `sent` = the wire request, `left` = events still to come, `st`, `got` = collected blocks, `received` = what an OpenAI client has put together | prepare, send, status, response, each stream event, the end, the next turn. What clients ask and providers answer are constants, which `MCProviderCall` gives |
| `BatchProviders` | the batch jobs of OpenAI and Vertex (one that is being cancelled may still finish), their statuses and their output files line by line | operators | |
| `BatchInference` | the start and poll handlers of `endpoints/batch_inference.rs` | `log` = rows of `BatchRequest` with the second of their id, `rows` = `BatchModelInference`, `inferences`/`models` = copies of result rows, `poll` = place of each poll handler, `provider`/`output` = the provider's job | `StartSample`, `VariantPrepares`, `OpenAIUploads`, `OpenAICreates`, `GCPVertexUploads`, `GCPVertexCreates`, `WriteBatchModelInferences`, `WriteBatchRequest`, `GetBatchRequest`, `PollProvider`, `WriteInferences`, `WriteModels`, `StampStatus`, `InsertStatus`, `ReadCompleted`, and an abort at every await |
| `BatchLifecycle` | what a client may rely on: a batch is recorded, its results are stored, then it is completed, or it fails; a failure may be followed by results only when the job was being cancelled and finished late | abstract | refined by `BatchInference` (`ImplementsLifecycle`) |
| `Episodes` | dynamic evaluation runs, the inferences of their episodes, feedback | `run`, `episode` = the two tables, `inference` = rows and when they became visible, `feedback` = place of each handler with its deadline | `StartRun`, `StartEpisode`, `Infer`, `InferInRun`, `WriteInference`, `LoseInference`, `SendFeedback`, `Ask` (a query, which may fail), `Accept`, `Retry`, `Wake`, `WriteFeedback`, `Tick` |
| `Datasets` | `endpoints/datasets.rs` | `rows` = versions of each row, under its key of function and id, with their `updated_at`, `edit` = the request and its open statements | each request (`UpdateDatapoint` under any function) and the end or failure of each of its statements |
| `Evaluations` | the runner | `task`, `evaluator` = where each tokio task and evaluator is, `feedback` = its rows that are stored, still being written, or lost | load, infer, evaluate, judge, send feedback, finish; `FeedbackIsWritten` = the gateway's spawned insert |
| `Optimization` | `list_inferences` filters, the workflow, four providers' jobs | `files`, `job`, `deployed` = the provider's, `polls` = handlers of the poll endpoint | launch, upload, create, poll, deploy |
| `Workflows` | the three modules above over one database | | |
| `Migrations` | every migration: objects it needs, objects `should_apply` looks for, statements of `apply` | data | |
| `MigrationManager` | start-up and `migration_manager::run` of several gateways | `schema` = objects in ClickHouse, `missing` = rows a table lacks of another, `at`/`step` = place of each gateway | `Start`, `Check`, `Apply`, `Record`, `Listen`, `Serve`, `Shutdown`, `Crash` |
| `Vectors` | what the code does with a `Vec`: running sums, pushing the elements a loop keeps, `extend`, `filter`, `swap_remove`; loops are recursive functions of the round | | |
| `InferenceProofs`, `ModelInferenceProofs`, `BatchInferenceProofs`, `EpisodesProofs` | theorems about the modules of these names | | |
| `WorkflowsProofs` | theorems about `Datasets`, `Evaluations` and `Optimization` under `Workflows` | | |
| `MigrationManagerProofs` | facts about the list of migrations, and the theorems about the gateways that run it | | |
| `VariantProofs` | theorems about `SampleVariant`, `StreamUsage` and `CandidateVariants` | | |
| `ProviderProofs` | theorems about `ProviderCall` and the four modules whose operators it runs | | |
| `ProviderTerms` | the terms of those proofs: what is said, what follows what, what holds of a conversion | | |

The composition is by refinement of outcomes: `Inference` takes a variant to succeed
or fail, and `CandidateVariants` and `ModelInference` are what happens inside;
`ModelInference` takes a provider to answer, stream or fail, and `ProviderCall` is what
is said in between; `Inference` and `BatchInference` take `sample_variant` as the set of
variants it can return (`Sampleable`), which `SampleVariant` checks draw by draw;
`Inference` says when a stream's buffer is stored, and `StreamUsage` what it holds;
`Episodes` takes the trailing write of `Inference` as a row that appears late or never;
`Evaluations` reads the table `Datasets` writes; `ProviderCall` runs the operators of
`FunctionCalls`, `ProviderRequests`, `ProviderResponses` and `OpenAICompatible` in
sequence, and `BatchInference` those of `BatchProviders`.

Abstractions common to all: prompts, outputs and ids are model values or dropped;
texts are sequences of a few pieces; a request whose file is not stored, since the object
store is disabled (`endpoints/inference.rs:788`) or observability is off (`:835`), is one
without a file (`NoFile`); the cache key is taken as injective; a ClickHouse
statement is atomic; formatting, logging and metrics are left out. Definitions named
`X_Something` next to a definition `X` are faulty variants of it: each property is
accompanied by one that breaks it (`mutants` in `PROJECT.json`).

## 3. The runs

- **inference_sync** (`MCInferenceSync.cfg`): one request with every combination of
  parameters, four variants (two of positive weight, one unweighted, one of weight
  zero), writes awaited. Checks the fallback order, that `AllVariantsFailed` means
  all were tried, that the answer follows the write, and that every request ends.
- **inference_async** (`MCInferenceAsync.cfg`): two requests that may share a file,
  background writes, one failed write and one crash anywhere (a shutdown, which does not
  wait for spawned tasks, is such a crash). Checks the row order, the files, and that
  what was served is stored in full, but for the rows whose own insert failed.
- **model_cache** (`MCModelCache.cfg`): two concurrent calls of any kind that share
  the cache, one possibly a dryrun, two seconds. Checks what gets into the cache.
- **model_routing** (`MCModelRouting.cfg`): one call with every option over two
  providers, one retry, both timeouts. Checks the routing order, the number of
  requests and termination when providers or ClickHouse never answer.
- **sample_variant** (`MCSampleVariant.cfg`): three variants with weights 0 to 3 in any
  order, all subsets of candidates, all hashes 0 to 8. Checks that each candidate is
  drawn once, weighted ones first, and in proportion to its weight to less than one
  hash value.
- **stream_usage** (`MCStreamUsage.cfg`): chat and JSON streams of up to three chunks
  of any shape, cached or not, after up to two other model inferences, cached or not.
  Checks that tokens are never over-reported, are fully reported when the stream was
  not cached, and what the stored row counts.
- **candidates** (`MCCandidateVariants.cfg`): three candidates of any kind that answer,
  fail or time out in any order; the judge answers, fails, names one out of range, or is
  not needed; the variant itself has a timeout or not. Checks that the named candidate is
  the returned one although unparsed ones were skipped and `swap_remove` moves the rest,
  that one success is enough unless that timeout passes, and that every call of a result is
  stored once, the one that wrote it first.
- **providers** (`MCProviderCall.cfg`): nineteen provider adapters, conversations with
  calls, results, images, files, thoughts and unknown blocks, answers of up to a few blocks,
  streamed in every interleaving their API permits, a garbled event or a bad status
  anywhere, and a second turn. Checks that streaming changes nothing, that the request
  carries the conversation and keeps the API's rules, and that the answer is remembered in
  the next turn by a client of either endpoint.
- **batch** (`MCBatchInference.cfg`): two inferences, one whose stored schema does not
  parse, a job at OpenAI or Vertex whose file may have missing, partial or garbled
  lines, two pollers, one handler aborted anywhere, three seconds. Checks that results
  precede the completed row, that a completed response is whole, that a batch the client
  holds is recorded, that completion is recorded eventually, unless the job was being
  cancelled, and the refinement of `BatchLifecycle`.
- **episodes** (`MCEpisodes.cfg`): a run, an episode, an inference whose row comes late or
  never, and feedback of every kind and level, with a cooldown of four ticks, a minimum
  wait of two, queries of up to one that may fail. Checks that feedback is refused only for a target
  that was not there in time and stored only for one that was, that inferences follow
  their run, and that feedback is always answered.
- **workflows** (`MCWorkflows.cfg`): three requests on a dataset of two datapoints under
  three functions, two of them of one table, each statement of which may fail; an evaluation
  with an exact-match evaluator and a judge that share one permit, with one more edit while
  the dataset is loaded, and feedback that the gateway answers before it inserts the row,
  one of which it may fail to insert; optimization requests at four providers over three
  sets of stored inferences, with one failed call and two overlapping polls. Checks that the
  last answered edit of a function's datapoint is the visible one, that the evaluation ends
  and that what it reports is stored, or on its way, that the job has its examples, and that
  it is reported completed when, and eventually if, its model is served.
- **migrations** (`MCMigrationManager.cfg`): two gateways with one crash anywhere, on a
  new server, and on databases that stopped at migrations 0011 and 0022 (with the leftovers
  of the banned ones). Checks that a gateway fails only where it counts the rows of a table
  that the other one dropped since it looked for it, and never both; that one serves only on
  a whole schema, and that an upgrade without a crash copies every row.

### Where the code departs from what the repository says

The models have these steps; no property can hold there, and the properties above say
what remains true. Those that contradict a comment or a test are quoted in `findings`.

*Batches.* Two polls that overlap store every inference twice; a slow poll appends a
pending row after the completed one, and the batch is pending again; a lost answer of the
provider leaves a job nobody polls, and so does a failed insert; `start_batch_inference` of
OpenAI does not look at the HTTP status; a completed job without an output file, or
without a usable line, makes every poll fail for ever; `Cancelling` counts as failed, so that a job which finishes
all the same stays failed, or is completed by a poll that overlapped the one that met it
cancelling (`Late`); `StartAccept` keeps zero-weight variants, which in the inference endpoint "can only be used
if explicitly pinned" (`endpoints/inference.rs:273`).

*Inference and cache.* A stream that ends without a chunk is rejected and cached, and
the next call is served the empty stream; `CacheHit` of a plain call writes its row back
with a new timestamp, against "The `timestamp` is the timestamp of the request"
(`clickhouse/migration_manager/migrations/migration_0011.rs:12`), so `max_age_s` never
expires an entry that is read often enough; with the hash `u32::MAX` the fallback of
`sample_variant` indexes with `variants.len() - 1` a list that has fewer elements, and
panics; `Disconnect` cuts an inline write of a stream between two rows, though the write
is in code that "will not be reached if the stream is interrupted"
(`endpoints/inference.rs:625`); when the final stream comes from the cache, the tokens
billed for uncached candidates are never reported; the usage of other model inferences is
put into the buffer that is stored for the streamed one.

*Variants.* The calls of a candidate that timed out are recorded nowhere; the timeout of
a best-of-n or mixture-of-n variant drops what its candidates returned with the judge it
waits for, and the request fails although one succeeded; `extra_body`
makes the judge fail, silently, and a random candidate is returned; a non-streaming result
that is turned into a stream loses the thoughts of a JSON output, and fails on an unknown
block.

*Providers.* Two consecutive calls of one tool are merged by the Gemini streams, and
Mistral's second one gets no name if both come in one event (`RepeatedNames = TRUE` in
`MCProviderCall.cfg` admits them, and `StreamedIsWhole` fails); `stream_mistral` forgets the
last name at every event, so a call of Mistral's that is spread over several events, each with
the name, collects the name once per event (`SplitCalls <- MCProviders` admits such streams,
and `StreamedIsWhole` fails; in the run Mistral sends a call whole, one or two in an event);
text that shares a delta with a thinking tag is lost, and an
unclosed tag is an error only without streaming; Anthropic's streamed call without
arguments collects an empty string, which the next turn refuses; Bedrock filters empty
messages in `infer` and not in `infer_stream`; azure and hyperbolic streams are not asked
for usage; hyperbolic is sent no tools, TGI none when streaming; the OpenAI-compatible
endpoint skips stream errors and drops thoughts and unknown blocks, and quotes a tool
result that is a string once more; `allowed_tools` may name tools of other functions. The model
therefore assumes: thinking tags come in deltas of their own, AI Studio puts no signature
on a later text part, the answer of a JSON function is one block, Anthropic's usage events
report their own share, tool arguments are not empty.

*Datasets and evaluations.* Updating a deleted datapoint brings it back; an update that
names another function, of the same table or the other, leaves the old row live under its
own key, so that one id is two datapoints; delete and stale insert
every version again; a request that writes both tables may be applied to one of them; the
error "Datapoint with this source_inference_id already exists" is never raised. An evaluator
without any score has mean 0, which a cutoff to be minimised accepts; with `jsonl` output
no cutoff is checked; `--concurrency 0` never ends. The gateway answers feedback before it inserts the row and
ignores a failed insert: a score that was reported may be stored later, or never
(`feedback.lost`), and `ReportIsStored` says that every reported score was handed to that
insert, and compares the report with the rows when none is open or lost.

*Feedback.* A query that fails is retried like one that finds nothing, and its error is the
answer only if it is the last query before the deadline.

*Optimization.* `launch_optimization` takes any two lists of samples, which may overlap or be
empty; only those of the workflow are disjoint (`JobHasItsExamples`). A metric an inference does not have reads as 0 in a filter; a
`val_fraction` outside (0, 1) is an error; one example that cannot be converted fails the
launch; two overlapping polls may both start a Fireworks deployment; a job whose creation
answer is lost is orphaned; `cancel_requested` and its likes count as failed.

*Migrations.* Migration 0016 looks for a dataset table of an old version and then counts
its rows, in two queries: when another gateway drops the table in between, the COUNT and with
it the start of the gateway fails; `should_apply` of 0009 looks for tables and not for views, that of 0027 not
for the last `MATERIALIZE INDEX` (the set `Unchecked`); after a crash between the views
and the backfill of a migration the next gateway finds the views and never copies the old
rows; a slow gateway that found an empty server exchanges tables that another one already
serves from; temporary tables of a crashed migration stay. Rows whose ids are older than a
view's timestamp but that arrive after its backfill are not modelled.

### Bounds

Two is enough wherever actors only meet pairwise: two requests meet in a shared file,
two pollers in the status rows, two calls in a cache row, two gateways in a schema, two
polls in a deployment. Two providers give a primary and a fallback, with one retry a
second attempt; three chunks give a first, a middle and a last one; three candidates let
one be skipped before and one after the chosen one. A clock of two or three seconds gives
rows of the same second, of successive seconds, and rows older than `max_age_s = 1`. Two functions of one table and one of the other let a datapoint be
updated under another function with and without a change of table. In
`Episodes` the ticks keep the order of the code's constants (poll < minimum wait <
cooldown), and `LastStart` leaves time for every poll to end before the clock does.
One crash, one abort, one failed call or one or two failed writes are placed at every step.
`MaxCopies = 2` tells once from more than once. One permit in `Evaluations` is the smallest
semaphore and the one a task and its judge fight for. Symmetry over calls, variants and
gateways is used only in runs without liveness properties; **migrations** has a view
without the rows of `TensorZeroMigration`, which no code reads.

### Fairness

- `Inference`: weak fairness of the handler's and the writer's steps: tokio schedules
  ready tasks, a variant's future ends (its providers answer or time out), an insert
  returns. Nothing is assumed of clients, crashes or further chunks.
- `ModelInference`: weak fairness of the gateway's own steps and of timers only; nothing
  is assumed of providers and ClickHouse, so `CallEnds` is due to the timeouts.
- `BatchInference`: handlers proceed, the provider's job moves on, time passes and
  clients poll again; aborts are bounded.
- `Episodes`: time passes and started handlers run; a query takes at most `Latency`, which
  is an assumption on ClickHouse. Nothing is assumed of the inference's write.
- `Workflows`: the runner's tasks are scheduled and the gateway answers or refuses their
  requests (nothing is assumed of its spawned inserts, `WriteFeedback`); the caller polls again, and the provider ends its jobs and deployments.

Deadlock is checked in every run but **workflows**, where a workflow ends; the stuttering
steps `Quiescent`, `AllDone`, `Finished`, `StreamFinished`, `NoBatch`, `TimeIsUp`, `Done`, `Ended` and `Served` of
the others are enabled only where nothing is left to do.

## 4. The proofs

Assumptions: those named `...Assumption` in the modules, all about the constants and all
evaluated by TLC in the runs. They say that bounds are numbers, that options and data have
their shape, and that `None` and its likes are not among the values they stand beside. What
they say of the code: weights partition the variants; `routing` is non-empty without
duplicates as `ModelConfig::validate` enforces, and for batches has a provider that
supports them; the minimum wait is no longer than the cooldown and the poll interval is not
zero, as in `feedback.rs`; the runner has a permit; the variants of a function are
finitely many; a database a gateway finds is one whose migrations ran in order (`InOrder`),
or a new one. What they say of a client (`AsksAssumption`): its messages are those the
endpoint can parse, and a tool result directly follows the message with its call, or other
results. The gateway does not check this order, so a conversation that breaks it reaches
the provider, which refuses it. Of a provider's answers
(`RepliesAssumption`) only that they are sequences of blocks.

`InferenceProofs`, for any requests, variants, files and bounds:

- `TypeCorrect`. `TypeOK` alone is not inductive: the write position could leave its
  range if the number of results changed during a write. `WriterBound` says that no
  write runs while a result can still be chosen.
- `RowOrder`, `SyncAnswer`, `ServedIsStored`, `SpawnShieldsWrite`, `FileStored`, `DryrunSafe` follow from
  `WriteInv`: the rows stored or lost are exactly those before the write position, a
  finished write is at its end, and each place of the handler goes with one kind of
  write task.
- `FallbackOrderHolds`, `AllTried` follow from `FallbackInv`: the candidates left, the
  failed ones and the one being tried partition the candidates the filters allow.

`ModelInferenceProofs`, for any routing, calls, retries and timeouts:

- `ModelTypeCorrect`, from `Typed`: a provider being tried is in `routing`, and a stream
  that goes on has a response to go on with.
- `RoutingFollowed`, from `RoutingInv`: `provider_errors` holds exactly the entries of
  `routing` before the current one, through every timeout and retry.
- `RequestBound`, from `SentInv`: earlier attempts cost at most one request per entry,
  this one at most one per entry up to the current one.
- `CacheSound`, `RowsOfTheirCalls`, from `CacheInv`: soundness of a row goes back to the
  spawned write and from there to the stream it was taken from.

`BatchInferenceProofs`, for any batch, routing, output file, number of pollers and aborts:

- `TypeCorrect`, `CompletedRowsAreStored`, `CompletedResponsesAreWhole` and
  `StartedBatchesAreRecorded` follow from `IInv`. Its core: a job completes once and its
  output does not change afterwards, and one that failed stays failed unless it finishes
  late, so what a poller was told stays true while it writes, is aborted or is overtaken
  (`Learned`); and a poller at some place has written everything the
  places before it write (`Written`). `CompletedIsStored` alone is not inductive because the
  row that says completed may be inserted long after the provider was asked.
- `BatchesImplementLifecycle`: every step maps to a step or a stutter of `BatchLifecycle`,
  under the mapping of `ImplementsLifecycle`; the invariant is needed for the steps that
  insert a status.

`EpisodesProofs`, for any inferences, feedback requests, waits and latency:

- `Invariance`, `TypeCorrect`, `FeedbackFollowsItsTarget`: a row that a query missed became
  visible after the query was sent, a query is answered within `Latency` of being sent, and
  the deadline is fixed when the wait begins; so a handler that gives up sent its last query
  after the time at which the target should have been there.
- `InferencesFollowTheirRun`: a row copied from another stays a copy (`RunInv`).

`WorkflowsProofs`, for any datapoints, evaluators, stored inferences, requests and faults;
the three workflows share no variable, so each has its own invariant:

- `DatasetInvariance`, `DatasetsKeepTheirWord`: no version is stamped later than the clock,
  so the one inserted last is final, and a request in flight has settled the keys (function
  and id) whose statement ran.
- `EvaluationInvariance`, `ReportsAreStored`: a score is kept exactly when its feedback was
  answered, which leaves its row stored, being written or lost (`Sent`), and a task that was
  collected does not move any more; so the sums of the report are over the rows of `Sent`.
- `OptimizationInvariance`, `CompletedModelsAreServed`, `JobsHaveTheirExamples`: the sets
  are fixed when the request is launched, a file holds the set it was made of, a completed
  job stays completed. The lemma `FilterIsMet` says
  that where every metric has a value the SQL filter, which reads a missing one as 0, is the
  filter on the latest values (`Meets`).

`MigrationManagerProofs`, for any number of gateways and crashes, and
any database that is in order:

- The first lemmas go through the list migration by migration: what each
  one needs is looked for by an earlier one, what it makes is what it looks for, what it
  drops nobody needs later, a rebuilt table keeps its name.
- `SchemaInvariance`, `TypeCorrect`, `GatewaysDoStart`: the schema only loses what
  migrations 0016 and 0029 drop (`Grows`), so whatever other gateways do, a gateway finds
  what the migrations behind it look for and what its statements behind it made
  (`SchemaInv`). The one failure that remains is at the COUNT of migration 0016, of a
  dataset table that has rows, or that went since the gateway looked for it, which takes
  another gateway (`Counting`). Not all fail that way, since the gateway that dropped a table
  last has counted before and, started again, finds nothing to count (`Survivor`).
- `OrderInvariance`, `WholeSchemaIsServed`: three views of 0009 and four indexes of 0027 that
  no `should_apply` looks for are made before an object that one does look for; the two of
  `Unchecked` are not, and a served schema may lack them after a crash.
- `CopyInvariance`, `UpgradesKeepRows`: without crashes, a table that lacks rows has a
  running gateway that made it and is not yet past the statement that fills it.

`VariantProofs`, for any variants, weights, hashes, chunks, earlier results and candidates:

- Loops are recursive functions (`Vectors`). That they exist and unfold, and what they
  compute, is proved by induction in the form of `Least`: a non-empty set of natural
  numbers has a least element (`WFMin` of the library, which takes a set and not an
  operator).
- `StreamInvariance`, `UsageIsBilled`, `StoredUsageIsWhole`: what the client was told and
  what `extra_usage` still holds is what it is billed, or less if the stream was cached.
- `DrawInvariance`, `WeightDrawsFirst`: while a candidate with weight is left, none
  without weight was drawn, since a hash below `u32::MAX` falls into a share that is not
  empty (`WeightedDraw`).
- `DrawsAreProportional`: the hashes that draw a position are those whose multiple by the
  total falls between two cumulative weights (`WeightedDraw`, `UniformDraw`), and
  `Multiples` counts them.
- `CandidatesInvariance`: which calls were made follows from the phases of the candidates
  (`MadeInv`), and the judge was shown what there is to show (`JudgeInv`), so the index
  it names is mapped with the same list of skipped results. The invariant holds the
  three properties as well.
- `CallsAreStoredOnce`: a concatenation of lists without repetition and without a common
  element has none either (`Joined`, `FlattenJoins`), `swap_remove` loses the returned
  result alone (`RemovedDistinct`), and calls of two results never meet (`CallsOfMany`).
- `NamedOnesAreReturned`: `IndexIsMapped` goes through the positions of the results. After
  each one the index is the named one moved past the skipped ones so far, until as many
  were included as the name asks for (`CountingPast`).
- `OneCandidateIsEnough`: every way a judge can fail returns one of the results
  (`AnyReturned`).

`ProviderProofs`, for each of the nineteen providers, any request of a client of either
endpoint, any answer, and any order and any failure of the events of its stream:

- The loops of an adapter are recursive functions of the round or maps over a list. Its
  first lemmas say when such a function goes piece by piece (`IsHom`: the image of two lists
  put together is their images put together), again by a least element. What is said in a
  conversation under a role, of a type, is such a function (`SaidHom`); so a conversion that
  is right for each message is right for all of them.
- Provider by provider: its messages say what the conversation says (`Carries`), results
  still follow calls (`ToolsFollow`), joining messages of one role loses nothing and leaves
  the roles alternating, a hint that mentions JSON is added unless there is one, the tools
  and the choice are those of the request. `RequestsFit` puts the nineteen together: a request
  that an adapter is called with and does not refuse (`Callable`) becomes one with both
  properties.
- `CallStaysSane`: the inductive invariant `CallInv`. What is sent is only as good as the
  conversation it is made of, and that of the second turn is made of what was collected
  from a response or a stream, or put together by an OpenAI client; so the invariant says of
  every phase what the next one needs: a client's request, a callable one after the handler's
  checks, the adapter's conversion of it, blocks collected from any events in any order, and
  again a client's request.
- `InputsAreCarried` and `RequestsAreAccepted` follow from `CallInv` and `RequestsFit`.

The type invariants, the inductive invariants, `DisconnectKeepsSpawnedWrite` and
`DryrunStoresNothing` are proved and in no run.

Only model-checked: the liveness properties (`EveryRequestEnds`,
`CallEnds`, `CompletionIsRecorded`, `FeedbackIsAnswered`, `RunEnds`, `EndIsReported`),
which need fairness; and `StreamedIsWhole` and `AnswerIsRemembered`. These two do not hold
of every answer (see *Providers* above): they need assumptions on what each provider says
and on how it cuts it into events, and for each adapter an invariant that relates the events
still to come and those already collected to the answer as a whole.

## 5. Not modelled

Clients, the UI, recipes, the recording proxy, metrics, tracing and the usage ping keep no
state of the gateway. Configuration is read once: parsing it, the loading of credentials
and models, and rendering templates are functions of their input with no further control.
What JSON Schema accepts, what `extra_body` pointers rewrite and the encoding of embeddings
are data. Providers' services, ClickHouse and the object store are environments, modelled
by what the code may see of them. Batch polls for a single inference id read the same rows
as polls for the batch and are not told apart. The dummy provider is a test double.
Panics of tasks of the evaluations runner are left out.

## 6. Plan

The models cover the parts that keep or share state. Of their safety properties
`StreamedIsWhole` and `AnswerIsRemembered` are left to prove. The first needs, adapter by
adapter, the invariant that what was collected followed by what the events still to come
would add is the answer; `ProviderProofs` has the lemmas about collecting chunks to start
from. The second then follows for the streamed turn from the first, and for the next
request from the lemmas behind `InputsAreCarried`.
