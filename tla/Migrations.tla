----------------------------- MODULE Migrations -----------------------------
(***************************************************************************)
(* The ClickHouse migrations of the gateway (migration_manager/migrations)  *)
(* as data: what each one requires (can_apply), what it looks for           *)
(* (should_apply) and the statements it runs, in order (apply).             *)
(*                                                                          *)
(* A schema object is a pair <<table or view, part>>: part "itself" is the *)
(* table or view, any other part a column, an index, or a type or engine   *)
(* that a migration gives it.  Row formats, defaults and comments are left  *)
(* out.                                                                     *)
(***************************************************************************)
EXTENDS Naturals, Sequences

Table(t) == <<t, "itself">>
Tables(ts) == {Table(t) : t \in ts}
Parts(t, ps) == {<<t, p>> : p \in ps}

(***************************************************************************)
(* Statements                                                               *)
(***************************************************************************)
Statement(op, objects, from) == [op |-> op, objects |-> objects, from |-> from]

\* CREATE ... IF NOT EXISTS, ADD COLUMN IF NOT EXISTS, ADD INDEX IF NOT EXISTS and
\* MODIFY COLUMN: afterwards the objects are there; the tables named must be.
Create(objects, from) == Statement("create", objects, from)
CreateTable(t) == Create({Table(t)}, {})
AddColumns(t, ps) == Create(Parts(t, ps), {Table(t)})

\* CREATE MATERIALIZED VIEW IF NOT EXISTS v TO t AS SELECT ... FROM sources.
CreateView(v, t, sources) == Create({Table(v)}, {Table(t)} \cup sources)

\* DROP ... IF EXISTS.
DropTable(t) == Statement("drop", {Table(t)}, {})

\* check_table_exists(t) inside apply.
Look(t) == Statement("look", {Table(t)}, {})

\* If t was found, table_is_nonempty(t): a COUNT, and an error unless it is zero.
RequireEmpty(t) == Statement("require_empty", {Table(t)}, {Table(t)})

\* CREATE of t, or of a temporary table if t was found; EXCHANGE with t and DROP of the
\* temporary table.
CreateOrTemp(t, ps) == Statement("create_or_temp", {Table(t)} \cup Parts(t, ps), {})
Exchange(t, ps) == Statement("exchange", Parts(t, ps), {Table(t)})
DropTemp == Statement("drop_temp", {}, {})

\* Unless on a clean start: sleep(view_offset), then one INSERT INTO t SELECT ... FROM s
\* for each pair <<t, s>>, concurrently; <<t, s>> also names the rows of s copied to t.
Backfill(pairs, from) == Statement("backfill", pairs, from)

\* A row written to t.
Write(t) == Statement("write", {<<t, "row">>}, {Table(t)})

Migration(needs, checks, steps) ==
    [needs |-> needs, checks |-> checks, absent |-> {}, steps |-> steps]

-----------------------------------------------------------------------------
InferenceTables == Tables({"ChatInference", "JsonInference"})

DatapointTables == Tables({"ChatInferenceDatapoint", "JsonInferenceDatapoint"})

FeedbackTables ==
    Tables({"BooleanMetricFeedback", "CommentFeedback", "DemonstrationFeedback",
            "FloatMetricFeedback"})

Migration0000 ==
    LET steps == <<CreateTable("BooleanMetricFeedback"), CreateTable("CommentFeedback"),
                   CreateTable("DemonstrationFeedback"), CreateTable("FloatMetricFeedback"),
                   CreateTable("ChatInference"), CreateTable("JsonInference"),
                   CreateTable("ModelInference")>>
    IN  Migration({}, FeedbackTables \cup InferenceTables \cup Tables({"ModelInference"}), steps)

Migration0002 ==
    Migration({}, Tables({"DynamicInContextLearningExample"}),
              <<CreateTable("DynamicInContextLearningExample")>>)

Migration0003Checks ==
    Tables({"FeedbackTag"})
      \cup {<<t[1], "tags">> : t \in FeedbackTables}
      \cup Tables({"BooleanMetricFeedbackTagView", "CommentFeedbackTagView",
                   "DemonstrationFeedbackTagView", "FloatMetricFeedbackTagView"})

Migration0003 ==
    LET tagView(v, t) == CreateView(v, "FeedbackTag", {Table(t), <<t, "tags">>})
    IN  Migration(FeedbackTables, Migration0003Checks,
          <<CreateTable("FeedbackTag"),
            AddColumns("BooleanMetricFeedback", {"tags"}), AddColumns("CommentFeedback", {"tags"}),
            AddColumns("DemonstrationFeedback", {"tags"}), AddColumns("FloatMetricFeedback", {"tags"}),
            tagView("BooleanMetricFeedbackTagView", "BooleanMetricFeedback"),
            tagView("CommentFeedbackTagView", "CommentFeedback"),
            tagView("DemonstrationFeedbackTagView", "DemonstrationFeedback"),
            tagView("FloatMetricFeedbackTagView", "FloatMetricFeedback")>>)

Migration0004 ==
    Migration(Tables({"ModelInference"}),
              Parts("ModelInference", {"system", "input_messages", "output"}),
              <<AddColumns("ModelInference", {"system", "input_messages", "output"})>>)

Migration0005 ==
    LET tagView(v, t) == CreateView(v, "InferenceTag", {Table(t), <<t, "tags">>})
    IN  Migration(InferenceTables,
          Tables({"InferenceTag", "ChatInferenceTagView", "JsonInferenceTagView"})
            \cup {<<"ChatInference", "tags">>, <<"JsonInference", "tags">>},
          <<CreateTable("InferenceTag"),
            AddColumns("ChatInference", {"tags"}), AddColumns("JsonInference", {"tags"}),
            tagView("ChatInferenceTagView", "ChatInference"),
            tagView("JsonInferenceTagView", "JsonInference")>>)

Migration0006 ==
    Migration({}, Tables({"BatchModelInference", "BatchRequest", "BatchIdByInferenceId",
                          "BatchIdByInferenceIdView"}),
              <<CreateTable("BatchModelInference"), CreateTable("BatchRequest"),
                CreateTable("BatchIdByInferenceId"),
                CreateView("BatchIdByInferenceIdView", "BatchIdByInferenceId",
                           Tables({"BatchModelInference"}))>>)

Migration0008 ==
    LET batch == {"raw_request", "raw_response", "function_name", "variant_name",
                  "errors_array"}
        times == {<<"ModelInference", "response_time_ms_nullable">>,
                  <<"ChatInference", "processing_time_ms_nullable">>,
                  <<"JsonInference", "processing_time_ms_nullable">>}
    IN  Migration(InferenceTables \cup Tables({"ModelInference", "BatchRequest"}),
          Parts("BatchRequest", batch) \cup times,
          <<AddColumns("BatchRequest", batch),
            AddColumns("ModelInference", {"response_time_ms_nullable"}),
            AddColumns("ChatInference", {"processing_time_ms_nullable"}),
            AddColumns("JsonInference", {"processing_time_ms_nullable"})>>)

\* For each of the four: the table, then its view; the backfills run concurrently.
Migration0009Steps ==
    LET view(v, t, source) == CreateView(v, t, {Table(source), <<source, "tags">>})
    IN  <<CreateTable("BooleanMetricFeedbackByTargetId"),
          view("BooleanMetricFeedbackByTargetIdView", "BooleanMetricFeedbackByTargetId",
               "BooleanMetricFeedback"),
          CreateTable("CommentFeedbackByTargetId"),
          view("CommentFeedbackByTargetIdView", "CommentFeedbackByTargetId", "CommentFeedback"),
          CreateTable("DemonstrationFeedbackByInferenceId"),
          view("DemonstrationFeedbackByInferenceIdView", "DemonstrationFeedbackByInferenceId",
               "DemonstrationFeedback"),
          CreateTable("FloatMetricFeedbackByTargetId"),
          view("FloatMetricFeedbackByTargetIdView", "FloatMetricFeedbackByTargetId",
               "FloatMetricFeedback"),
          Backfill({<<"BooleanMetricFeedbackByTargetId", "BooleanMetricFeedback">>,
                    <<"CommentFeedbackByTargetId", "CommentFeedback">>,
                    <<"DemonstrationFeedbackByInferenceId", "DemonstrationFeedback">>,
                    <<"FloatMetricFeedbackByTargetId", "FloatMetricFeedback">>},
                   FeedbackTables)>>

\* should_apply looks for the tables only.
Migration0009 ==
    Migration(FeedbackTables,
              Tables({"BooleanMetricFeedbackByTargetId", "CommentFeedbackByTargetId",
                      "DemonstrationFeedbackByInferenceId", "FloatMetricFeedbackByTargetId"}),
              Migration0009Steps)

Migration0011 ==
    Migration({}, Tables({"ModelInferenceCache"}) \cup Parts("ModelInference", {"cached"}),
              <<CreateTable("ModelInferenceCache"), AddColumns("ModelInference", {"cached"})>>)

Migration0015 ==
    LET nullable == {"input_tokens_nullable", "output_tokens_nullable"}
    IN  Migration({}, Parts("ModelInference", nullable),
                  <<AddColumns("ModelInference", {"input_tokens_nullable"}),
                    AddColumns("ModelInference", {"output_tokens_nullable"})>>)

Migration0016 ==
    Migration({}, DatapointTables,
              <<Look("ChatInferenceDataset"), RequireEmpty("ChatInferenceDataset"),
                Look("JsonInferenceDataset"), RequireEmpty("JsonInferenceDataset"),
                DropTable("ChatInferenceDataset"), DropTable("JsonInferenceDataset"),
                CreateTable("ChatInferenceDatapoint"), CreateTable("JsonInferenceDatapoint")>>)

Migration0017 ==
    Migration(Tables({"ModelInferenceCache"}),
              Parts("ModelInferenceCache", {"input_tokens", "output_tokens"}),
              <<AddColumns("ModelInferenceCache", {"input_tokens", "output_tokens"})>>)

Migration0018 ==
    Migration(Tables({"ModelInference", "ModelInferenceCache"}),
              {<<"ModelInference", "finish_reason">>, <<"ModelInferenceCache", "finish_reason">>},
              <<AddColumns("ModelInference", {"finish_reason"}),
                AddColumns("ModelInferenceCache", {"finish_reason"})>>)

Migration0019 ==
    Migration({}, {<<"ChatInference", "extra_body">>, <<"JsonInference", "extra_body">>},
              <<AddColumns("ChatInference", {"extra_body"}),
                AddColumns("JsonInference", {"extra_body"})>>)

Migration0020Checks ==
    Tables({"InferenceById", "InferenceByEpisodeId", "ChatInferenceByIdView",
            "JsonInferenceByIdView", "ChatInferenceByEpisodeIdView",
            "JsonInferenceByEpisodeIdView", "uint_to_uuid"})
      \cup Parts("InferenceById", {"UInt128", "ReplacingMergeTree"})
      \cup Parts("InferenceByEpisodeId", {"UInt128", "ReplacingMergeTree"})

Migration0020Tables ==
    LET shape == {"UInt128", "ReplacingMergeTree"}
    IN  <<Look("InferenceById"), CreateOrTemp("InferenceById", shape),
          Exchange("InferenceById", shape), DropTemp,
          Look("InferenceByEpisodeId"), CreateOrTemp("InferenceByEpisodeId", shape),
          Exchange("InferenceByEpisodeId", shape), DropTemp>>

Migration0020Views ==
    LET view(v, t, source) ==
            CreateView(v, t, Tables({source}) \cup {<<t, "UInt128">>})
        backfill(t, source) == Backfill({<<t, source>>}, Tables({source, t}))
    IN  <<CreateTable("uint_to_uuid"),
          view("ChatInferenceByIdView", "InferenceById", "ChatInference"),
          view("JsonInferenceByIdView", "InferenceById", "JsonInference"),
          view("ChatInferenceByEpisodeIdView", "InferenceByEpisodeId", "ChatInference"),
          view("JsonInferenceByEpisodeIdView", "InferenceByEpisodeId", "JsonInference"),
          backfill("InferenceById", "ChatInference"), backfill("InferenceById", "JsonInference"),
          backfill("InferenceByEpisodeId", "ChatInference"),
          backfill("InferenceByEpisodeId", "JsonInference")>>

Migration0020 ==
    Migration(InferenceTables, Migration0020Checks, Migration0020Tables \o Migration0020Views)

Migration0021Checks ==
    Tables({"TagInference", "TagChatInferenceView", "TagJsonInferenceView"})
      \cup {<<t[1], "staled_at">> : t \in DatapointTables}
      \cup {<<t[1], "updated_at_now64">> : t \in DatapointTables}

Migration0021 ==
    LET view(v, t) == CreateView(v, "TagInference", {Table(t), <<t, "tags">>})
    IN  Migration(InferenceTables \cup DatapointTables, Migration0021Checks,
          <<CreateTable("TagInference"),
            AddColumns("ChatInferenceDatapoint", {"staled_at"}),
            AddColumns("JsonInferenceDatapoint", {"staled_at"}),
            AddColumns("ChatInferenceDatapoint", {"updated_at_now64"}),
            AddColumns("JsonInferenceDatapoint", {"updated_at_now64"}),
            view("TagChatInferenceView", "ChatInference"),
            view("TagJsonInferenceView", "JsonInference"),
            Backfill({<<"TagInference", "ChatInference">>, <<"TagInference", "JsonInference">>},
                     InferenceTables)>>)

Migration0022 ==
    Migration(DatapointTables, {<<t[1], "source_inference_id">> : t \in DatapointTables},
              <<AddColumns("ChatInferenceDatapoint", {"source_inference_id"}),
                AddColumns("JsonInferenceDatapoint", {"source_inference_id"})>>)

Migration0024 ==
    Migration(Tables({"JsonInference"}), Parts("JsonInference", {"auxiliary_content"}),
              <<AddColumns("JsonInference", {"auxiliary_content"})>>)

Migration0025 ==
    Migration({}, Tables({"DynamicEvaluationRun", "DynamicEvaluationRunEpisode"}),
              <<CreateTable("DynamicEvaluationRun"), CreateTable("DynamicEvaluationRunEpisode")>>)

Migration0026Checks ==
    Tables({"DynamicEvaluationRunEpisodeByRunId", "DynamicEvaluationRunEpisodeByRunIdView",
            "DynamicEvaluationRunByProjectName", "DynamicEvaluationRunByProjectNameView"})

Migration0026Steps ==
    <<CreateTable("DynamicEvaluationRunEpisodeByRunId"),
      CreateView("DynamicEvaluationRunEpisodeByRunIdView", "DynamicEvaluationRunEpisodeByRunId",
                 Tables({"DynamicEvaluationRunEpisode"})),
      CreateTable("DynamicEvaluationRunByProjectName"),
      CreateView("DynamicEvaluationRunByProjectNameView", "DynamicEvaluationRunByProjectName",
                 Tables({"DynamicEvaluationRun"}))>>

\* Mutant: should_apply does not look for the last view.
Migration0026_LastView ==
    Migration(Tables({"DynamicEvaluationRun", "DynamicEvaluationRunEpisode"}),
              Migration0026Checks \ Tables({"DynamicEvaluationRunByProjectNameView"}), Migration0026Steps)

Migration0026 ==
    Migration(Tables({"DynamicEvaluationRun", "DynamicEvaluationRunEpisode"}),
              Migration0026Checks, Migration0026Steps)

\* Each index is added and then materialized for the rows already there.
Migration0027 ==
    LET materialize(t, i) == Create({<<t, "materialized">>}, {<<t, i>>})
    IN  Migration(InferenceTables \cup DatapointTables \cup Tables({"TagInference"}),
          {<<t[1], "inference_id_index">> : t \in InferenceTables}
            \cup {<<t[1], "id_index">> : t \in DatapointTables}
            \cup {<<"TagInference", "inference_id_index">>},
          <<AddColumns("TagInference", {"inference_id_index"}),
            materialize("TagInference", "inference_id_index"),
            AddColumns("ChatInference", {"inference_id_index"}),
            materialize("ChatInference", "inference_id_index"),
            AddColumns("JsonInference", {"inference_id_index"}),
            materialize("JsonInference", "inference_id_index"),
            AddColumns("ChatInferenceDatapoint", {"id_index"}),
            materialize("ChatInferenceDatapoint", "id_index"),
            AddColumns("JsonInferenceDatapoint", {"id_index"}),
            materialize("JsonInferenceDatapoint", "id_index")>>)

Migration0028Checks ==
    Tables({"StaticEvaluationHumanFeedback", "StaticEvaluationFloatHumanFeedbackView",
            "StaticEvaluationBooleanHumanFeedbackView"})

Migration0028Views ==
    LET inferences == InferenceTables \cup {<<"InferenceById", "UInt128">>}
    IN  <<CreateTable("StaticEvaluationHumanFeedback"),
          CreateView("StaticEvaluationFloatHumanFeedbackView", "StaticEvaluationHumanFeedback",
                     inferences \cup {<<"FloatMetricFeedback", "tags">>}),
          CreateView("StaticEvaluationBooleanHumanFeedbackView",
                     "StaticEvaluationHumanFeedback",
                     inferences \cup {<<"BooleanMetricFeedback", "tags">>})>>

\* One INSERT from both feedback tables, of the rows since apply began: the views of the
\* banned migration 0023 had copied the older ones.
Migration0028Backfill ==
    Backfill({<<"StaticEvaluationHumanFeedback", "MetricFeedback">>},
             InferenceTables \cup {<<"InferenceById", "UInt128">>, <<"FloatMetricFeedback", "tags">>,
                                   <<"BooleanMetricFeedback", "tags">>})

Migration0028 ==
    Migration(Tables({"FloatMetricFeedback", "BooleanMetricFeedback"}), Migration0028Checks,
              Append(Migration0028Views, Migration0028Backfill))

\* Drops the views of the banned migration 0023.
Migration0029 ==
    [needs  |-> {},
     checks |-> {},
     absent |-> Tables({"StaticEvaluationHumanFeedbackFloatView",
                        "StaticEvaluationHumanFeedbackBooleanView"}),
     steps  |-> <<DropTable("StaticEvaluationHumanFeedbackFloatView"),
                  DropTable("StaticEvaluationHumanFeedbackBooleanView")>>]

Migration0030 ==
    LET modify(t) == Create({<<t, "finish_reason_stop_sequence">>}, {<<t, "finish_reason">>})
    IN  Migration({}, {<<"ModelInference", "finish_reason_stop_sequence">>,
                       <<"ModelInferenceCache", "finish_reason_stop_sequence">>},
                  <<modify("ModelInference"), modify("ModelInferenceCache")>>)

Migration0031 ==
    Migration({}, {<<"ChatInference", "ttft_ms">>, <<"JsonInference", "ttft_ms">>},
              <<AddColumns("ChatInference", {"ttft_ms"}), AddColumns("JsonInference", {"ttft_ms"})>>)

Migration0032 ==
    Migration({}, {<<t[1], "is_custom">> : t \in DatapointTables},
              <<AddColumns("ChatInferenceDatapoint", {"is_custom"}),
                AddColumns("JsonInferenceDatapoint", {"is_custom"})>>)

\* The table must hold a row too.
Migration0033 ==
    Migration({}, {Table("DeploymentID"), <<"DeploymentID", "row">>},
              <<CreateTable("DeploymentID"), Write("DeploymentID")>>)

\* Mutant: 0028 runs before the tables it reads are rebuilt.
AllMigrations_EarlyFeedback ==
    <<Migration0000, Migration0002, Migration0003, Migration0004, Migration0005, Migration0006,
      Migration0008, Migration0009, Migration0028, Migration0011, Migration0015, Migration0016,
      Migration0017, Migration0018, Migration0019, Migration0020, Migration0021, Migration0022,
      Migration0024, Migration0025, Migration0026, Migration0027, Migration0029, Migration0030,
      Migration0031, Migration0032, Migration0033>>

\* make_all_migrations: the order in which a gateway runs them.
AllMigrations ==
    <<Migration0000, Migration0002, Migration0003, Migration0004, Migration0005, Migration0006,
      Migration0008, Migration0009, Migration0011, Migration0015, Migration0016, Migration0017,
      Migration0018, Migration0019, Migration0020, Migration0021, Migration0022, Migration0024,
      Migration0025, Migration0026, Migration0027, Migration0028, Migration0029, Migration0030,
      Migration0031, Migration0032, Migration0033>>

(***************************************************************************)
(* What the banned migrations of older versions left behind.                *)
(***************************************************************************)
\* 0013: the same tables and views as 0020 on a MergeTree.
Legacy0013 ==
    Migration0020Checks \ {<<"InferenceById", "ReplacingMergeTree">>,
                           <<"InferenceByEpisodeId", "ReplacingMergeTree">>}

\* 0014 and 0023: the tables and views that 0016 and 0029 drop, and the table that 0028
\* would create.
LegacyDatasets == Tables({"ChatInferenceDataset", "JsonInferenceDataset"})
LegacyFeedback == Migration0029.absent \cup Tables({"StaticEvaluationHumanFeedback"})
=============================================================================
