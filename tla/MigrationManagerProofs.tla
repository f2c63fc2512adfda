------------------------ MODULE MigrationManagerProofs ------------------------
(***************************************************************************)
(* Theorems about MigrationManager, for any number of gateways and crashes  *)
(* and for every database whose migrations ran in order.                    *)
(***************************************************************************)
EXTENDS MigrationManager, SequenceTheorems, TLAPS

(***************************************************************************)
(* What the list of migrations guarantees, migration by migration: each one *)
(* finds what it needs, looks for what it makes, and leaves alone what the  *)
(* others made.                                                             *)
(***************************************************************************)
\* A schema object: the name of its table or view, and which part of it.
Part(t, p) == <<t, p>>
Name(o) == o[1]
Aspect(o) == o[2]

Adds(s) == s.op \in {"create", "write", "create_or_temp", "exchange"}

\* What a gateway that is past a statement can rely on.
Ensured(s) ==
    IF Lasting(s) THEN s.objects
    ELSE IF s.op = "exchange" THEN s.objects \cup s.from ELSE {}

\* What a gateway that has come to migration i can rely on.
Known(i) == UNION {AllMigrations[j].checks : j \in 1 .. (i - 1)}

\* The tables and views that 0016 and 0029 drop.
DroppedNames ==
    {"ChatInferenceDataset", "JsonInferenceDataset", "StaticEvaluationHumanFeedbackFloatView",
     "StaticEvaluationHumanFeedbackBooleanView"}

Dropped == Tables(DroppedNames)

\* The tables that 0009, 0020, 0021 and 0028 fill with the rows of others.
Refilled(i) ==
    IF i = 8 THEN {"BooleanMetricFeedbackByTargetId", "CommentFeedbackByTargetId",
                   "DemonstrationFeedbackByInferenceId", "FloatMetricFeedbackByTargetId"}
    ELSE IF i = 15 THEN {"InferenceById", "InferenceByEpisodeId"}
    ELSE IF i = 16 THEN {"TagInference"}
    ELSE IF i = 22 THEN {"StaticEvaluationHumanFeedback"} ELSE {}

AllRefilled == UNION {Refilled(i) : i \in 1 .. 27}

\* No should_apply looks for these, but each is made before an object that one looks for:
\* the last table of 0009, the last index of 0027.
LastTable == Table("FloatMetricFeedbackByTargetId")
EarlierViews ==
    Tables({"BooleanMetricFeedbackByTargetIdView", "CommentFeedbackByTargetIdView",
            "DemonstrationFeedbackByInferenceIdView"})

LastIndex == Part("JsonInferenceDatapoint", "id_index")
EarlierIndexes ==
    {Part("TagInference", "materialized"), Part("ChatInference", "materialized"),
     Part("JsonInference", "materialized"), Part("ChatInferenceDatapoint", "materialized")}

Statements(m) == 1 .. Len(m.steps)

\* can_apply, every statement and has_succeeded of m find what they need, if m is the i-th.
Possible(m, i) ==
    /\ Len(m.steps) \in Nat
    /\ m.needs \subseteq Known(i)
    /\ \A k \in Statements(m) : m.steps[k].op \notin {"exchange", "require_empty"} =>
           \A x \in m.steps[k].from : x \in Known(i) \/ \E j \in 1 .. (k - 1) : x \in Ensured(m.steps[j])
    /\ \A x \in m.checks : x \in Known(i) \/ \E j \in Statements(m) : x \in Ensured(m.steps[j])
    /\ \A x \in m.absent : \E j \in Statements(m) : m.steps[j].op = "drop" /\ x \in m.steps[j].objects

\* m drops only what none looks for or makes.
Careful(m) ==
    /\ \A x \in m.checks : Name(x) \notin DroppedNames
    /\ m.absent \subseteq Dropped
    /\ \A k \in Statements(m) :
           /\ m.steps[k].op \in {"create", "write", "create_or_temp", "exchange", "drop", "look",
                                 "require_empty", "drop_temp", "backfill"}
           /\ m.steps[k].op = "drop" => m.steps[k].objects \subseteq Dropped
           /\ Adds(m.steps[k]) => \A o \in m.steps[k].objects : Name(o) \notin DroppedNames
           /\ m.steps[k].op = "require_empty" =>
                  /\ k > 1 /\ m.steps[k - 1].op = "look" /\ m.steps[k - 1].objects = m.steps[k].objects
                  /\ m.steps[k].from = m.steps[k].objects
                  /\ \E t \in LegacyDatasets : m.steps[k].objects = {t}

\* A table is rebuilt by three statements in a row, the first of which looks for it.
LooksToRebuild(m, k) == m.steps[k].op = "look" /\ m.steps[k + 1].op # "require_empty"

Rebuilds(m) ==
    \A k \in Statements(m) :
        /\ LooksToRebuild(m, k) =>
               /\ k + 2 \in Statements(m)
               /\ m.steps[k + 1].op = "create_or_temp" /\ m.steps[k + 2].op = "exchange"
               /\ m.steps[k].objects = m.steps[k + 2].from
               /\ m.steps[k + 1].objects = m.steps[k].objects \cup m.steps[k + 2].objects
        /\ m.steps[k].op = "create_or_temp" => k > 1 /\ m.steps[k - 1].op = "look"
        /\ m.steps[k].op = "exchange" => k > 2 /\ LooksToRebuild(m, k - 2)

\* A backfill comes after everything its migration makes, fills tables its should_apply looks
\* for, and no other migration makes or replaces those.
Refills(m, i) ==
    \A k \in Statements(m) :
        /\ m.steps[k].op = "backfill" =>
               /\ \A c \in m.steps[k].objects : Name(c) \in Refilled(i) /\ Table(Name(c)) \in m.checks
               /\ \A l \in Statements(m) : m.steps[l].op # "require_empty" /\ (Adds(m.steps[l]) => l < k)
        /\ Adds(m.steps[k]) =>
               \A o \in m.steps[k].objects :
                   Name(o) \in AllRefilled /\ (Aspect(o) = "itself" \/ m.steps[k].op = "exchange")
                     => Name(o) \in Refilled(i)

\* should_apply of m covers what m makes, but for the objects above.
Covers(m, i) ==
    \A k \in Statements(m) :
        /\ m.steps[k].op \in {"create", "create_or_temp", "write"} =>
               \A o \in m.steps[k].objects :
                   \/ o \in m.checks \cup Unchecked
                   \/ o \in EarlierViews /\ LastTable \in m.checks
                   \/ o \in EarlierIndexes /\ LastIndex \in m.checks
        /\ Adds(m.steps[k]) /\ LastTable \in m.steps[k].objects =>
               \A x \in EarlierViews : \E j \in 1 .. (k - 1) : x \in Ensured(m.steps[j])
        /\ Adds(m.steps[k]) /\ LastIndex \in m.steps[k].objects =>
               \A x \in EarlierIndexes : \E j \in 1 .. (k - 1) : x \in Ensured(m.steps[j])

Sound(m, i) == Possible(m, i) /\ Careful(m) /\ Rebuilds(m) /\ Refills(m, i) /\ Covers(m, i)

-----------------------------------------------------------------------------
(***************************************************************************)
(* The migrations, statement by statement                                   *)
(***************************************************************************)
Is(s, op, objects, from) == s.op = op /\ s.objects = objects /\ s.from = from

LEMMA TableName == \A t : Table(t)[1] = t
  BY DEF Table

LEMMA ObjectNames ==
    /\ \A t : Name(Table(t)) = t /\ Aspect(Table(t)) = "itself"
    /\ \A t, p : Name(Part(t, p)) = t /\ Aspect(Part(t, p)) = p
  BY DEF Table, Part, Name, Aspect

LEMMA Distinct ==
    /\ \A s, t : Table(s) = Table(t) => s = t
    /\ \A s, t, p, q : Part(s, p) = Part(t, q) => s = t /\ p = q
    /\ \A s, t, p : Part(s, p) = Table(t) => p = "itself"
  BY DEF Table, Part

LEMMA UncheckedObjects ==
    Unchecked = {Table("FloatMetricFeedbackByTargetIdView"), Part("JsonInferenceDatapoint", "materialized")}
  BY DEF Unchecked, Part

LEMMA AllRefilledNames ==
    AllRefilled = Refilled(8) \cup Refilled(15) \cup Refilled(16) \cup Refilled(22)
  BY DEF AllRefilled, Refilled

LEMMA Numbered ==
    /\ Len(AllMigrations) = 27
    /\ AllMigrations[1] = Migration0000 /\ AllMigrations[2] = Migration0002
    /\ AllMigrations[3] = Migration0003 /\ AllMigrations[4] = Migration0004
    /\ AllMigrations[5] = Migration0005 /\ AllMigrations[6] = Migration0006
    /\ AllMigrations[7] = Migration0008 /\ AllMigrations[8] = Migration0009
    /\ AllMigrations[9] = Migration0011 /\ AllMigrations[10] = Migration0015
    /\ AllMigrations[11] = Migration0016 /\ AllMigrations[12] = Migration0017
    /\ AllMigrations[13] = Migration0018 /\ AllMigrations[14] = Migration0019
    /\ AllMigrations[15] = Migration0020 /\ AllMigrations[16] = Migration0021
    /\ AllMigrations[17] = Migration0022 /\ AllMigrations[18] = Migration0024
    /\ AllMigrations[19] = Migration0025 /\ AllMigrations[20] = Migration0026
    /\ AllMigrations[21] = Migration0027 /\ AllMigrations[22] = Migration0028
    /\ AllMigrations[23] = Migration0029 /\ AllMigrations[24] = Migration0030
    /\ AllMigrations[25] = Migration0031 /\ AllMigrations[26] = Migration0032
    /\ AllMigrations[27] = Migration0033
  BY DEF AllMigrations


LEMMA Data0000 ==
    LET m == Migration0000
        st == m.steps
    IN  /\ m.needs = {}
        /\ m.checks = {Table("ChatInference"), Table("JsonInference"),
                       Table("BooleanMetricFeedback"), Table("CommentFeedback"),
                       Table("DemonstrationFeedback"), Table("FloatMetricFeedback"),
                       Table("ModelInference")}
        /\ m.absent = {} /\ Len(st) = 7
        /\ Is(st[1], "create", {Table("BooleanMetricFeedback")}, {})
        /\ Is(st[2], "create", {Table("CommentFeedback")}, {})
        /\ Is(st[3], "create", {Table("DemonstrationFeedback")}, {})
        /\ Is(st[4], "create", {Table("FloatMetricFeedback")}, {})
        /\ Is(st[5], "create", {Table("ChatInference")}, {})
        /\ Is(st[6], "create", {Table("JsonInference")}, {})
        /\ Is(st[7], "create", {Table("ModelInference")}, {})
  BY DEF Is, Part, Migration0000, CreateTable, Create, Statement, Migration,
     FeedbackTables, Tables, InferenceTables

LEMMA Data0002 ==
    LET m == Migration0002
        st == m.steps
    IN  /\ m.needs = {}
        /\ m.checks = {Table("DynamicInContextLearningExample")}
        /\ m.absent = {} /\ Len(st) = 1
        /\ Is(st[1], "create", {Table("DynamicInContextLearningExample")}, {})
  BY DEF Is, Part, Migration0002, Migration, Tables, CreateTable, Create, Statement

LEMMA Data0003 ==
    LET m == Migration0003
        st == m.steps
    IN  /\ m.needs = {Table("BooleanMetricFeedback"), Table("CommentFeedback"),
                      Table("DemonstrationFeedback"), Table("FloatMetricFeedback")}
        /\ m.checks = {Part("BooleanMetricFeedback", "tags"), Part("CommentFeedback", "tags"),
                       Part("DemonstrationFeedback", "tags"), Part("FloatMetricFeedback", "tags"),
                       Table("FeedbackTag"), Table("BooleanMetricFeedbackTagView"),
                       Table("CommentFeedbackTagView"), Table("DemonstrationFeedbackTagView"),
                       Table("FloatMetricFeedbackTagView")}
        /\ m.absent = {} /\ Len(st) = 9
        /\ Is(st[1], "create", {Table("FeedbackTag")}, {})
        /\ Is(st[2], "create", {Part("BooleanMetricFeedback", "tags")},
                                {Table("BooleanMetricFeedback")})
        /\ Is(st[3], "create", {Part("CommentFeedback", "tags")}, {Table("CommentFeedback")})
        /\ Is(st[4], "create", {Part("DemonstrationFeedback", "tags")},
                                {Table("DemonstrationFeedback")})
        /\ Is(st[5], "create", {Part("FloatMetricFeedback", "tags")},
                                {Table("FloatMetricFeedback")})
        /\ Is(st[6], "create", {Table("BooleanMetricFeedbackTagView")},
                                {Table("BooleanMetricFeedback"),
                                Part("BooleanMetricFeedback", "tags"), Table("FeedbackTag")})
        /\ Is(st[7], "create", {Table("CommentFeedbackTagView")}, {Table("CommentFeedback"),
                                Part("CommentFeedback", "tags"), Table("FeedbackTag")})
        /\ Is(st[8], "create", {Table("DemonstrationFeedbackTagView")},
                                {Table("DemonstrationFeedback"),
                                Part("DemonstrationFeedback", "tags"), Table("FeedbackTag")})
        /\ Is(st[9], "create", {Table("FloatMetricFeedbackTagView")},
                                {Table("FloatMetricFeedback"), Part("FloatMetricFeedback", "tags"),
                                Table("FeedbackTag")})
<1>1. Migration0003.checks = {Part("BooleanMetricFeedback", "tags"),
                              Part("CommentFeedback", "tags"),
                              Part("DemonstrationFeedback", "tags"),
                              Part("FloatMetricFeedback", "tags"), Table("FeedbackTag"),
                              Table("BooleanMetricFeedbackTagView"),
                              Table("CommentFeedbackTagView"),
                              Table("DemonstrationFeedbackTagView"),
                              Table("FloatMetricFeedbackTagView")}
  BY TableName DEF Migration0003, Migration0003Checks, Migration, Tables, FeedbackTables, Part
<1> QED
  BY <1>1 DEF Is, Part, Migration0003, CreateView, Create, Statement, Migration,
     FeedbackTables, Tables, Migration0003Checks, CreateTable, AddColumns, Parts

LEMMA Data0004 ==
    LET m == Migration0004
        st == m.steps
    IN  /\ m.needs = {Table("ModelInference")}
        /\ m.checks = {Part("ModelInference", "system"), Part("ModelInference", "input_messages"),
                       Part("ModelInference", "output")}
        /\ m.absent = {} /\ Len(st) = 1
        /\ Is(st[1], "create", {Part("ModelInference", "system"),
                                Part("ModelInference", "input_messages"),
                                Part("ModelInference", "output")}, {Table("ModelInference")})
  BY DEF Is, Part, Migration0004, Migration, Tables, Parts, AddColumns, Create,
     Statement

LEMMA Data0005 ==
    LET m == Migration0005
        st == m.steps
    IN  /\ m.needs = {Table("ChatInference"), Table("JsonInference")}
        /\ m.checks = {Part("ChatInference", "tags"), Part("JsonInference", "tags"),
                       Table("InferenceTag"), Table("ChatInferenceTagView"),
                       Table("JsonInferenceTagView")}
        /\ m.absent = {} /\ Len(st) = 5
        /\ Is(st[1], "create", {Table("InferenceTag")}, {})
        /\ Is(st[2], "create", {Part("ChatInference", "tags")}, {Table("ChatInference")})
        /\ Is(st[3], "create", {Part("JsonInference", "tags")}, {Table("JsonInference")})
        /\ Is(st[4], "create", {Table("ChatInferenceTagView")}, {Table("ChatInference"),
                                Part("ChatInference", "tags"), Table("InferenceTag")})
        /\ Is(st[5], "create", {Table("JsonInferenceTagView")}, {Table("JsonInference"),
                                Part("JsonInference", "tags"), Table("InferenceTag")})
  BY DEF Is, Part, Migration0005, CreateView, Create, Statement, Migration,
     InferenceTables, Tables, CreateTable, AddColumns, Parts

LEMMA Data0006 ==
    LET m == Migration0006
        st == m.steps
    IN  /\ m.needs = {}
        /\ m.checks = {Table("BatchModelInference"), Table("BatchRequest"),
                       Table("BatchIdByInferenceId"), Table("BatchIdByInferenceIdView")}
        /\ m.absent = {} /\ Len(st) = 4
        /\ Is(st[1], "create", {Table("BatchModelInference")}, {})
        /\ Is(st[2], "create", {Table("BatchRequest")}, {})
        /\ Is(st[3], "create", {Table("BatchIdByInferenceId")}, {})
        /\ Is(st[4], "create", {Table("BatchIdByInferenceIdView")}, {Table("BatchModelInference"),
                                Table("BatchIdByInferenceId")})
  BY DEF Is, Part, Migration0006, Migration, Tables, CreateTable, Create, Statement,
     CreateView

LEMMA Data0008 ==
    LET m == Migration0008
        st == m.steps
    IN  /\ m.needs = {Table("ChatInference"), Table("JsonInference"), Table("ModelInference"),
                      Table("BatchRequest")}
        /\ m.checks = {Part("ChatInference", "processing_time_ms_nullable"),
                       Part("JsonInference", "processing_time_ms_nullable"),
                       Part("ModelInference", "response_time_ms_nullable"),
                       Part("BatchRequest", "raw_request"), Part("BatchRequest", "raw_response"),
                       Part("BatchRequest", "function_name"), Part("BatchRequest", "variant_name"),
                       Part("BatchRequest", "errors_array")}
        /\ m.absent = {} /\ Len(st) = 4
        /\ Is(st[1], "create", {Part("BatchRequest", "raw_request"),
                                Part("BatchRequest", "raw_response"),
                                Part("BatchRequest", "function_name"),
                                Part("BatchRequest", "variant_name"),
                                Part("BatchRequest", "errors_array")}, {Table("BatchRequest")})
        /\ Is(st[2], "create", {Part("ModelInference", "response_time_ms_nullable")},
                                {Table("ModelInference")})
        /\ Is(st[3], "create", {Part("ChatInference", "processing_time_ms_nullable")},
                                {Table("ChatInference")})
        /\ Is(st[4], "create", {Part("JsonInference", "processing_time_ms_nullable")},
                                {Table("JsonInference")})
  BY DEF Is, Part, Migration0008, Migration, InferenceTables, Tables, Parts,
     AddColumns, Create, Statement

LEMMA Data0009 ==
    LET m == Migration0009
        st == m.steps
    IN  /\ m.needs = {Table("BooleanMetricFeedback"), Table("CommentFeedback"),
                      Table("DemonstrationFeedback"), Table("FloatMetricFeedback")}
        /\ m.checks = {Table("BooleanMetricFeedbackByTargetId"),
                       Table("CommentFeedbackByTargetId"),
                       Table("DemonstrationFeedbackByInferenceId"),
                       Table("FloatMetricFeedbackByTargetId")}
        /\ m.absent = {} /\ Len(st) = 9
        /\ Is(st[1], "create", {Table("BooleanMetricFeedbackByTargetId")}, {})
        /\ Is(st[2], "create", {Table("BooleanMetricFeedbackByTargetIdView")},
                                {Table("BooleanMetricFeedback"),
                                Part("BooleanMetricFeedback", "tags"),
                                Table("BooleanMetricFeedbackByTargetId")})
        /\ Is(st[3], "create", {Table("CommentFeedbackByTargetId")}, {})
        /\ Is(st[4], "create", {Table("CommentFeedbackByTargetIdView")}, {Table("CommentFeedback"),
                                Part("CommentFeedback", "tags"),
                                Table("CommentFeedbackByTargetId")})
        /\ Is(st[5], "create", {Table("DemonstrationFeedbackByInferenceId")}, {})
        /\ Is(st[6], "create", {Table("DemonstrationFeedbackByInferenceIdView")},
                                {Table("DemonstrationFeedback"),
                                Part("DemonstrationFeedback", "tags"),
                                Table("DemonstrationFeedbackByInferenceId")})
        /\ Is(st[7], "create", {Table("FloatMetricFeedbackByTargetId")}, {})
        /\ Is(st[8], "create", {Table("FloatMetricFeedbackByTargetIdView")},
                                {Table("FloatMetricFeedback"), Part("FloatMetricFeedback", "tags"),
                                Table("FloatMetricFeedbackByTargetId")})
        /\ Is(st[9], "backfill", {Part("BooleanMetricFeedbackByTargetId", "BooleanMetricFeedback"),
                                  Part("CommentFeedbackByTargetId", "CommentFeedback"),
                                  Part("DemonstrationFeedbackByInferenceId", "DemonstrationFeedback"),
                                  Part("FloatMetricFeedbackByTargetId", "FloatMetricFeedback")},
                                 {Table("BooleanMetricFeedback"), Table("CommentFeedback"),
                                  Table("DemonstrationFeedback"), Table("FloatMetricFeedback")})
  BY DEF Is, Part, Migration0009, Migration, FeedbackTables, Tables,
     Migration0009Steps, CreateView, Create, Statement, CreateTable, Backfill

LEMMA Data0011 ==
    LET m == Migration0011
        st == m.steps
    IN  /\ m.needs = {}
        /\ m.checks = {Part("ModelInference", "cached"), Table("ModelInferenceCache")}
        /\ m.absent = {} /\ Len(st) = 2
        /\ Is(st[1], "create", {Table("ModelInferenceCache")}, {})
        /\ Is(st[2], "create", {Part("ModelInference", "cached")}, {Table("ModelInference")})
  BY DEF Is, Part, Migration0011, Migration, Tables, Parts, CreateTable, Create,
     Statement, AddColumns

LEMMA Data0015 ==
    LET m == Migration0015
        st == m.steps
    IN  /\ m.needs = {}
        /\ m.checks = {Part("ModelInference", "input_tokens_nullable"),
                       Part("ModelInference", "output_tokens_nullable")}
        /\ m.absent = {} /\ Len(st) = 2
        /\ Is(st[1], "create", {Part("ModelInference", "input_tokens_nullable")},
                                {Table("ModelInference")})
        /\ Is(st[2], "create", {Part("ModelInference", "output_tokens_nullable")},
                                {Table("ModelInference")})
  BY DEF Is, Part, Migration0015, Migration, Parts, AddColumns, Create, Statement

LEMMA Data0016 ==
    LET m == Migration0016
        st == m.steps
    IN  /\ m.needs = {}
        /\ m.checks = {Table("ChatInferenceDatapoint"), Table("JsonInferenceDatapoint")}
        /\ m.absent = {} /\ Len(st) = 8
        /\ Is(st[1], "look", {Table("ChatInferenceDataset")}, {})
        /\ Is(st[2], "require_empty", {Table("ChatInferenceDataset")}, {Table("ChatInferenceDataset")})
        /\ Is(st[3], "look", {Table("JsonInferenceDataset")}, {})
        /\ Is(st[4], "require_empty", {Table("JsonInferenceDataset")}, {Table("JsonInferenceDataset")})
        /\ Is(st[5], "drop", {Table("ChatInferenceDataset")}, {})
        /\ Is(st[6], "drop", {Table("JsonInferenceDataset")}, {})
        /\ Is(st[7], "create", {Table("ChatInferenceDatapoint")}, {})
        /\ Is(st[8], "create", {Table("JsonInferenceDatapoint")}, {})
  BY DEF Is, Part, Migration0016, Migration, DatapointTables, Tables, Look, RequireEmpty,
     Statement, DropTable, CreateTable, Create

LEMMA Data0017 ==
    LET m == Migration0017
        st == m.steps
    IN  /\ m.needs = {Table("ModelInferenceCache")}
        /\ m.checks = {Part("ModelInferenceCache", "input_tokens"),
                       Part("ModelInferenceCache", "output_tokens")}
        /\ m.absent = {} /\ Len(st) = 1
        /\ Is(st[1], "create", {Part("ModelInferenceCache", "input_tokens"),
                                Part("ModelInferenceCache", "output_tokens")},
                                {Table("ModelInferenceCache")})
  BY DEF Is, Part, Migration0017, Migration, Tables, Parts, AddColumns, Create,
     Statement

LEMMA Data0018 ==
    LET m == Migration0018
        st == m.steps
    IN  /\ m.needs = {Table("ModelInference"), Table("ModelInferenceCache")}
        /\ m.checks = {Part("ModelInference", "finish_reason"),
                       Part("ModelInferenceCache", "finish_reason")}
        /\ m.absent = {} /\ Len(st) = 2
        /\ Is(st[1], "create", {Part("ModelInference", "finish_reason")}, {Table("ModelInference")})
        /\ Is(st[2], "create", {Part("ModelInferenceCache", "finish_reason")},
                                {Table("ModelInferenceCache")})
  BY DEF Is, Part, Migration0018, Migration, Tables, AddColumns, Create, Statement,
     Parts

LEMMA Data0019 ==
    LET m == Migration0019
        st == m.steps
    IN  /\ m.needs = {}
        /\ m.checks = {Part("ChatInference", "extra_body"), Part("JsonInference", "extra_body")}
        /\ m.absent = {} /\ Len(st) = 2
        /\ Is(st[1], "create", {Part("ChatInference", "extra_body")}, {Table("ChatInference")})
        /\ Is(st[2], "create", {Part("JsonInference", "extra_body")}, {Table("JsonInference")})
  BY DEF Is, Part, Migration0019, Migration, AddColumns, Create, Statement, Parts

LEMMA Data0020 ==
    LET m == Migration0020
        st == m.steps
    IN  /\ m.needs = {Table("ChatInference"), Table("JsonInference")}
        /\ m.checks = {Table("InferenceById"), Part("InferenceById", "UInt128"),
                       Part("InferenceById", "ReplacingMergeTree"), Table("InferenceByEpisodeId"),
                       Part("InferenceByEpisodeId", "UInt128"),
                       Part("InferenceByEpisodeId", "ReplacingMergeTree"),
                       Table("ChatInferenceByIdView"), Table("JsonInferenceByIdView"),
                       Table("ChatInferenceByEpisodeIdView"),
                       Table("JsonInferenceByEpisodeIdView"), Table("uint_to_uuid")}
        /\ m.absent = {} /\ Len(st) = 17
        /\ Is(st[1], "look", {Table("InferenceById")}, {})
        /\ Is(st[2], "create_or_temp", {Table("InferenceById"), Part("InferenceById", "UInt128"),
                                        Part("InferenceById", "ReplacingMergeTree")}, {})
        /\ Is(st[3], "exchange", {Part("InferenceById", "UInt128"),
                                  Part("InferenceById", "ReplacingMergeTree")},
                                  {Table("InferenceById")})
        /\ Is(st[4], "drop_temp", {}, {})
        /\ Is(st[5], "look", {Table("InferenceByEpisodeId")}, {})
        /\ Is(st[6], "create_or_temp", {Table("InferenceByEpisodeId"),
                                        Part("InferenceByEpisodeId", "UInt128"),
                                        Part("InferenceByEpisodeId", "ReplacingMergeTree")}, {})
        /\ Is(st[7], "exchange", {Part("InferenceByEpisodeId", "UInt128"),
                                  Part("InferenceByEpisodeId", "ReplacingMergeTree")},
                                  {Table("InferenceByEpisodeId")})
        /\ Is(st[8], "drop_temp", {}, {})
        /\ Is(st[9], "create", {Table("uint_to_uuid")}, {})
        /\ Is(st[10], "create", {Table("ChatInferenceByIdView")}, {Table("ChatInference"),
                                 Table("InferenceById"), Part("InferenceById", "UInt128")})
        /\ Is(st[11], "create", {Table("JsonInferenceByIdView")}, {Table("JsonInference"),
                                 Table("InferenceById"), Part("InferenceById", "UInt128")})
        /\ Is(st[12], "create", {Table("ChatInferenceByEpisodeIdView")}, {Table("ChatInference"),
                                 Table("InferenceByEpisodeId"),
                                 Part("InferenceByEpisodeId", "UInt128")})
        /\ Is(st[13], "create", {Table("JsonInferenceByEpisodeIdView")}, {Table("JsonInference"),
                                 Table("InferenceByEpisodeId"),
                                 Part("InferenceByEpisodeId", "UInt128")})
        /\ Is(st[14], "backfill", {Part("InferenceById", "ChatInference")},
                                   {Table("ChatInference"), Table("InferenceById")})
        /\ Is(st[15], "backfill", {Part("InferenceById", "JsonInference")},
                                   {Table("JsonInference"), Table("InferenceById")})
        /\ Is(st[16], "backfill", {Part("InferenceByEpisodeId", "ChatInference")},
                                   {Table("ChatInference"), Table("InferenceByEpisodeId")})
        /\ Is(st[17], "backfill", {Part("InferenceByEpisodeId", "JsonInference")},
                                   {Table("JsonInference"), Table("InferenceByEpisodeId")})
<1> DEFINE tables == Migration0020Tables
           views == Migration0020Views
           st == Migration0020.steps
           S == {tables[k] : k \in 1 .. 8} \cup {views[k] : k \in 1 .. 9}
<1>1. /\ tables = [k \in 1 .. 8 |-> tables[k]]
      /\ Len(tables) = 8
  BY DEF Migration0020Tables
<1>2. /\ views = [k \in 1 .. 9 |-> views[k]]
      /\ Len(views) = 9
  BY DEF Migration0020Views
<1>3. st = tables \o views
  BY DEF Migration0020, Migration
<1>4. /\ tables[1] = Look("InferenceById")
      /\ tables[2] = CreateOrTemp("InferenceById", {"UInt128", "ReplacingMergeTree"})
      /\ tables[3] = Exchange("InferenceById", {"UInt128", "ReplacingMergeTree"})
      /\ tables[4] = DropTemp
      /\ tables[5] = Look("InferenceByEpisodeId")
      /\ tables[6] = CreateOrTemp("InferenceByEpisodeId", {"UInt128", "ReplacingMergeTree"})
      /\ tables[7] = Exchange("InferenceByEpisodeId", {"UInt128", "ReplacingMergeTree"})
      /\ tables[8] = DropTemp
  BY DEF Migration0020Tables, Part
<1>5. /\ views[1] = CreateTable("uint_to_uuid")
      /\ views[2] = CreateView("ChatInferenceByIdView", "InferenceById",
                               Tables({"ChatInference"}) \cup {Part("InferenceById", "UInt128")})
      /\ views[3] = CreateView("JsonInferenceByIdView", "InferenceById",
                               Tables({"JsonInference"}) \cup {Part("InferenceById", "UInt128")})
      /\ views[4] = CreateView("ChatInferenceByEpisodeIdView", "InferenceByEpisodeId",
                               Tables({"ChatInference"}) \cup {Part("InferenceByEpisodeId", "UInt128")})
      /\ views[5] = CreateView("JsonInferenceByEpisodeIdView", "InferenceByEpisodeId",
                               Tables({"JsonInference"}) \cup {Part("InferenceByEpisodeId", "UInt128")})
      /\ views[6] = Backfill({Part("InferenceById", "ChatInference")}, Tables({"ChatInference", "InferenceById"}))
      /\ views[7] = Backfill({Part("InferenceById", "JsonInference")}, Tables({"JsonInference", "InferenceById"}))
      /\ views[8] = Backfill({Part("InferenceByEpisodeId", "ChatInference")},
                             Tables({"ChatInference", "InferenceByEpisodeId"}))
      /\ views[9] = Backfill({Part("InferenceByEpisodeId", "JsonInference")},
                             Tables({"JsonInference", "InferenceByEpisodeId"}))
  BY DEF Migration0020Views, Part
<1>6. /\ Migration0020.needs = {Table("ChatInference"), Table("JsonInference")}
      /\ Migration0020.absent = {}
      /\ Migration0020.checks = {Part("InferenceByEpisodeId", "UInt128"), Part("InferenceById", "UInt128"),
            Part("InferenceByEpisodeId", "ReplacingMergeTree"), Part("InferenceById", "ReplacingMergeTree"),
            Table("InferenceById"), Table("InferenceByEpisodeId"),
                       Table("ChatInferenceByIdView"), Table("JsonInferenceByIdView"),
                       Table("ChatInferenceByEpisodeIdView"),
                       Table("JsonInferenceByEpisodeIdView"), Table("uint_to_uuid")}
  BY DEF Part, Migration0020, Migration, InferenceTables, Migration0020Checks, Tables, Parts
<1> HIDE DEF tables, views, st
<1>7. tables \in Seq(S) /\ views \in Seq(S)
  BY <1>1, <1>2
<1> HIDE DEF S
<1>8. /\ Len(st) = 17
      /\ \A k \in 1 .. 8 : st[k] = tables[k]
      /\ \A k \in 9 .. 17 : st[k] = views[k - 8]
  BY <1>1, <1>2, <1>3, <1>7, ConcatProperties
<1>9. /\ st[9] = views[1] /\ st[10] = views[2] /\ st[11] = views[3] /\ st[12] = views[4] /\ st[13] = views[5]
      /\ st[14] = views[6] /\ st[15] = views[7] /\ st[16] = views[8] /\ st[17] = views[9]
  BY <1>8
<1>10. /\ st[1] = tables[1] /\ st[2] = tables[2] /\ st[3] = tables[3] /\ st[4] = tables[4]
       /\ st[5] = tables[5] /\ st[6] = tables[6] /\ st[7] = tables[7] /\ st[8] = tables[8]
  BY <1>8
<1> QED
  BY <1>4, <1>5, <1>6, <1>8, <1>9, <1>10 DEF st, Is, Part, Look, CreateOrTemp, Exchange, DropTemp,
     CreateTable, CreateView, Backfill, Create, Statement, Parts, Tables

LEMMA Data0021 ==
    LET m == Migration0021
        st == m.steps
    IN  /\ m.needs = {Table("ChatInference"), Table("JsonInference"),
                      Table("ChatInferenceDatapoint"), Table("JsonInferenceDatapoint")}
        /\ m.checks = {Part("ChatInferenceDatapoint", "staled_at"),
                       Part("ChatInferenceDatapoint", "updated_at_now64"),
                       Part("JsonInferenceDatapoint", "staled_at"),
                       Part("JsonInferenceDatapoint", "updated_at_now64"), Table("TagInference"),
                       Table("TagChatInferenceView"), Table("TagJsonInferenceView")}
        /\ m.absent = {} /\ Len(st) = 8
        /\ Is(st[1], "create", {Table("TagInference")}, {})
        /\ Is(st[2], "create", {Part("ChatInferenceDatapoint", "staled_at")},
                                {Table("ChatInferenceDatapoint")})
        /\ Is(st[3], "create", {Part("JsonInferenceDatapoint", "staled_at")},
                                {Table("JsonInferenceDatapoint")})
        /\ Is(st[4], "create", {Part("ChatInferenceDatapoint", "updated_at_now64")},
                                {Table("ChatInferenceDatapoint")})
        /\ Is(st[5], "create", {Part("JsonInferenceDatapoint", "updated_at_now64")},
                                {Table("JsonInferenceDatapoint")})
        /\ Is(st[6], "create", {Table("TagChatInferenceView")}, {Table("ChatInference"),
                                Part("ChatInference", "tags"), Table("TagInference")})
        /\ Is(st[7], "create", {Table("TagJsonInferenceView")}, {Table("JsonInference"),
                                Part("JsonInference", "tags"), Table("TagInference")})
        /\ Is(st[8], "backfill", {Part("TagInference", "ChatInference"),
                                  Part("TagInference", "JsonInference")}, {Table("ChatInference"),
                                  Table("JsonInference")})
<1>1. /\ {<<t[1], "staled_at">> : t \in DatapointTables}
           = {Part("ChatInferenceDatapoint", "staled_at"), Part("JsonInferenceDatapoint", "staled_at")}
      /\ {<<t[1], "updated_at_now64">> : t \in DatapointTables}
           = {Part("ChatInferenceDatapoint", "updated_at_now64"),
              Part("JsonInferenceDatapoint", "updated_at_now64")}
  BY TableName DEF Tables, DatapointTables, Part
<1>2. Migration0021.checks = {Part("ChatInferenceDatapoint", "staled_at"),
                              Part("ChatInferenceDatapoint", "updated_at_now64"),
                              Part("JsonInferenceDatapoint", "staled_at"),
                              Part("JsonInferenceDatapoint", "updated_at_now64"),
                              Table("TagInference"), Table("TagChatInferenceView"),
                              Table("TagJsonInferenceView")}
  BY <1>1 DEF Migration0021, Migration0021Checks, Migration, Tables, Part
<1>3. /\ Migration0021.needs = {Table("ChatInference"), Table("JsonInference"),
                                 Table("ChatInferenceDatapoint"), Table("JsonInferenceDatapoint")}
      /\ Migration0021.absent = {} /\ Len(Migration0021.steps) = 8
  BY DEF Migration0021, Migration, InferenceTables, DatapointTables, Tables
<1> QED
  BY <1>2, <1>3 DEF Is, Part, Migration0021, CreateView, Create, Statement, Migration,
     InferenceTables, Tables, DatapointTables, Migration0021Checks, CreateTable, AddColumns,
     Parts, Backfill

LEMMA Data0022 ==
    LET m == Migration0022
        st == m.steps
    IN  /\ m.needs = {Table("ChatInferenceDatapoint"), Table("JsonInferenceDatapoint")}
        /\ m.checks = {Part("ChatInferenceDatapoint", "source_inference_id"),
                       Part("JsonInferenceDatapoint", "source_inference_id")}
        /\ m.absent = {} /\ Len(st) = 2
        /\ Is(st[1], "create", {Part("ChatInferenceDatapoint", "source_inference_id")},
                                {Table("ChatInferenceDatapoint")})
        /\ Is(st[2], "create", {Part("JsonInferenceDatapoint", "source_inference_id")},
                                {Table("JsonInferenceDatapoint")})
<1>1. Migration0022.checks = {Part("ChatInferenceDatapoint", "source_inference_id"),
                              Part("JsonInferenceDatapoint", "source_inference_id")}
  BY TableName DEF Migration0022, Migration, Tables, DatapointTables, Part
<1> QED
  BY <1>1 DEF Is, Part, Migration0022, Migration, DatapointTables, Tables, AddColumns,
     Create, Statement, Parts

LEMMA Data0024 ==
    LET m == Migration0024
        st == m.steps
    IN  /\ m.needs = {Table("JsonInference")}
        /\ m.checks = {Part("JsonInference", "auxiliary_content")}
        /\ m.absent = {} /\ Len(st) = 1
        /\ Is(st[1], "create", {Part("JsonInference", "auxiliary_content")},
                                {Table("JsonInference")})
  BY DEF Is, Part, Migration0024, Migration, Tables, Parts, AddColumns, Create,
     Statement

LEMMA Data0025 ==
    LET m == Migration0025
        st == m.steps
    IN  /\ m.needs = {}
        /\ m.checks = {Table("DynamicEvaluationRun"), Table("DynamicEvaluationRunEpisode")}
        /\ m.absent = {} /\ Len(st) = 2
        /\ Is(st[1], "create", {Table("DynamicEvaluationRun")}, {})
        /\ Is(st[2], "create", {Table("DynamicEvaluationRunEpisode")}, {})
  BY DEF Is, Part, Migration0025, Migration, Tables, CreateTable, Create, Statement

LEMMA Data0026 ==
    LET m == Migration0026
        st == m.steps
    IN  /\ m.needs = {Table("DynamicEvaluationRun"), Table("DynamicEvaluationRunEpisode")}
        /\ m.checks = {Table("DynamicEvaluationRunEpisodeByRunId"),
                       Table("DynamicEvaluationRunEpisodeByRunIdView"),
                       Table("DynamicEvaluationRunByProjectName"),
                       Table("DynamicEvaluationRunByProjectNameView")}
        /\ m.absent = {} /\ Len(st) = 4
        /\ Is(st[1], "create", {Table("DynamicEvaluationRunEpisodeByRunId")}, {})
        /\ Is(st[2], "create", {Table("DynamicEvaluationRunEpisodeByRunIdView")},
                                {Table("DynamicEvaluationRunEpisode"),
                                Table("DynamicEvaluationRunEpisodeByRunId")})
        /\ Is(st[3], "create", {Table("DynamicEvaluationRunByProjectName")}, {})
        /\ Is(st[4], "create", {Table("DynamicEvaluationRunByProjectNameView")},
                                {Table("DynamicEvaluationRun"),
                                Table("DynamicEvaluationRunByProjectName")})
  BY DEF Is, Part, Migration0026, Migration, Tables, Migration0026Checks,
     Migration0026Steps, CreateTable, Create, Statement, CreateView

LEMMA Data0027 ==
    LET m == Migration0027
        st == m.steps
    IN  /\ m.needs = {Table("ChatInference"), Table("JsonInference"),
                      Table("ChatInferenceDatapoint"), Table("JsonInferenceDatapoint"),
                      Table("TagInference")}
        /\ m.checks = {Part("ChatInference", "inference_id_index"),
                       Part("JsonInference", "inference_id_index"),
                       Part("ChatInferenceDatapoint", "id_index"),
                       Part("JsonInferenceDatapoint", "id_index"),
                       Part("TagInference", "inference_id_index")}
        /\ m.absent = {} /\ Len(st) = 10
        /\ Is(st[1], "create", {Part("TagInference", "inference_id_index")},
                                {Table("TagInference")})
        /\ Is(st[2], "create", {Part("TagInference", "materialized")},
                                {Part("TagInference", "inference_id_index")})
        /\ Is(st[3], "create", {Part("ChatInference", "inference_id_index")},
                                {Table("ChatInference")})
        /\ Is(st[4], "create", {Part("ChatInference", "materialized")},
                                {Part("ChatInference", "inference_id_index")})
        /\ Is(st[5], "create", {Part("JsonInference", "inference_id_index")},
                                {Table("JsonInference")})
        /\ Is(st[6], "create", {Part("JsonInference", "materialized")},
                                {Part("JsonInference", "inference_id_index")})
        /\ Is(st[7], "create", {Part("ChatInferenceDatapoint", "id_index")},
                                {Table("ChatInferenceDatapoint")})
        /\ Is(st[8], "create", {Part("ChatInferenceDatapoint", "materialized")},
                                {Part("ChatInferenceDatapoint", "id_index")})
        /\ Is(st[9], "create", {Part("JsonInferenceDatapoint", "id_index")},
                                {Table("JsonInferenceDatapoint")})
        /\ Is(st[10], "create", {Part("JsonInferenceDatapoint", "materialized")},
                                 {Part("JsonInferenceDatapoint", "id_index")})
<1>1. Migration0027.checks = {Part("ChatInference", "inference_id_index"),
                              Part("JsonInference", "inference_id_index"),
                              Part("ChatInferenceDatapoint", "id_index"),
                              Part("JsonInferenceDatapoint", "id_index"),
                              Part("TagInference", "inference_id_index")}
  BY TableName DEF Migration0027, Migration, Tables, InferenceTables, DatapointTables, Part
<1> QED
  BY <1>1 DEF Is, Part, Migration0027, Create, Statement, Migration, InferenceTables,
     Tables, DatapointTables, AddColumns, Parts

LEMMA Data0028 ==
    LET m == Migration0028
        st == m.steps
    IN  /\ m.needs = {Table("BooleanMetricFeedback"), Table("FloatMetricFeedback")}
        /\ m.checks = {Table("StaticEvaluationHumanFeedback"),
                       Table("StaticEvaluationFloatHumanFeedbackView"),
                       Table("StaticEvaluationBooleanHumanFeedbackView")}
        /\ m.absent = {} /\ Len(st) = 4
        /\ Is(st[1], "create", {Table("StaticEvaluationHumanFeedback")}, {})
        /\ Is(st[2], "create", {Table("StaticEvaluationFloatHumanFeedbackView")},
                                {Table("ChatInference"), Table("JsonInference"),
                                Part("FloatMetricFeedback", "tags"),
                                Part("InferenceById", "UInt128"),
                                Table("StaticEvaluationHumanFeedback")})
        /\ Is(st[3], "create", {Table("StaticEvaluationBooleanHumanFeedbackView")},
                                {Table("ChatInference"), Table("JsonInference"),
                                Part("BooleanMetricFeedback", "tags"),
                                Part("InferenceById", "UInt128"),
                                Table("StaticEvaluationHumanFeedback")})
        /\ Is(st[4], "backfill", {Part("StaticEvaluationHumanFeedback", "MetricFeedback")},
                                  {Table("ChatInference"), Table("JsonInference"),
                                  Part("BooleanMetricFeedback", "tags"),
                                  Part("FloatMetricFeedback", "tags"),
                                  Part("InferenceById", "UInt128")})
<1> DEFINE views == Migration0028Views
           backfill == Migration0028Backfill
           st == Migration0028.steps
           S == {views[k] : k \in 1 .. 3} \cup {backfill}
<1>1. views = [k \in 1 .. 3 |-> views[k]] /\ Len(views) = 3
  BY DEF Migration0028Views
<1>2. st = Append(views, backfill)
  BY DEF Migration0028, Migration
<1>3. /\ Is(views[1], "create", {Table("StaticEvaluationHumanFeedback")}, {})
      /\ Is(views[2], "create", {Table("StaticEvaluationFloatHumanFeedbackView")},
                                {Table("ChatInference"), Table("JsonInference"),
                                Part("FloatMetricFeedback", "tags"), Part("InferenceById", "UInt128"),
                                Table("StaticEvaluationHumanFeedback")})
      /\ Is(views[3], "create", {Table("StaticEvaluationBooleanHumanFeedbackView")},
                                {Table("ChatInference"), Table("JsonInference"),
                                Part("BooleanMetricFeedback", "tags"),
                                Part("InferenceById", "UInt128"),
                                Table("StaticEvaluationHumanFeedback")})
  BY
     DEF Is, Part, Migration0028Views, InferenceTables, Tables, CreateTable, CreateView, Create,
         Statement
<1>4. Is(backfill, "backfill", {Part("StaticEvaluationHumanFeedback", "MetricFeedback")},
                                  {Table("ChatInference"), Table("JsonInference"),
                                  Part("BooleanMetricFeedback", "tags"),
                                  Part("FloatMetricFeedback", "tags"),
                                  Part("InferenceById", "UInt128")})
  BY DEF Is, Part, Migration0028Backfill, InferenceTables, Tables, Backfill, Statement
<1>5. /\ Migration0028.needs = {Table("BooleanMetricFeedback"), Table("FloatMetricFeedback")}
      /\ Migration0028.checks = {Table("StaticEvaluationHumanFeedback"),
                       Table("StaticEvaluationFloatHumanFeedbackView"),
                       Table("StaticEvaluationBooleanHumanFeedbackView")}
      /\ Migration0028.absent = {}
  BY DEF Migration0028, Migration, Migration0028Checks, Tables
<1> HIDE DEF views, backfill, st
<1>6. views \in Seq(S) /\ backfill \in S
  BY <1>1
<1> HIDE DEF S
<1>7. /\ Len(st) = 4 /\ st[4] = backfill
      /\ st[1] = views[1] /\ st[2] = views[2] /\ st[3] = views[3]
  BY <1>1, <1>2, <1>6, AppendProperties
<1> QED
  BY <1>3, <1>4, <1>5, <1>7, Zenon DEF st

LEMMA Data0029 ==
    LET m == Migration0029
        st == m.steps
    IN  /\ m.needs = {}
        /\ m.checks = {}
        /\ m.absent = {Table("StaticEvaluationHumanFeedbackFloatView"),
                       Table("StaticEvaluationHumanFeedbackBooleanView")} /\ Len(st) = 2
        /\ Is(st[1], "drop", {Table("StaticEvaluationHumanFeedbackFloatView")}, {})
        /\ Is(st[2], "drop", {Table("StaticEvaluationHumanFeedbackBooleanView")}, {})
  BY DEF Is, Part, Migration0029, Tables, DropTable, Statement

LEMMA Data0030 ==
    LET m == Migration0030
        st == m.steps
    IN  /\ m.needs = {}
        /\ m.checks = {Part("ModelInference", "finish_reason_stop_sequence"),
                       Part("ModelInferenceCache", "finish_reason_stop_sequence")}
        /\ m.absent = {} /\ Len(st) = 2
        /\ Is(st[1], "create", {Part("ModelInference", "finish_reason_stop_sequence")},
                                {Part("ModelInference", "finish_reason")})
        /\ Is(st[2], "create", {Part("ModelInferenceCache", "finish_reason_stop_sequence")},
                                {Part("ModelInferenceCache", "finish_reason")})
  BY DEF Is, Part, Migration0030, Create, Statement, Migration

LEMMA Data0031 ==
    LET m == Migration0031
        st == m.steps
    IN  /\ m.needs = {}
        /\ m.checks = {Part("ChatInference", "ttft_ms"), Part("JsonInference", "ttft_ms")}
        /\ m.absent = {} /\ Len(st) = 2
        /\ Is(st[1], "create", {Part("ChatInference", "ttft_ms")}, {Table("ChatInference")})
        /\ Is(st[2], "create", {Part("JsonInference", "ttft_ms")}, {Table("JsonInference")})
  BY DEF Is, Part, Migration0031, Migration, AddColumns, Create, Statement, Parts

LEMMA Data0032 ==
    LET m == Migration0032
        st == m.steps
    IN  /\ m.needs = {}
        /\ m.checks = {Part("ChatInferenceDatapoint", "is_custom"),
                       Part("JsonInferenceDatapoint", "is_custom")}
        /\ m.absent = {} /\ Len(st) = 2
        /\ Is(st[1], "create", {Part("ChatInferenceDatapoint", "is_custom")},
                                {Table("ChatInferenceDatapoint")})
        /\ Is(st[2], "create", {Part("JsonInferenceDatapoint", "is_custom")},
                                {Table("JsonInferenceDatapoint")})
<1>1. Migration0032.checks = {Part("ChatInferenceDatapoint", "is_custom"),
                              Part("JsonInferenceDatapoint", "is_custom")}
  BY TableName DEF Migration0032, Migration, Tables, DatapointTables, Part
<1> QED
  BY <1>1 DEF Is, Part, Migration0032, Migration, DatapointTables, Tables, AddColumns,
     Create, Statement, Parts

LEMMA Data0033 ==
    LET m == Migration0033
        st == m.steps
    IN  /\ m.needs = {}
        /\ m.checks = {Table("DeploymentID"), Part("DeploymentID", "row")}
        /\ m.absent = {} /\ Len(st) = 2
        /\ Is(st[1], "create", {Table("DeploymentID")}, {})
        /\ Is(st[2], "write", {Part("DeploymentID", "row")}, {Table("DeploymentID")})
  BY DEF Is, Part, Migration0033, Migration, CreateTable, Create, Statement, Write

-----------------------------------------------------------------------------
(***************************************************************************)
(* Each migration is sound in its place                                     *)
(***************************************************************************)
LEMMA KnownBefore ==
    ASSUME NEW i \in 1 .. 27, NEW j \in 1 .. 27, j < i, NEW x \in AllMigrations[j].checks
    PROVE  x \in Known(i)
  BY DEF Known

LEMMA Sound0000 == Sound(AllMigrations[1], 1)
<1>1. Possible(Migration0000, 1)
  BY Data0000 DEF Possible, Statements, Is, Ensured, Lasting
<1>2. Careful(Migration0000)
  BY Data0000, ObjectNames
     DEF Careful, Statements, Is, Adds, Dropped, DroppedNames, Tables
<1>3. Rebuilds(Migration0000)
  BY Data0000 DEF Rebuilds, LooksToRebuild, Statements, Is
<1>4. Refills(Migration0000, 1)
  BY Data0000, ObjectNames, AllRefilledNames DEF Refills, Statements, Is, Adds, Refilled
<1>5. Covers(Migration0000, 1)
  BY Data0000, Distinct, UncheckedObjects
     DEF Covers, Statements, Is, Adds, Ensured, Lasting, LastTable, LastIndex, EarlierViews,
         EarlierIndexes, Tables
<1> QED
  BY <1>1, <1>2, <1>3, <1>4, <1>5, Numbered DEF Sound

LEMMA Sound0002 == Sound(AllMigrations[2], 2)
<1>1. Possible(Migration0002, 2)
  BY Data0002 DEF Possible, Statements, Is, Ensured, Lasting
<1>2. Careful(Migration0002)
  BY Data0002, ObjectNames
     DEF Careful, Statements, Is, Adds, Dropped, DroppedNames, Tables
<1>3. Rebuilds(Migration0002)
  BY Data0002 DEF Rebuilds, LooksToRebuild, Statements, Is
<1>4. Refills(Migration0002, 2)
  BY Data0002, ObjectNames, AllRefilledNames DEF Refills, Statements, Is, Adds, Refilled
<1>5. Covers(Migration0002, 2)
  BY Data0002, Distinct, UncheckedObjects
     DEF Covers, Statements, Is, Adds, Ensured, Lasting, LastTable, LastIndex, EarlierViews,
         EarlierIndexes, Tables
<1> QED
  BY <1>1, <1>2, <1>3, <1>4, <1>5, Numbered DEF Sound

LEMMA Sound0003 == Sound(AllMigrations[3], 3)
<1>1. {Table("BooleanMetricFeedback"), Table("CommentFeedback"), Table("DemonstrationFeedback"),
       Table("FloatMetricFeedback")} \subseteq Known(3)
  BY KnownBefore, Numbered, Data0000
<1>2. Possible(Migration0003, 3)
  BY Data0003, <1>1 DEF Possible, Statements, Is, Ensured, Lasting
<1>3. Careful(Migration0003)
  BY Data0003, ObjectNames
     DEF Careful, Statements, Is, Adds, Dropped, DroppedNames, Tables
<1>4. Rebuilds(Migration0003)
  BY Data0003 DEF Rebuilds, LooksToRebuild, Statements, Is
<1>5. Refills(Migration0003, 3)
  BY Data0003, ObjectNames, AllRefilledNames DEF Refills, Statements, Is, Adds, Refilled
<1>6. Covers(Migration0003, 3)
  BY Data0003, Distinct, UncheckedObjects
     DEF Covers, Statements, Is, Adds, Ensured, Lasting, LastTable, LastIndex, EarlierViews,
         EarlierIndexes, Tables
<1> QED
  BY <1>2, <1>3, <1>4, <1>5, <1>6, Numbered DEF Sound

LEMMA Sound0004 == Sound(AllMigrations[4], 4)
<1>1. {Table("ModelInference")} \subseteq Known(4)
  BY KnownBefore, Numbered, Data0000
<1>2. Possible(Migration0004, 4)
  BY Data0004, <1>1 DEF Possible, Statements, Is, Ensured, Lasting
<1>3. Careful(Migration0004)
  BY Data0004, ObjectNames
     DEF Careful, Statements, Is, Adds, Dropped, DroppedNames, Tables
<1>4. Rebuilds(Migration0004)
  BY Data0004 DEF Rebuilds, LooksToRebuild, Statements, Is
<1>5. Refills(Migration0004, 4)
  BY Data0004, ObjectNames, AllRefilledNames DEF Refills, Statements, Is, Adds, Refilled
<1>6. Covers(Migration0004, 4)
  BY Data0004, Distinct, UncheckedObjects
     DEF Covers, Statements, Is, Adds, Ensured, Lasting, LastTable, LastIndex, EarlierViews,
         EarlierIndexes, Tables
<1> QED
  BY <1>2, <1>3, <1>4, <1>5, <1>6, Numbered DEF Sound

LEMMA Sound0005 == Sound(AllMigrations[5], 5)
<1>1. {Table("ChatInference"), Table("JsonInference")} \subseteq Known(5)
  BY KnownBefore, Numbered, Data0000
<1>2. Possible(Migration0005, 5)
  BY Data0005, <1>1 DEF Possible, Statements, Is, Ensured, Lasting
<1>3. Careful(Migration0005)
  BY Data0005, ObjectNames
     DEF Careful, Statements, Is, Adds, Dropped, DroppedNames, Tables
<1>4. Rebuilds(Migration0005)
  BY Data0005 DEF Rebuilds, LooksToRebuild, Statements, Is
<1>5. Refills(Migration0005, 5)
  BY Data0005, ObjectNames, AllRefilledNames DEF Refills, Statements, Is, Adds, Refilled
<1>6. Covers(Migration0005, 5)
  BY Data0005, Distinct, UncheckedObjects
     DEF Covers, Statements, Is, Adds, Ensured, Lasting, LastTable, LastIndex, EarlierViews,
         EarlierIndexes, Tables
<1> QED
  BY <1>2, <1>3, <1>4, <1>5, <1>6, Numbered DEF Sound

LEMMA Sound0006 == Sound(AllMigrations[6], 6)
<1>1. Possible(Migration0006, 6)
  BY Data0006 DEF Possible, Statements, Is, Ensured, Lasting
<1>2. Careful(Migration0006)
  BY Data0006, ObjectNames
     DEF Careful, Statements, Is, Adds, Dropped, DroppedNames, Tables
<1>3. Rebuilds(Migration0006)
  BY Data0006 DEF Rebuilds, LooksToRebuild, Statements, Is
<1>4. Refills(Migration0006, 6)
  BY Data0006, ObjectNames, AllRefilledNames DEF Refills, Statements, Is, Adds, Refilled
<1>5. Covers(Migration0006, 6)
  BY Data0006, Distinct, UncheckedObjects
     DEF Covers, Statements, Is, Adds, Ensured, Lasting, LastTable, LastIndex, EarlierViews,
         EarlierIndexes, Tables
<1> QED
  BY <1>1, <1>2, <1>3, <1>4, <1>5, Numbered DEF Sound

LEMMA Sound0008 == Sound(AllMigrations[7], 7)
<1>1. {Table("ChatInference"), Table("JsonInference"), Table("ModelInference")} \subseteq Known(7)
  BY KnownBefore, Numbered, Data0000
<1>2. {Table("BatchRequest")} \subseteq Known(7)
  BY KnownBefore, Numbered, Data0006
<1>3. Possible(Migration0008, 7)
  BY Data0008, <1>1, <1>2 DEF Possible, Statements, Is, Ensured, Lasting
<1>4. Careful(Migration0008)
  BY Data0008, ObjectNames
     DEF Careful, Statements, Is, Adds, Dropped, DroppedNames, Tables
<1>5. Rebuilds(Migration0008)
  BY Data0008 DEF Rebuilds, LooksToRebuild, Statements, Is
<1>6. Refills(Migration0008, 7)
  BY Data0008, ObjectNames, AllRefilledNames DEF Refills, Statements, Is, Adds, Refilled
<1>7. Covers(Migration0008, 7)
  BY Data0008, Distinct, UncheckedObjects
     DEF Covers, Statements, Is, Adds, Ensured, Lasting, LastTable, LastIndex, EarlierViews,
         EarlierIndexes, Tables
<1> QED
  BY <1>3, <1>4, <1>5, <1>6, <1>7, Numbered DEF Sound

LEMMA Sound0009 == Sound(AllMigrations[8], 8)
<1>1. {Table("BooleanMetricFeedback"), Table("CommentFeedback"), Table("DemonstrationFeedback"),
       Table("FloatMetricFeedback")} \subseteq Known(8)
  BY KnownBefore, Numbered, Data0000
<1>2. {Part("BooleanMetricFeedback", "tags"), Part("CommentFeedback", "tags"),
       Part("DemonstrationFeedback", "tags"),
       Part("FloatMetricFeedback", "tags")} \subseteq Known(8)
  BY KnownBefore, Numbered, Data0003
<1>3. Possible(Migration0009, 8)
  BY Data0009, <1>1, <1>2 DEF Possible, Statements, Is, Ensured, Lasting
<1>4. Careful(Migration0009)
  BY Data0009, ObjectNames
     DEF Careful, Statements, Is, Adds, Dropped, DroppedNames, Tables
<1>5. Rebuilds(Migration0009)
  BY Data0009 DEF Rebuilds, LooksToRebuild, Statements, Is
<1>6. Refills(Migration0009, 8)
  BY Data0009, ObjectNames, AllRefilledNames DEF Refills, Statements, Is, Adds, Refilled
<1>7. Covers(Migration0009, 8)
  BY Data0009, Distinct, UncheckedObjects
     DEF Covers, Statements, Is, Adds, Ensured, Lasting, LastTable, LastIndex, EarlierViews,
         EarlierIndexes, Tables
<1> QED
  BY <1>3, <1>4, <1>5, <1>6, <1>7, Numbered DEF Sound

LEMMA Sound0011 == Sound(AllMigrations[9], 9)
<1>1. {Table("ModelInference")} \subseteq Known(9)
  BY KnownBefore, Numbered, Data0000
<1>2. Possible(Migration0011, 9)
  BY Data0011, <1>1 DEF Possible, Statements, Is, Ensured, Lasting
<1>3. Careful(Migration0011)
  BY Data0011, ObjectNames
     DEF Careful, Statements, Is, Adds, Dropped, DroppedNames, Tables
<1>4. Rebuilds(Migration0011)
  BY Data0011 DEF Rebuilds, LooksToRebuild, Statements, Is
<1>5. Refills(Migration0011, 9)
  BY Data0011, ObjectNames, AllRefilledNames DEF Refills, Statements, Is, Adds, Refilled
<1>6. Covers(Migration0011, 9)
  BY Data0011, Distinct, UncheckedObjects
     DEF Covers, Statements, Is, Adds, Ensured, Lasting, LastTable, LastIndex, EarlierViews,
         EarlierIndexes, Tables
<1> QED
  BY <1>2, <1>3, <1>4, <1>5, <1>6, Numbered DEF Sound

LEMMA Sound0015 == Sound(AllMigrations[10], 10)
<1>1. {Table("ModelInference")} \subseteq Known(10)
  BY KnownBefore, Numbered, Data0000
<1>2. Possible(Migration0015, 10)
  BY Data0015, <1>1 DEF Possible, Statements, Is, Ensured, Lasting
<1>3. Careful(Migration0015)
  BY Data0015, ObjectNames
     DEF Careful, Statements, Is, Adds, Dropped, DroppedNames, Tables
<1>4. Rebuilds(Migration0015)
  BY Data0015 DEF Rebuilds, LooksToRebuild, Statements, Is
<1>5. Refills(Migration0015, 10)
  BY Data0015, ObjectNames, AllRefilledNames DEF Refills, Statements, Is, Adds, Refilled
<1>6. Covers(Migration0015, 10)
  BY Data0015, Distinct, UncheckedObjects
     DEF Covers, Statements, Is, Adds, Ensured, Lasting, LastTable, LastIndex, EarlierViews,
         EarlierIndexes, Tables
<1> QED
  BY <1>2, <1>3, <1>4, <1>5, <1>6, Numbered DEF Sound

LEMMA Sound0016 == Sound(AllMigrations[11], 11)
<1>1. Possible(Migration0016, 11)
  BY Data0016 DEF Possible, Statements, Is, Ensured, Lasting
<1>2. Careful(Migration0016)
  <2>1. LegacyDatasets = {Table("ChatInferenceDataset"), Table("JsonInferenceDataset")}
    BY DEF LegacyDatasets, Tables
  <2>2. \A k \in Statements(Migration0016) : Migration0016.steps[k].op = "require_empty" => k \in {2, 4}
    BY Data0016 DEF Statements, Is
  <2>3. \A k \in Statements(Migration0016) : Migration0016.steps[k].op = "require_empty" =>
            /\ k > 1 /\ Migration0016.steps[k - 1].op = "look"
            /\ Migration0016.steps[k - 1].objects = Migration0016.steps[k].objects
            /\ Migration0016.steps[k].from = Migration0016.steps[k].objects
            /\ \E t \in LegacyDatasets : Migration0016.steps[k].objects = {t}
    <3>1. /\ 2 - 1 = 1 /\ 4 - 1 = 3 /\ 2 > 1 /\ 4 > 1
      OBVIOUS
    <3> QED
      BY Data0016, <2>1, <2>2, <3>1 DEF Is
  <2> QED
    BY Data0016, ObjectNames, <2>3
       DEF Careful, Statements, Is, Adds, Dropped, DroppedNames, Tables
<1>3. Rebuilds(Migration0016)
  BY Data0016 DEF Rebuilds, LooksToRebuild, Statements, Is
<1>4. Refills(Migration0016, 11)
  BY Data0016, ObjectNames, AllRefilledNames DEF Refills, Statements, Is, Adds, Refilled
<1>5. Covers(Migration0016, 11)
  BY Data0016, Distinct, UncheckedObjects
     DEF Covers, Statements, Is, Adds, Ensured, Lasting, LastTable, LastIndex, EarlierViews,
         EarlierIndexes, Tables
<1> QED
  BY <1>1, <1>2, <1>3, <1>4, <1>5, Numbered DEF Sound

LEMMA Sound0017 == Sound(AllMigrations[12], 12)
<1>1. {Table("ModelInferenceCache")} \subseteq Known(12)
  BY KnownBefore, Numbered, Data0011
<1>2. Possible(Migration0017, 12)
  BY Data0017, <1>1 DEF Possible, Statements, Is, Ensured, Lasting
<1>3. Careful(Migration0017)
  BY Data0017, ObjectNames
     DEF Careful, Statements, Is, Adds, Dropped, DroppedNames, Tables
<1>4. Rebuilds(Migration0017)
  BY Data0017 DEF Rebuilds, LooksToRebuild, Statements, Is
<1>5. Refills(Migration0017, 12)
  BY Data0017, ObjectNames, AllRefilledNames DEF Refills, Statements, Is, Adds, Refilled
<1>6. Covers(Migration0017, 12)
  BY Data0017, Distinct, UncheckedObjects
     DEF Covers, Statements, Is, Adds, Ensured, Lasting, LastTable, LastIndex, EarlierViews,
         EarlierIndexes, Tables
<1> QED
  BY <1>2, <1>3, <1>4, <1>5, <1>6, Numbered DEF Sound

LEMMA Sound0018 == Sound(AllMigrations[13], 13)
<1>1. {Table("ModelInference")} \subseteq Known(13)
  BY KnownBefore, Numbered, Data0000
<1>2. {Table("ModelInferenceCache")} \subseteq Known(13)
  BY KnownBefore, Numbered, Data0011
<1>3. Possible(Migration0018, 13)
  BY Data0018, <1>1, <1>2 DEF Possible, Statements, Is, Ensured, Lasting
<1>4. Careful(Migration0018)
  BY Data0018, ObjectNames
     DEF Careful, Statements, Is, Adds, Dropped, DroppedNames, Tables
<1>5. Rebuilds(Migration0018)
  BY Data0018 DEF Rebuilds, LooksToRebuild, Statements, Is
<1>6. Refills(Migration0018, 13)
  BY Data0018, ObjectNames, AllRefilledNames DEF Refills, Statements, Is, Adds, Refilled
<1>7. Covers(Migration0018, 13)
  BY Data0018, Distinct, UncheckedObjects
     DEF Covers, Statements, Is, Adds, Ensured, Lasting, LastTable, LastIndex, EarlierViews,
         EarlierIndexes, Tables
<1> QED
  BY <1>3, <1>4, <1>5, <1>6, <1>7, Numbered DEF Sound

LEMMA Sound0019 == Sound(AllMigrations[14], 14)
<1>1. {Table("ChatInference"), Table("JsonInference")} \subseteq Known(14)
  BY KnownBefore, Numbered, Data0000
<1>2. Possible(Migration0019, 14)
  BY Data0019, <1>1 DEF Possible, Statements, Is, Ensured, Lasting
<1>3. Careful(Migration0019)
  BY Data0019, ObjectNames
     DEF Careful, Statements, Is, Adds, Dropped, DroppedNames, Tables
<1>4. Rebuilds(Migration0019)
  BY Data0019 DEF Rebuilds, LooksToRebuild, Statements, Is
<1>5. Refills(Migration0019, 14)
  BY Data0019, ObjectNames, AllRefilledNames DEF Refills, Statements, Is, Adds, Refilled
<1>6. Covers(Migration0019, 14)
  BY Data0019, Distinct, UncheckedObjects
     DEF Covers, Statements, Is, Adds, Ensured, Lasting, LastTable, LastIndex, EarlierViews,
         EarlierIndexes, Tables
<1> QED
  BY <1>2, <1>3, <1>4, <1>5, <1>6, Numbered DEF Sound

LEMMA Sound0020 == Sound(AllMigrations[15], 15)
<1> DEFINE m == Migration0020
           st == Migration0020.steps
<1>1. {Table("ChatInference"), Table("JsonInference")} \subseteq Known(15)
  BY KnownBefore, Numbered, Data0000
<1>2. Possible(m, 15)
  <2>1. /\ Ensured(st[3]) = {Table("InferenceById"), Part("InferenceById", "UInt128"),
                             Part("InferenceById", "ReplacingMergeTree")}
        /\ Ensured(st[7]) = {Table("InferenceByEpisodeId"), Part("InferenceByEpisodeId", "UInt128"),
                             Part("InferenceByEpisodeId", "ReplacingMergeTree")}
        /\ Ensured(st[9]) = {Table("uint_to_uuid")}
        /\ Ensured(st[10]) = {Table("ChatInferenceByIdView")}
        /\ Ensured(st[11]) = {Table("JsonInferenceByIdView")}
        /\ Ensured(st[12]) = {Table("ChatInferenceByEpisodeIdView")}
        /\ Ensured(st[13]) = {Table("JsonInferenceByEpisodeIdView")}
    BY Data0020 DEF Is, Ensured, Lasting
  <2>2. /\ Len(st) \in Nat
        /\ m.needs \subseteq Known(15)
        /\ m.absent = {}
    BY <1>1, Data0020
  <2>3. ASSUME NEW x \in m.checks
        PROVE  \E j \in Statements(m) : x \in Ensured(st[j])
    BY <2>1, Data0020 DEF Statements
  <2>4. ASSUME NEW k \in Statements(m), st[k].op # "exchange", NEW x \in st[k].from
        PROVE  x \in Known(15) \/ \E j \in 1 .. (k - 1) : x \in Ensured(st[j])
    <3>1. k >= 9
      BY <2>4, Data0020 DEF Is, Statements
    <3>2. 3 \in 1 .. (k - 1) /\ 7 \in 1 .. (k - 1)
      BY <3>1 DEF Statements
    <3>3. x \in Known(15) \/ x \in Ensured(st[3]) \/ x \in Ensured(st[7])
      BY <1>1, <2>1, <2>4, <3>1, Data0020 DEF Is, Statements
    <3> QED
      BY <3>2, <3>3
  <2> QED
    BY <2>2, <2>3, <2>4 DEF Possible
<1>3. Careful(m)
  BY Data0020, ObjectNames
     DEF Careful, Statements, Is, Adds, Dropped, DroppedNames, Tables
<1>4. Rebuilds(m)
  <2> SUFFICES ASSUME NEW k \in Statements(m)
               PROVE  /\ st[k].op = "look" =>
                             /\ k + 2 \in Statements(m)
                             /\ st[k + 1].op = "create_or_temp" /\ st[k + 2].op = "exchange"
                             /\ st[k].objects = st[k + 2].from
                             /\ st[k + 1].objects = st[k].objects \cup st[k + 2].objects
                      /\ st[k].op = "create_or_temp" => k > 1 /\ st[k - 1].op = "look"
                      /\ st[k].op = "exchange" =>
                             k > 2 /\ st[k - 2].op = "look" /\ st[(k - 2) + 1].op = "create_or_temp"
    BY DEF Rebuilds, LooksToRebuild
  <2>1. /\ st[k].op = "look" => k = 1 \/ k = 5
        /\ st[k].op = "create_or_temp" => k = 2 \/ k = 6
        /\ st[k].op = "exchange" => k = 3 \/ k = 7
    BY Data0020 DEF Is, Statements
  <2>2. /\ Len(st) = 17
        /\ st[1].op = "look" /\ st[2].op = "create_or_temp" /\ st[3].op = "exchange"
        /\ st[5].op = "look" /\ st[6].op = "create_or_temp" /\ st[7].op = "exchange"
        /\ st[1].objects = st[3].from /\ st[2].objects = st[1].objects \cup st[3].objects
        /\ st[5].objects = st[7].from /\ st[6].objects = st[5].objects \cup st[7].objects
    BY Data0020 DEF Is
  <2> HIDE DEF st
  <2>3. CASE st[k].op = "look"
    <3>1. k = 1 \/ k = 5
      BY <2>1, <2>3
    <3> QED
      BY <2>2, <2>3, <3>1 DEF Statements, st
  <2>4. CASE st[k].op = "create_or_temp"
    BY <2>1, <2>2, <2>4 DEF Statements
  <2>5. CASE st[k].op = "exchange"
    <3>1. k = 3 \/ k = 7
      BY <2>1, <2>5
    <3>2. (3 - 2) + 1 = 2 /\ (7 - 2) + 1 = 6 /\ 3 - 2 = 1 /\ 7 - 2 = 5 /\ 3 > 2 /\ 7 > 2
      OBVIOUS
    <3> QED
      BY <2>2, <2>5, <3>1, <3>2
  <2> QED
    BY <2>3, <2>4, <2>5
<1>5. Refills(m, 15)
  BY Data0020, ObjectNames, AllRefilledNames DEF Refills, Statements, Is, Adds, Refilled
<1>6. Covers(m, 15)
  BY Data0020, Distinct, UncheckedObjects
     DEF Covers, Statements, Is, Adds, Ensured, Lasting, LastTable, LastIndex, EarlierViews,
         EarlierIndexes, Tables
<1> QED
  BY <1>2, <1>3, <1>4, <1>5, <1>6, Numbered DEF Sound

LEMMA Sound0021 == Sound(AllMigrations[16], 16)
<1>1. {Table("ChatInference"), Table("JsonInference")} \subseteq Known(16)
  BY KnownBefore, Numbered, Data0000
<1>2. {Part("ChatInference", "tags"), Part("JsonInference", "tags")} \subseteq Known(16)
  BY KnownBefore, Numbered, Data0005
<1>3. {Table("ChatInferenceDatapoint"), Table("JsonInferenceDatapoint")} \subseteq Known(16)
  BY KnownBefore, Numbered, Data0016
<1>4. Possible(Migration0021, 16)
  BY Data0021, <1>1, <1>2, <1>3 DEF Possible, Statements, Is, Ensured, Lasting
<1>5. Careful(Migration0021)
  BY Data0021, ObjectNames
     DEF Careful, Statements, Is, Adds, Dropped, DroppedNames, Tables
<1>6. Rebuilds(Migration0021)
  BY Data0021 DEF Rebuilds, LooksToRebuild, Statements, Is
<1>7. Refills(Migration0021, 16)
  BY Data0021, ObjectNames, AllRefilledNames DEF Refills, Statements, Is, Adds, Refilled
<1>8. Covers(Migration0021, 16)
  BY Data0021, Distinct, UncheckedObjects
     DEF Covers, Statements, Is, Adds, Ensured, Lasting, LastTable, LastIndex, EarlierViews,
         EarlierIndexes, Tables
<1> QED
  BY <1>4, <1>5, <1>6, <1>7, <1>8, Numbered DEF Sound

LEMMA Sound0022 == Sound(AllMigrations[17], 17)
<1>1. {Table("ChatInferenceDatapoint"), Table("JsonInferenceDatapoint")} \subseteq Known(17)
  BY KnownBefore, Numbered, Data0016
<1>2. Possible(Migration0022, 17)
  BY Data0022, <1>1 DEF Possible, Statements, Is, Ensured, Lasting
<1>3. Careful(Migration0022)
  BY Data0022, ObjectNames
     DEF Careful, Statements, Is, Adds, Dropped, DroppedNames, Tables
<1>4. Rebuilds(Migration0022)
  BY Data0022 DEF Rebuilds, LooksToRebuild, Statements, Is
<1>5. Refills(Migration0022, 17)
  BY Data0022, ObjectNames, AllRefilledNames DEF Refills, Statements, Is, Adds, Refilled
<1>6. Covers(Migration0022, 17)
  BY Data0022, Distinct, UncheckedObjects
     DEF Covers, Statements, Is, Adds, Ensured, Lasting, LastTable, LastIndex, EarlierViews,
         EarlierIndexes, Tables
<1> QED
  BY <1>2, <1>3, <1>4, <1>5, <1>6, Numbered DEF Sound

LEMMA Sound0024 == Sound(AllMigrations[18], 18)
<1>1. {Table("JsonInference")} \subseteq Known(18)
  BY KnownBefore, Numbered, Data0000
<1>2. Possible(Migration0024, 18)
  BY Data0024, <1>1 DEF Possible, Statements, Is, Ensured, Lasting
<1>3. Careful(Migration0024)
  BY Data0024, ObjectNames
     DEF Careful, Statements, Is, Adds, Dropped, DroppedNames, Tables
<1>4. Rebuilds(Migration0024)
  BY Data0024 DEF Rebuilds, LooksToRebuild, Statements, Is
<1>5. Refills(Migration0024, 18)
  BY Data0024, ObjectNames, AllRefilledNames DEF Refills, Statements, Is, Adds, Refilled
<1>6. Covers(Migration0024, 18)
  BY Data0024, Distinct, UncheckedObjects
     DEF Covers, Statements, Is, Adds, Ensured, Lasting, LastTable, LastIndex, EarlierViews,
         EarlierIndexes, Tables
<1> QED
  BY <1>2, <1>3, <1>4, <1>5, <1>6, Numbered DEF Sound

LEMMA Sound0025 == Sound(AllMigrations[19], 19)
<1>1. Possible(Migration0025, 19)
  BY Data0025 DEF Possible, Statements, Is, Ensured, Lasting
<1>2. Careful(Migration0025)
  BY Data0025, ObjectNames
     DEF Careful, Statements, Is, Adds, Dropped, DroppedNames, Tables
<1>3. Rebuilds(Migration0025)
  BY Data0025 DEF Rebuilds, LooksToRebuild, Statements, Is
<1>4. Refills(Migration0025, 19)
  BY Data0025, ObjectNames, AllRefilledNames DEF Refills, Statements, Is, Adds, Refilled
<1>5. Covers(Migration0025, 19)
  BY Data0025, Distinct, UncheckedObjects
     DEF Covers, Statements, Is, Adds, Ensured, Lasting, LastTable, LastIndex, EarlierViews,
         EarlierIndexes, Tables
<1> QED
  BY <1>1, <1>2, <1>3, <1>4, <1>5, Numbered DEF Sound

LEMMA Sound0026 == Sound(AllMigrations[20], 20)
<1>1. {Table("DynamicEvaluationRun"), Table("DynamicEvaluationRunEpisode")} \subseteq Known(20)
  BY KnownBefore, Numbered, Data0025
<1>2. Possible(Migration0026, 20)
  BY Data0026, <1>1 DEF Possible, Statements, Is, Ensured, Lasting
<1>3. Careful(Migration0026)
  BY Data0026, ObjectNames
     DEF Careful, Statements, Is, Adds, Dropped, DroppedNames, Tables
<1>4. Rebuilds(Migration0026)
  BY Data0026 DEF Rebuilds, LooksToRebuild, Statements, Is
<1>5. Refills(Migration0026, 20)
  BY Data0026, ObjectNames, AllRefilledNames DEF Refills, Statements, Is, Adds, Refilled
<1>6. Covers(Migration0026, 20)
  BY Data0026, Distinct, UncheckedObjects
     DEF Covers, Statements, Is, Adds, Ensured, Lasting, LastTable, LastIndex, EarlierViews,
         EarlierIndexes, Tables
<1> QED
  BY <1>2, <1>3, <1>4, <1>5, <1>6, Numbered DEF Sound

LEMMA Sound0027 == Sound(AllMigrations[21], 21)
<1>1. {Table("ChatInference"), Table("JsonInference")} \subseteq Known(21)
  BY KnownBefore, Numbered, Data0000
<1>2. {Table("ChatInferenceDatapoint"), Table("JsonInferenceDatapoint")} \subseteq Known(21)
  BY KnownBefore, Numbered, Data0016
<1>3. {Table("TagInference")} \subseteq Known(21)
  BY KnownBefore, Numbered, Data0021
<1>4. Possible(Migration0027, 21)
  BY Data0027, <1>1, <1>2, <1>3 DEF Possible, Statements, Is, Ensured, Lasting
<1>5. Careful(Migration0027)
  BY Data0027, ObjectNames
     DEF Careful, Statements, Is, Adds, Dropped, DroppedNames, Tables
<1>6. Rebuilds(Migration0027)
  BY Data0027 DEF Rebuilds, LooksToRebuild, Statements, Is
<1>7. Refills(Migration0027, 21)
  BY Data0027, ObjectNames, AllRefilledNames DEF Refills, Statements, Is, Adds, Refilled
<1>8. Covers(Migration0027, 21)
  BY Data0027, Distinct, UncheckedObjects
     DEF Covers, Statements, Is, Adds, Ensured, Lasting, LastTable, LastIndex, EarlierViews,
         EarlierIndexes, Tables
<1> QED
  BY <1>4, <1>5, <1>6, <1>7, <1>8, Numbered DEF Sound

LEMMA Sound0028 == Sound(AllMigrations[22], 22)
<1>1. {Table("BooleanMetricFeedback"), Table("FloatMetricFeedback"), Table("ChatInference"),
       Table("JsonInference")} \subseteq Known(22)
  BY KnownBefore, Numbered, Data0000
<1>2. {Part("FloatMetricFeedback", "tags"),
       Part("BooleanMetricFeedback", "tags")} \subseteq Known(22)
  BY KnownBefore, Numbered, Data0003
<1>3. {Part("InferenceById", "UInt128")} \subseteq Known(22)
  BY KnownBefore, Numbered, Data0020
<1>4. Possible(Migration0028, 22)
  BY Data0028, <1>1, <1>2, <1>3 DEF Possible, Statements, Is, Ensured, Lasting
<1>5. Careful(Migration0028)
  BY Data0028, ObjectNames
     DEF Careful, Statements, Is, Adds, Dropped, DroppedNames, Tables
<1>6. Rebuilds(Migration0028)
  BY Data0028 DEF Rebuilds, LooksToRebuild, Statements, Is
<1>7. Refills(Migration0028, 22)
  BY Data0028, ObjectNames, AllRefilledNames DEF Refills, Statements, Is, Adds, Refilled
<1>8. Covers(Migration0028, 22)
  BY Data0028, Distinct, UncheckedObjects
     DEF Covers, Statements, Is, Adds, Ensured, Lasting, LastTable, LastIndex, EarlierViews,
         EarlierIndexes, Tables
<1> QED
  BY <1>4, <1>5, <1>6, <1>7, <1>8, Numbered DEF Sound

LEMMA Sound0029 == Sound(AllMigrations[23], 23)
<1>1. Possible(Migration0029, 23)
  BY Data0029 DEF Possible, Statements, Is, Ensured, Lasting
<1>2. Careful(Migration0029)
  BY Data0029, ObjectNames
     DEF Careful, Statements, Is, Adds, Dropped, DroppedNames, Tables
<1>3. Rebuilds(Migration0029)
  BY Data0029 DEF Rebuilds, LooksToRebuild, Statements, Is
<1>4. Refills(Migration0029, 23)
  BY Data0029, ObjectNames, AllRefilledNames DEF Refills, Statements, Is, Adds, Refilled
<1>5. Covers(Migration0029, 23)
  BY Data0029, Distinct, UncheckedObjects
     DEF Covers, Statements, Is, Adds, Ensured, Lasting, LastTable, LastIndex, EarlierViews,
         EarlierIndexes, Tables
<1> QED
  BY <1>1, <1>2, <1>3, <1>4, <1>5, Numbered DEF Sound

LEMMA Sound0030 == Sound(AllMigrations[24], 24)
<1>1. {Part("ModelInference", "finish_reason"),
       Part("ModelInferenceCache", "finish_reason")} \subseteq Known(24)
  BY KnownBefore, Numbered, Data0018
<1>2. Possible(Migration0030, 24)
  BY Data0030, <1>1 DEF Possible, Statements, Is, Ensured, Lasting
<1>3. Careful(Migration0030)
  BY Data0030, ObjectNames
     DEF Careful, Statements, Is, Adds, Dropped, DroppedNames, Tables
<1>4. Rebuilds(Migration0030)
  BY Data0030 DEF Rebuilds, LooksToRebuild, Statements, Is
<1>5. Refills(Migration0030, 24)
  BY Data0030, ObjectNames, AllRefilledNames DEF Refills, Statements, Is, Adds, Refilled
<1>6. Covers(Migration0030, 24)
  BY Data0030, Distinct, UncheckedObjects
     DEF Covers, Statements, Is, Adds, Ensured, Lasting, LastTable, LastIndex, EarlierViews,
         EarlierIndexes, Tables
<1> QED
  BY <1>2, <1>3, <1>4, <1>5, <1>6, Numbered DEF Sound

LEMMA Sound0031 == Sound(AllMigrations[25], 25)
<1>1. {Table("ChatInference"), Table("JsonInference")} \subseteq Known(25)
  BY KnownBefore, Numbered, Data0000
<1>2. Possible(Migration0031, 25)
  BY Data0031, <1>1 DEF Possible, Statements, Is, Ensured, Lasting
<1>3. Careful(Migration0031)
  BY Data0031, ObjectNames
     DEF Careful, Statements, Is, Adds, Dropped, DroppedNames, Tables
<1>4. Rebuilds(Migration0031)
  BY Data0031 DEF Rebuilds, LooksToRebuild, Statements, Is
<1>5. Refills(Migration0031, 25)
  BY Data0031, ObjectNames, AllRefilledNames DEF Refills, Statements, Is, Adds, Refilled
<1>6. Covers(Migration0031, 25)
  BY Data0031, Distinct, UncheckedObjects
     DEF Covers, Statements, Is, Adds, Ensured, Lasting, LastTable, LastIndex, EarlierViews,
         EarlierIndexes, Tables
<1> QED
  BY <1>2, <1>3, <1>4, <1>5, <1>6, Numbered DEF Sound

LEMMA Sound0032 == Sound(AllMigrations[26], 26)
<1>1. {Table("ChatInferenceDatapoint"), Table("JsonInferenceDatapoint")} \subseteq Known(26)
  BY KnownBefore, Numbered, Data0016
<1>2. Possible(Migration0032, 26)
  BY Data0032, <1>1 DEF Possible, Statements, Is, Ensured, Lasting
<1>3. Careful(Migration0032)
  BY Data0032, ObjectNames
     DEF Careful, Statements, Is, Adds, Dropped, DroppedNames, Tables
<1>4. Rebuilds(Migration0032)
  BY Data0032 DEF Rebuilds, LooksToRebuild, Statements, Is
<1>5. Refills(Migration0032, 26)
  BY Data0032, ObjectNames, AllRefilledNames DEF Refills, Statements, Is, Adds, Refilled
<1>6. Covers(Migration0032, 26)
  BY Data0032, Distinct, UncheckedObjects
     DEF Covers, Statements, Is, Adds, Ensured, Lasting, LastTable, LastIndex, EarlierViews,
         EarlierIndexes, Tables
<1> QED
  BY <1>2, <1>3, <1>4, <1>5, <1>6, Numbered DEF Sound

LEMMA Sound0033 == Sound(AllMigrations[27], 27)
<1>1. Possible(Migration0033, 27)
  BY Data0033 DEF Possible, Statements, Is, Ensured, Lasting
<1>2. Careful(Migration0033)
  BY Data0033, ObjectNames
     DEF Careful, Statements, Is, Adds, Dropped, DroppedNames, Tables
<1>3. Rebuilds(Migration0033)
  BY Data0033 DEF Rebuilds, LooksToRebuild, Statements, Is
<1>4. Refills(Migration0033, 27)
  BY Data0033, ObjectNames, AllRefilledNames DEF Refills, Statements, Is, Adds, Refilled
<1>5. Covers(Migration0033, 27)
  BY Data0033, Distinct, UncheckedObjects
     DEF Covers, Statements, Is, Adds, Ensured, Lasting, LastTable, LastIndex, EarlierViews,
         EarlierIndexes, Tables
<1> QED
  BY <1>1, <1>2, <1>3, <1>4, <1>5, Numbered DEF Sound

\* The list of migrations is sound as a whole.
LEMMA AllSound == \A i \in 1 .. 27 : Sound(AllMigrations[i], i)
  BY Sound0000, Sound0002, Sound0003, Sound0004, Sound0005, Sound0006, Sound0008, Sound0009,
     Sound0011, Sound0015, Sound0016, Sound0017, Sound0018, Sound0019, Sound0020, Sound0021,
     Sound0022, Sound0024, Sound0025, Sound0026, Sound0027, Sound0028, Sound0029, Sound0030,
     Sound0031, Sound0032, Sound0033

\* In a database whose migrations ran in order, the objects no should_apply looks for come
\* with the last one that it does look for.
LEMMA FoundInOrder ==
    ASSUME NEW d, InOrder(d)
    PROVE  /\ LastTable \in d => EarlierViews \subseteq d
           /\ LastIndex \in d => EarlierIndexes \subseteq d
<1> DEFINE m == AllMigrations[8]
           n == AllMigrations[21]
<1>1. ASSUME NEW s, s \in {AllMigrations[8].steps, AllMigrations[21].steps}
      PROVE  \A k, l \in 1 .. Len(s) :
                 k < l /\ Lasting(s[k]) /\ Lasting(s[l]) /\ s[l].objects \cap d # {}
                   => s[k].objects \subseteq d
  <2>1. Len(AllMigrations) = 27
    BY Numbered
  <2>2. PICK i \in 1 .. Len(AllMigrations) : s = AllMigrations[i].steps
    BY <1>1, <2>1
  <2> QED
    BY <2>2 DEF InOrder
<1>2. ASSUME LastTable \in d
      PROVE  EarlierViews \subseteq d
  <2>1. /\ Len(m.steps) = 9 /\ Lasting(m.steps[7]) /\ LastTable \in m.steps[7].objects
        /\ Lasting(m.steps[2]) /\ Lasting(m.steps[4]) /\ Lasting(m.steps[6])
        /\ m.steps[2].objects = {Table("BooleanMetricFeedbackByTargetIdView")}
        /\ m.steps[4].objects = {Table("CommentFeedbackByTargetIdView")}
        /\ m.steps[6].objects = {Table("DemonstrationFeedbackByInferenceIdView")}
    BY Data0009, Numbered DEF Is, Lasting, LastTable
  <2>2. \A k, l \in 1 .. 9 :
            k < l /\ Lasting(m.steps[k]) /\ Lasting(m.steps[l]) /\ m.steps[l].objects \cap d # {}
              => m.steps[k].objects \subseteq d
    <3>1. m.steps \in {AllMigrations[8].steps, AllMigrations[21].steps}
      OBVIOUS
    <3> HIDE DEF m
    <3> QED
      BY <1>1, <2>1, <3>1
  <2> HIDE DEF m
  <2>3. m.steps[7].objects \cap d # {}
    BY <1>2, <2>1
  <2>4. m.steps[2].objects \subseteq d
    BY <2>1, <2>2, <2>3
  <2>5. m.steps[4].objects \subseteq d
    BY <2>1, <2>2, <2>3
  <2>6. m.steps[6].objects \subseteq d
    BY <2>1, <2>2, <2>3
  <2> QED
    BY <2>1, <2>4, <2>5, <2>6 DEF EarlierViews, Tables
<1>3. ASSUME LastIndex \in d
      PROVE  EarlierIndexes \subseteq d
  <2>1. /\ Len(n.steps) = 10 /\ Lasting(n.steps[9]) /\ LastIndex \in n.steps[9].objects
        /\ Lasting(n.steps[2]) /\ Lasting(n.steps[4]) /\ Lasting(n.steps[6]) /\ Lasting(n.steps[8])
        /\ n.steps[2].objects = {Part("TagInference", "materialized")}
        /\ n.steps[4].objects = {Part("ChatInference", "materialized")}
        /\ n.steps[6].objects = {Part("JsonInference", "materialized")}
        /\ n.steps[8].objects = {Part("ChatInferenceDatapoint", "materialized")}
    BY Data0027, Numbered DEF Is, Lasting, LastIndex
  <2>2. \A k, l \in 1 .. 10 :
            k < l /\ Lasting(n.steps[k]) /\ Lasting(n.steps[l]) /\ n.steps[l].objects \cap d # {}
              => n.steps[k].objects \subseteq d
    <3>1. n.steps \in {AllMigrations[8].steps, AllMigrations[21].steps}
      OBVIOUS
    <3> HIDE DEF n
    <3> QED
      BY <1>1, <2>1, <3>1
  <2> HIDE DEF n
  <2>3. n.steps[9].objects \cap d # {}
    BY <1>3, <2>1
  <2>4. n.steps[2].objects \subseteq d
    BY <2>1, <2>2, <2>3
  <2>5. n.steps[4].objects \subseteq d
    BY <2>1, <2>2, <2>3
  <2>6. n.steps[6].objects \subseteq d
    BY <2>1, <2>2, <2>3
  <2>7. n.steps[8].objects \subseteq d
    BY <2>1, <2>2, <2>3
  <2> QED
    BY <2>1, <2>4, <2>5, <2>6, <2>7 DEF EarlierIndexes
<1> QED
  BY <1>2, <1>3

-----------------------------------------------------------------------------
(***************************************************************************)
(* The gateways that run it                                                 *)
(***************************************************************************)
\* Where a gateway is when.
Place(g) ==
    /\ phase[g] = "stopped" => at[g] = 1
    /\ phase[g] \in {"stopped", "check"} => step[g] = 1
    /\ phase[g] \in {"check", "apply"} => at[g] <= 27
    /\ phase[g] \in {"migrated", "serving"} => at[g] = 28

\* What should_apply of a migration behind a gateway looked for is still there.
Passed(g) ==
    \A j \in 1 .. 27 : j < at[g] =>
        AllMigrations[j].checks \subseteq schema /\ AllMigrations[j].absent \cap schema = {}

\* What the statements behind a gateway made is still there.
Applied(g) ==
    phase[g] = "apply" =>
        \A k \in Statements(Current(g)) : k < step[g] =>
            /\ Ensured(Current(g).steps[k]) \subseteq schema
            /\ Current(g).steps[k].op = "drop" => Current(g).steps[k].objects \cap schema = {}

\* In the middle of a rebuild: the table that was found is still there, and one that was not
\* found has been made in its new shape.
Rebuilding(g) ==
    phase[g] = "apply" =>
        \A k \in Statements(Current(g)) : LooksToRebuild(Current(g), k) =>
            /\ step[g] = k + 1 /\ existed[g] => Current(g).steps[k].objects \subseteq schema
            /\ step[g] = k + 2 =>
                   /\ Current(g).steps[k].objects \subseteq schema
                   /\ existed[g] \/ Current(g).steps[k + 1].objects \subseteq schema

\* The gateway is about to count the rows of a table it has found.
Counts(g, k) ==
    k \in Statements(Current(g)) /\ step[g] = k /\ Current(g).steps[k].op = "require_empty"

\* A table about to be counted is one of the old database, and gone only if there is another
\* gateway.
Counting(g) ==
    phase[g] = "apply" /\ existed[g] =>
        \A k : Counts(g, k) =>
            /\ Current(g).steps[k].objects \subseteq found
            /\ Current(g).steps[k].objects \subseteq schema \/ Gateways # {g}

\* A gateway fails because a dataset table has rows or is no longer there.
Excused(g) ==
    phase[g] = "failed" =>
        /\ at[g] \in 1 .. 27
        /\ \E k : /\ Counts(g, k)
                  /\ \E t \in LegacyDatasets :
                         /\ Current(g).steps[k].objects = {t} /\ t \in found
                         /\ Part(Name(t), "row") \in found \/ (t \notin schema /\ Gateways # {g})

GatewayInv(g) ==
    Place(g) /\ Passed(g) /\ Applied(g) /\ Rebuilding(g) /\ Counting(g) /\ Excused(g)

\* The gateway will find a table gone that it has found.
Doomed(g) ==
    phase[g] = "apply" /\ existed[g] /\ \E k : Counts(g, k) /\ ~(Current(g).steps[k].objects \subseteq schema)

\* The gateway that drops a table last will not fail.
Survivor ==
    found \cap DatasetRows = {} /\ Gateways # {} =>
        \E g \in Gateways : phase[g] # "failed" /\ ~Doomed(g)

SchemaInv ==
    /\ TypeOK
    /\ schema \cap (Dropped \cup DatasetRows) \subseteq found
    /\ \A g \in Gateways : GatewayInv(g)

\* What no should_apply looks for comes before something that one does.
OrderInv ==
    /\ LastTable \in schema => EarlierViews \subseteq schema
    /\ LastIndex \in schema => EarlierIndexes \subseteq schema

\* The gateway has still to copy the rows c.
WillCopy(g, c) ==
    phase[g] = "apply" /\ \E l \in Statements(Current(g)) :
        /\ step[g] <= l /\ Current(g).steps[l].op = "backfill"
        /\ c \in Current(g).steps[l].objects

\* Rows are missing only from a table that is not there, or some gateway will copy them.
CopyInv ==
    /\ found # {} => AllMigrations[1].checks \subseteq schema /\ \A g \in Gateways : ~clean[g]
    /\ crashes = 0 /\ found # {} =>
           \A c \in missing : Table(Name(c)) \notin schema \/ \E g \in Gateways : WillCopy(g, c)

-----------------------------------------------------------------------------
(***************************************************************************)
(* What stays in the schema                                                 *)
(***************************************************************************)
\* A step removes only what migrations drop, and adds none of it and no rows of datasets.
Grows == schema \ Dropped \subseteq schema' /\ schema' \cap (Dropped \cup DatasetRows) \subseteq schema

LEMMA Length == Len(AllMigrations) = 27
  BY Numbered

LEMMA Datasets ==
    /\ LegacyDatasets \subseteq Dropped
    /\ \A t \in LegacyDatasets : RowsOf({t}) = {Part(Name(t), "row")} /\ Part(Name(t), "row") \in DatasetRows
    /\ \A o \in DatasetRows : Name(o) \in DroppedNames
  BY ObjectNames DEF LegacyDatasets, Dropped, Tables, DatasetRows, RowsOf, DroppedNames, Part, Name

LEMMA NamedOnly ==
    /\ \A o \in Dropped \cup DatasetRows : Name(o) \in DroppedNames
    /\ \A o \in Database : Name(o) \notin DroppedNames
  BY ObjectNames, Datasets DEF Dropped, Tables, DroppedNames, Database

LEMMA ChecksLast ==
    ASSUME NEW i \in 1 .. 27
    PROVE  AllMigrations[i].checks \cap Dropped = {} /\ AllMigrations[i].absent \subseteq Dropped
<1>1. Careful(AllMigrations[i])
  BY AllSound DEF Sound
<1> QED
  BY <1>1, NamedOnly DEF Careful

LEMMA StatementsLast ==
    ASSUME NEW i \in 1 .. 27, NEW k \in Statements(AllMigrations[i])
    PROVE  LET s == AllMigrations[i].steps
           IN  /\ Adds(s[k]) => s[k].objects \cap (Dropped \cup DatasetRows) = {}
               /\ LooksToRebuild(AllMigrations[i], k) => (s[k].objects \cup s[k + 1].objects) \cap Dropped = {}
               /\ Ensured(s[k]) \cap Dropped = {}
<1> DEFINE m == AllMigrations[i]
<1>1. Careful(m) /\ Rebuilds(m) /\ Len(m.steps) \in Nat
  BY AllSound DEF Sound, Possible
<1> HIDE DEF m
<1>2. \A j \in Statements(m) : Adds(m.steps[j]) => m.steps[j].objects \cap (Dropped \cup DatasetRows) = {}
  BY <1>1, NamedOnly DEF Careful
<1>3. \A j \in Statements(m) : LooksToRebuild(m, j) =>
          (m.steps[j].objects \cup m.steps[j + 1].objects) \cap Dropped = {}
  <2> SUFFICES ASSUME NEW j \in Statements(m), LooksToRebuild(m, j)
               PROVE  (m.steps[j].objects \cup m.steps[j + 1].objects) \cap Dropped = {}
    OBVIOUS
  <2>1. /\ j + 1 \in Statements(m) /\ m.steps[j + 1].op = "create_or_temp"
        /\ m.steps[j].objects \subseteq m.steps[j + 1].objects
    BY <1>1 DEF Rebuilds, Statements
  <2> QED
    BY <1>2, <2>1 DEF Adds
<1>4. Ensured(m.steps[k]) \cap Dropped = {}
  <2>1. k \in Statements(m)
    BY DEF m
  <2>2. CASE Lasting(m.steps[k])
    BY <1>2, <2>1, <2>2 DEF Ensured, Lasting, Adds
  <2>3. CASE m.steps[k].op = "exchange"
    <3>1. k > 2 /\ LooksToRebuild(m, k - 2) /\ k - 2 \in Statements(m)
      BY <1>1, <2>1, <2>3 DEF Rebuilds, Statements
    <3>2. m.steps[k - 2].objects = m.steps[k].from
      <4>1. (k - 2) + 2 = k
        BY <2>1 DEF Statements
      <4> QED
        BY <1>1, <3>1, <4>1 DEF Rebuilds
    <3>3. m.steps[k].from \cap Dropped = {}
      BY <1>3, <3>1, <3>2
    <3>4. m.steps[k].objects \cap Dropped = {}
      BY <1>2, <2>1, <2>3 DEF Adds
    <3> QED
      BY <2>3, <3>3, <3>4 DEF Ensured, Lasting
  <2>4. CASE ~Lasting(m.steps[k]) /\ m.steps[k].op # "exchange"
    BY <2>4 DEF Ensured
  <2> QED
    BY <2>2, <2>3, <2>4
<1> QED
  BY <1>2, <1>3, <1>4 DEF m

LEMMA StatementGrows ==
    ASSUME NEW i \in 1 .. 27, NEW k \in Statements(AllMigrations[i]), NEW g,
           schema' = SchemaAfter(g, AllMigrations[i].steps[k])
    PROVE  Grows
<1> DEFINE s == AllMigrations[i].steps[k]
<1>1. /\ s.op \in {"create", "write", "create_or_temp", "exchange", "drop", "look",
                   "require_empty", "drop_temp", "backfill"}
      /\ s.op = "drop" => s.objects \subseteq Dropped
  BY AllSound DEF Sound, Careful
<1>2. Adds(s) => s.objects \cap (Dropped \cup DatasetRows) = {}
  BY StatementsLast
<1> HIDE DEF s
<1>3. schema' = SchemaAfter(g, s)
  BY DEF s
<1>4. CASE Adds(s)
  <2>1. schema' \in {schema, schema \cup s.objects}
    BY <1>3, <1>4 DEF Adds, SchemaAfter
  <2> QED
    BY <1>2, <1>4, <2>1 DEF Grows
<1>5. CASE s.op = "drop"
  <2>1. schema' = schema \ s.objects
    BY <1>3, <1>5 DEF SchemaAfter
  <2> QED
    BY <1>1, <1>5, <2>1 DEF Grows
<1>6. CASE s.op \in {"look", "require_empty", "drop_temp", "backfill"}
  <2>1. schema' = schema
    BY <1>3, <1>6 DEF SchemaAfter
  <2> QED
    BY <2>1 DEF Grows
<1> QED
  BY <1>1, <1>4, <1>5, <1>6 DEF Adds

LEMMA StartGrows == schema' = schema \cup Database => Grows
  BY NamedOnly DEF Grows

\* What a gateway relies on is kept by the steps of the others.
LEMMA OthersKeep ==
    ASSUME NEW g \in Gateways, TypeOK, GatewayInv(g), Grows, found' = found, phase'[g] = phase[g],
           at'[g] = at[g], step'[g] = step[g], existed'[g] = existed[g],
           schema' = schema \/ Gateways # {g}
    PROVE  GatewayInv(g)'
<1>1. Place(g)' /\ Counting(g)'
  BY DEF GatewayInv, Place, Counting, Counts, Current
<1>6. Excused(g)'
  <2> SUFFICES ASSUME phase[g] = "failed"
               PROVE  Excused(g)'
    BY DEF Excused
  <2>1. PICK k : /\ at[g] \in 1 .. 27 /\ Counts(g, k)
                 /\ \E t \in LegacyDatasets :
                        /\ Current(g).steps[k].objects = {t} /\ t \in found
                        /\ Part(Name(t), "row") \in found \/ (t \notin schema /\ Gateways # {g})
    BY DEF GatewayInv, Excused
  <2>2. PICK t \in LegacyDatasets :
                 /\ Current(g).steps[k].objects = {t} /\ t \in found
                 /\ Part(Name(t), "row") \in found \/ (t \notin schema /\ Gateways # {g})
    BY <2>1
  <2>3. t \notin schema => t \notin schema'
    BY Datasets DEF Grows
  <2> QED
    BY <2>1, <2>2, <2>3 DEF Excused, Counts, Current
<1>2. Passed(g)'
  BY ChecksLast DEF GatewayInv, Passed, Grows
<1>3. ASSUME phase[g] = "apply"
      PROVE  at[g] \in 1 .. 27
  BY <1>3, Length DEF GatewayInv, Place, TypeOK
<1>4. Applied(g)'
  <2> SUFFICES ASSUME phase[g] = "apply", NEW k \in Statements(Current(g)), k < step[g]
               PROVE  /\ Ensured(Current(g).steps[k]) \subseteq schema'
                      /\ Current(g).steps[k].op = "drop" => Current(g).steps[k].objects \cap schema' = {}
    BY DEF Applied, Current
  <2>1. /\ Ensured(Current(g).steps[k]) \subseteq schema
        /\ Current(g).steps[k].op = "drop" => Current(g).steps[k].objects \cap schema = {}
    BY DEF GatewayInv, Applied
  <2>2. Ensured(Current(g).steps[k]) \cap Dropped = {}
    BY <1>3, StatementsLast DEF Current
  <2>3. Current(g).steps[k].op = "drop" => Current(g).steps[k].objects \subseteq Dropped
    BY <1>3, AllSound DEF Sound, Careful, Current
  <2> QED
    BY <2>1, <2>2, <2>3 DEF Grows
<1>5. Rebuilding(g)'
  <2> SUFFICES ASSUME phase[g] = "apply", NEW k \in Statements(Current(g)), LooksToRebuild(Current(g), k)
               PROVE  /\ step[g] = k + 1 /\ existed[g] => Current(g).steps[k].objects \subseteq schema'
                      /\ step[g] = k + 2 =>
                             /\ Current(g).steps[k].objects \subseteq schema'
                             /\ existed[g] \/ Current(g).steps[k + 1].objects \subseteq schema'
    BY DEF Rebuilding, Current
  <2>1. (Current(g).steps[k].objects \cup Current(g).steps[k + 1].objects) \cap Dropped = {}
    BY <1>3, StatementsLast DEF Current
  <2> QED
    BY <2>1 DEF GatewayInv, Rebuilding, Grows
<1> QED
  BY <1>1, <1>2, <1>4, <1>5, <1>6 DEF GatewayInv

-----------------------------------------------------------------------------
(***************************************************************************)
(* A gateway finds what it needs                                            *)
(***************************************************************************)
LEMMA KnownIsThere ==
    ASSUME NEW g \in Gateways, GatewayInv(g), at[g] \in 1 .. 27
    PROVE  Known(at[g]) \subseteq schema
  BY DEF GatewayInv, Passed, Known

\* can_apply never refuses.
LEMMA MigrationCanApply ==
    ASSUME NEW g \in Gateways, GatewayInv(g), at[g] \in 1 .. 27
    PROVE  CanApply(Current(g))
<1>1. Current(g).needs \subseteq Known(at[g])
  BY AllSound DEF Sound, Possible, Current
<1> QED
  BY <1>1, KnownIsThere DEF CanApply

\* Every statement that is run finds the tables and columns it names.
LEMMA StatementFinds ==
    ASSUME NEW g \in Gateways, GatewayInv(g), phase[g] = "apply", at[g] \in 1 .. 27,
           NEW k \in Statements(Current(g)), step[g] = k, ~Skipped(g, Current(g).steps[k]),
           Current(g).steps[k].op # "require_empty"
    PROVE  Current(g).steps[k].from \subseteq schema
<1> DEFINE m == Current(g)
<1>1. Possible(m, at[g]) /\ Rebuilds(m)
  BY AllSound DEF Sound, Current
<1> HIDE DEF m
<1>2. k \in Statements(m) /\ k \in Nat
  BY DEF m, Statements
<1>3. CASE m.steps[k].op # "exchange"
  <2> SUFFICES ASSUME NEW x \in m.steps[k].from
               PROVE  x \in schema
    BY DEF m
  <2>1. x \in Known(at[g]) \/ \E j \in 1 .. (k - 1) : x \in Ensured(m.steps[j])
    BY <1>1, <1>2, <1>3 DEF Possible, m
  <2>2. \A j \in 1 .. (k - 1) : Ensured(m.steps[j]) \subseteq schema
    BY <1>2 DEF GatewayInv, Applied, Statements, m
  <2> QED
    BY <2>1, <2>2, KnownIsThere
<1>4. CASE m.steps[k].op = "exchange"
  <2>1. k > 2 /\ LooksToRebuild(m, k - 2) /\ k - 2 \in Statements(m) /\ (k - 2) + 2 = k
    BY <1>1, <1>2, <1>4 DEF Rebuilds, Statements
  <2>2. m.steps[k - 2].objects = m.steps[k].from
    BY <1>1, <2>1 DEF Rebuilds
  <2>3. m.steps[k - 2].objects \subseteq schema
    BY <2>1 DEF GatewayInv, Rebuilding, m
  <2> QED
    BY <2>2, <2>3 DEF m
<1> QED
  BY <1>3, <1>4

\* has_succeeded never refuses.
LEMMA MigrationSucceeds ==
    ASSUME NEW g \in Gateways, GatewayInv(g), phase[g] = "apply", at[g] \in 1 .. 27,
           step[g] \in Nat, step[g] > Len(Current(g).steps)
    PROVE  ~ShouldApply(Current(g))
<1> DEFINE m == Current(g)
<1>1. Possible(m, at[g])
  BY AllSound DEF Sound, Current
<1>2. \A j \in Statements(m) :
          /\ Ensured(m.steps[j]) \subseteq schema
          /\ m.steps[j].op = "drop" => m.steps[j].objects \cap schema = {}
  <2>1. \A j \in Statements(m) : j < step[g]
    BY <1>1 DEF Possible, Statements
  <2> QED
    BY <2>1 DEF GatewayInv, Applied
<1> HIDE DEF m
<1>3. m.checks \subseteq schema
  BY <1>1, <1>2, KnownIsThere DEF Possible
<1>4. m.absent \cap schema = {}
  BY <1>1, <1>2 DEF Possible
<1> QED
  BY <1>3, <1>4 DEF ShouldApply, m

LEMMA GatewayAdvances ==
    ASSUME NEW g \in Gateways, TypeOK, GatewayInv(g), at[g] \in 1 .. 27, ~ShouldApply(Current(g)),
           Advance(g), schema' = schema, found' = found
    PROVE  GatewayInv(g)'
<1>1. /\ at'[g] = at[g] + 1 /\ step'[g] = 1
      /\ phase'[g] = IF at[g] = 27 THEN "migrated" ELSE "check"
  BY Length DEF Advance, TypeOK
<1>2. Place(g)' /\ Excused(g)' /\ Applied(g)' /\ Rebuilding(g)' /\ Counting(g)'
  BY <1>1 DEF Place, Excused, Applied, Rebuilding, Counting
<1>3. Passed(g)'
  <2> SUFFICES ASSUME NEW j \in 1 .. 27, j < at[g] + 1
               PROVE  AllMigrations[j].checks \subseteq schema /\ AllMigrations[j].absent \cap schema = {}
    BY <1>1 DEF Passed
  <2>1. CASE j < at[g]
    BY <2>1 DEF GatewayInv, Passed
  <2>2. CASE j = at[g]
    BY <2>2 DEF ShouldApply, Current
  <2> QED
    BY <2>1, <2>2
<1> QED
  BY <1>2, <1>3 DEF GatewayInv

\* A gateway that runs a statement, or skips it, can rely on what it made.
LEMMA StatementIsApplied ==
    ASSUME NEW g \in Gateways, TypeOK, GatewayInv(g), phase[g] = "apply", at[g] \in 1 .. 27,
           NEW k \in Statements(Current(g)), step[g] = k, schema \cap Dropped \subseteq found,
           found' = found, phase' = phase, at' = at, step' = [step EXCEPT ![g] = @ + 1],
           \/ /\ Skipped(g, Current(g).steps[k])
              /\ schema' = schema /\ existed' = existed
           \/ /\ schema' = SchemaAfter(g, Current(g).steps[k])
              /\ Current(g).steps[k].op = "exchange" => Current(g).steps[k].from \subseteq schema
              /\ existed' = [existed EXCEPT ![g] = IF Current(g).steps[k].op = "look"
                                                   THEN Current(g).steps[k].objects \subseteq schema ELSE @]
    PROVE  GatewayInv(g)'
<1> DEFINE m == Current(g)
<1>1. Possible(m, at[g]) /\ Careful(m) /\ Rebuilds(m)
  BY AllSound DEF Sound, Current
<1>2. step'[g] = k + 1 /\ m' = m /\ k \in Nat /\ k \in Statements(m)
  BY DEF TypeOK, Current, Statements
<1>3. Grows
  <2>1. CASE schema' = schema
    BY <2>1 DEF Grows
  <2>2. CASE schema' = SchemaAfter(g, Current(g).steps[k])
    BY <2>2, StatementGrows DEF Current
  <2> QED
    BY <2>1, <2>2
<1>4. Place(g)' /\ Excused(g)'
  BY DEF GatewayInv, Place, Excused
<1>9. Counting(g)'
  <2> SUFFICES ASSUME existed'[g], NEW j, Counts(g, j)'
               PROVE  /\ m.steps[j].objects \subseteq found
                      /\ m.steps[j].objects \subseteq schema' \/ Gateways # {g}
    BY <1>2 DEF Counting
  <2>1. j = k + 1 /\ j \in Statements(m) /\ m.steps[j].op = "require_empty" /\ j - 1 = k
    BY <1>2 DEF Counts, Statements
  <2>2. /\ m.steps[k].op = "look" /\ m.steps[k].objects = m.steps[j].objects
        /\ m.steps[j].objects \subseteq Dropped
    BY <1>1, <2>1, Datasets DEF Careful
  <2>3. ~Skipped(g, m.steps[k])
    BY <2>2 DEF Skipped
  <2>4. m.steps[k].objects \subseteq schema /\ schema' = schema
    BY <2>2, <2>3 DEF TypeOK, SchemaAfter
  <2> QED
    BY <2>2, <2>4
<1>5. Passed(g)'
  BY <1>3, ChecksLast DEF GatewayInv, Passed, Grows
<1>6. /\ Ensured(m.steps[k]) \subseteq schema'
      /\ m.steps[k].op = "drop" => m.steps[k].objects \cap schema' = {}
  <2>1. CASE Skipped(g, m.steps[k]) /\ schema' = schema
    <3>1. Ensured(m.steps[k]) \subseteq schema
      <4>1. CASE m.steps[k].op = "exchange"
        <5>1. k > 2 /\ LooksToRebuild(m, k - 2) /\ k - 2 \in Statements(m)
              /\ (k - 2) + 2 = k /\ (k - 2) + 1 = k - 1
          BY <1>1, <1>2, <4>1 DEF Rebuilds, Statements
        <5>2. ~existed[g]
          BY <2>1, <4>1 DEF Skipped
        <5>3. m.steps[k - 1].objects \subseteq schema
          BY <5>1, <5>2 DEF GatewayInv, Rebuilding
        <5>4. m.steps[k - 1].objects = m.steps[k].from \cup m.steps[k].objects
          BY <1>1, <5>1 DEF Rebuilds
        <5> QED
          BY <4>1, <5>3, <5>4 DEF Ensured, Lasting
      <4>2. CASE m.steps[k].op # "exchange"
        BY <2>1, <4>2 DEF Ensured, Lasting, Skipped
      <4> QED
        BY <4>1, <4>2
    <3> QED
      BY <2>1, <3>1 DEF Skipped
  <2>2. CASE /\ schema' = SchemaAfter(g, m.steps[k])
             /\ m.steps[k].op = "exchange" => m.steps[k].from \subseteq schema
    <3> DEFINE s == m.steps[k]
    <3>1. s.op \in {"create", "write", "create_or_temp", "exchange", "drop", "look",
                    "require_empty", "drop_temp", "backfill"}
      BY <1>1, <1>2 DEF Careful
    <3> HIDE DEF s
    <3>2. schema' = SchemaAfter(g, s) /\ (s.op = "exchange" => s.from \subseteq schema)
      BY <2>2 DEF s
    <3>3. Ensured(s) \subseteq schema' /\ (s.op = "drop" => s.objects \cap schema' = {})
      <4>1. CASE s.op \in {"create", "write", "exchange"}
        BY <3>2, <4>1 DEF SchemaAfter, Ensured, Lasting
      <4>2. CASE s.op = "drop"
        BY <3>2, <4>2 DEF SchemaAfter, Ensured, Lasting
      <4>3. CASE s.op \notin {"create", "write", "exchange", "drop"}
        BY <4>3 DEF Ensured, Lasting
      <4> QED
        BY <4>1, <4>2, <4>3
    <3> QED
      BY <3>3 DEF s
  <2> QED
    BY <2>1, <2>2
<1>7. Applied(g)'
  <2> SUFFICES ASSUME NEW j \in Statements(m), j < k + 1
               PROVE  /\ Ensured(m.steps[j]) \subseteq schema'
                      /\ m.steps[j].op = "drop" => m.steps[j].objects \cap schema' = {}
    BY <1>2 DEF Applied
  <2>1. CASE j < k
    <3>1. /\ Ensured(m.steps[j]) \subseteq schema
          /\ m.steps[j].op = "drop" => m.steps[j].objects \cap schema = {}
      BY <2>1 DEF GatewayInv, Applied
    <3>2. Ensured(m.steps[j]) \cap Dropped = {}
      BY StatementsLast DEF Current
    <3>3. m.steps[j].op = "drop" => m.steps[j].objects \subseteq Dropped
      BY <1>1 DEF Careful
    <3> QED
      BY <1>3, <3>1, <3>2, <3>3 DEF Grows
  <2>2. CASE j = k
    BY <1>6, <2>2
  <2> QED
    BY <1>2, <2>1, <2>2 DEF Statements
<1>8. Rebuilding(g)'
  <2> SUFFICES ASSUME NEW j \in Statements(m), LooksToRebuild(m, j)
               PROVE  /\ k + 1 = j + 1 /\ existed'[g] => m.steps[j].objects \subseteq schema'
                      /\ k + 1 = j + 2 =>
                             /\ m.steps[j].objects \subseteq schema'
                             /\ existed'[g] \/ m.steps[j + 1].objects \subseteq schema'
    BY <1>2 DEF Rebuilding
  <2>1. /\ (m.steps[j].objects \cup m.steps[j + 1].objects) \cap Dropped = {}
        /\ m.steps[j + 1].op = "create_or_temp"
        /\ m.steps[j].objects \subseteq m.steps[j + 1].objects
    BY <1>1, StatementsLast DEF Rebuilds, Current
  <2>2. CASE k = j
    <3>1. ~Skipped(g, m.steps[k])
      BY <2>2 DEF Skipped, LooksToRebuild
    <3>2. existed'[g] = (m.steps[k].objects \subseteq schema)
      BY <2>2, <3>1 DEF TypeOK, LooksToRebuild
    <3>3. m.steps[k].objects \subseteq schema => m.steps[j].objects \subseteq schema'
      BY <1>3, <2>1, <2>2 DEF Grows
    <3>4. k + 1 # j + 2
      BY <1>2, <2>2
    <3> QED
      BY <3>2, <3>3, <3>4
  <2>3. CASE k = j + 1
    <3>1. ~Skipped(g, m.steps[k])
      BY <2>1, <2>3 DEF Skipped
    <3>2. existed'[g] = existed[g]
      BY <2>1, <2>3, <3>1 DEF TypeOK
    <3>3. existed[g] => m.steps[j].objects \subseteq schema
      BY <2>3 DEF GatewayInv, Rebuilding
    <3>4. ~existed[g] => schema' = schema \cup m.steps[k].objects
      BY <2>1, <2>3, <3>1 DEF SchemaAfter
    <3> QED
      BY <1>2, <1>3, <2>1, <2>3, <3>2, <3>3, <3>4 DEF Grows, Statements
  <2> QED
    BY <1>2, <2>2, <2>3 DEF Statements
<1> QED
  BY <1>4, <1>5, <1>7, <1>8, <1>9 DEF GatewayInv

-----------------------------------------------------------------------------
(***************************************************************************)
(* The invariant of the schema                                              *)
(***************************************************************************)
\* A step of one gateway: what it has to keep for itself and for the others.
LEMMA OneGateway ==
    ASSUME SchemaInv, TypeOK', NEW g \in Gateways, Grows, found' = found, GatewayInv(g)',
           \A h \in Gateways : h # g => /\ phase'[h] = phase[h] /\ at'[h] = at[h]
                                        /\ step'[h] = step[h] /\ existed'[h] = existed[h]
    PROVE  SchemaInv'
<1>1. (schema \cap (Dropped \cup DatasetRows) \subseteq found)'
  BY DEF SchemaInv, Grows
<1>2. ASSUME NEW h \in Gateways, h # g
      PROVE  GatewayInv(h)'
  BY <1>2, OthersKeep DEF SchemaInv
<1> QED
  BY <1>1, <1>2 DEF SchemaInv

LEMMA InitSchema == Init => SchemaInv
<1> SUFFICES ASSUME Init
             PROVE  SchemaInv
  OBVIOUS
<1>1. TypeOK
  BY Length, MigrationAssumption DEF Init, TypeOK, Phases
<1>2. ASSUME NEW g \in Gateways
      PROVE  GatewayInv(g)
  BY DEF Init, GatewayInv, Place, Passed, Applied, Rebuilding, Counting, Excused
<1> QED
  BY <1>1, <1>2 DEF SchemaInv, Init

LEMMA StartKeepsSchema ==
    ASSUME SchemaInv, NEW g \in Gateways, Start(g)
    PROVE  SchemaInv' /\ Grows
<1>1. \E p \in {"exited", "unobserved", "check"} : phase' = [phase EXCEPT ![g] = p]
  <2>1. ASSUME NEW settings \in Settings, NEW healthy \in BOOLEAN
        PROVE  Connected(settings, healthy) \in {"error", "disabled", "production"}
    BY DEF Connected, SetupClickHouse
  <2> QED
    BY <2>1 DEF Start
<1>2. Grows
  <2>1. schema' = schema \/ schema' = schema \cup Database
    BY DEF Start, CreateDatabase
  <2>2. schema' = schema => Grows
    BY DEF Grows
  <2> QED
    BY <2>1, <2>2, StartGrows
<1>3. PICK p \in {"exited", "unobserved", "check"} : phase' = [phase EXCEPT ![g] = p]
  BY <1>1
<1>4. phase'[g] = p /\ at' = at /\ step' = step /\ existed' = existed /\ found' = found
  BY <1>3 DEF Start, SchemaInv, TypeOK
<1>5. TypeOK'
  BY <1>3, <1>4 DEF Start, SchemaInv, TypeOK, Phases, dataVars
<1>6. GatewayInv(g)'
  <2>1. GatewayInv(g) /\ phase[g] = "stopped"
    BY DEF SchemaInv, Start
  <2>2. at[g] = 1 /\ step[g] = 1
    BY <2>1 DEF GatewayInv, Place
  <2> QED
    BY <1>4, <2>2 DEF GatewayInv, Place, Passed, Applied, Rebuilding, Counting, Excused
<1>7. \A h \in Gateways : h # g => phase'[h] = phase[h]
  BY <1>3 DEF SchemaInv, TypeOK
<1> QED
  BY <1>2, <1>4, <1>5, <1>6, <1>7, OneGateway

LEMMA CheckKeepsSchema ==
    ASSUME SchemaInv, NEW g \in Gateways, Check(g)
    PROVE  SchemaInv' /\ Grows
<1>1. /\ TypeOK /\ GatewayInv(g) /\ phase[g] = "check" /\ at[g] \in 1 .. 27
      /\ schema' = schema /\ found' = found /\ existed' = existed
  BY Length DEF SchemaInv, Check, GatewayInv, Place, TypeOK
<1>2. Grows
  BY <1>1 DEF Grows
<1>3. CanApply(Current(g))
  BY <1>1, MigrationCanApply
<1>4. CASE ~ShouldApply(Current(g))
  <2>1. Advance(g) /\ clean' = clean
    BY <1>3, <1>4 DEF Check
  <2>2. GatewayInv(g)'
    BY <1>1, <1>4, <2>1, GatewayAdvances
  <2>3. TypeOK'
    BY <1>1, <2>1, Length DEF Check, TypeOK, Advance, Phases, dataVars
  <2> QED
    BY <1>1, <1>2, <2>1, <2>2, <2>3, OneGateway DEF Advance, TypeOK
<1>5. CASE ShouldApply(Current(g))
  <2>1. /\ phase' = [phase EXCEPT ![g] = "apply"] /\ at' = at /\ step' = step
        /\ clean' = [clean EXCEPT ![g] = @ \/ at[g] = 1]
    BY <1>3, <1>5 DEF Check
  <2>2. TypeOK'
    BY <1>1, <2>1, Length DEF Check, TypeOK, Phases, dataVars
  <2>3. phase'[g] = "apply" /\ step'[g] = 1 /\ at'[g] = at[g]
    BY <1>1, <2>1 DEF TypeOK, GatewayInv, Place
  <2>4. GatewayInv(g)'
    <3>1. Place(g)' /\ Excused(g)'
      BY <1>1, <2>3 DEF Place, Excused
    <3>2. Passed(g)'
      BY <1>1, <2>3 DEF GatewayInv, Passed
    <3>3. Applied(g)' /\ Rebuilding(g)'
      BY <2>3 DEF Applied, Rebuilding, Statements
    <3>4. Counting(g)'
      <4>1. Careful(Current(g)) /\ Current(g)' = Current(g)
        BY <1>1, <2>3, AllSound DEF Sound, Current
      <4> QED
        BY <2>3, <4>1 DEF Counting, Counts, Careful, Statements
    <3> QED
      BY <3>1, <3>2, <3>3, <3>4 DEF GatewayInv
  <2> QED
    BY <1>1, <1>2, <2>1, <2>2, <2>4, OneGateway DEF TypeOK
<1> QED
  BY <1>4, <1>5

LEMMA RecordKeepsSchema ==
    ASSUME SchemaInv, NEW g \in Gateways, Record(g)
    PROVE  SchemaInv' /\ Grows
<1>1. /\ TypeOK /\ GatewayInv(g) /\ phase[g] = "apply" /\ at[g] \in 1 .. 27
      /\ step[g] \in Nat /\ step[g] > Len(Current(g).steps)
      /\ schema' = schema /\ found' = found /\ existed' = existed /\ clean' = clean
  BY Length DEF SchemaInv, Record, GatewayInv, Place, TypeOK
<1>2. Grows
  BY <1>1 DEF Grows
<1>3. ~ShouldApply(Current(g))
  BY <1>1, MigrationSucceeds
<1>4. Advance(g) /\ records' = records \cup {at[g]}
  BY <1>3 DEF Record
<1>5. GatewayInv(g)'
  BY <1>1, <1>3, <1>4, GatewayAdvances
<1>6. TypeOK'
  <2>1. phase' \in [Gateways -> Phases] /\ at' \in [Gateways -> 1 .. 28] /\ step' \in [Gateways -> Nat \ {0}]
    <3>1. at' \in [Gateways -> 1 .. 28]
      <4>1. at[g] \in 1 .. 27 /\ at \in [Gateways -> 1 .. 28] /\ at' = [at EXCEPT ![g] = at[g] + 1]
        BY <1>1, <1>4, Length DEF TypeOK, Advance
      <4> QED
        BY <4>1
    <3>2. step' \in [Gateways -> Nat \ {0}]
      BY <1>1, <1>4 DEF TypeOK, Advance
    <3>3. phase' \in [Gateways -> Phases]
      BY <1>1, <1>4 DEF TypeOK, Advance, Phases
    <3> QED
      BY <3>1, <3>2, <3>3
  <2>2. records' \subseteq 1 .. 27
    BY <1>1, <1>4, Length DEF TypeOK
  <2>3. rows' = rows /\ missing' = missing /\ crashes' = crashes
    BY DEF Record, dataVars
  <2> QED
    BY <1>1, <2>1, <2>2, <2>3, Length DEF TypeOK
<1> QED
  BY <1>1, <1>2, <1>4, <1>5, <1>6, OneGateway DEF Advance, TypeOK

\* The statement a gateway runs is one of its migration.
LEMMA Applying ==
    ASSUME SchemaInv, NEW g \in Gateways, phase[g] = "apply", step[g] <= Len(Current(g).steps)
    PROVE  /\ TypeOK /\ GatewayInv(g) /\ at[g] \in 1 .. 27 /\ step[g] \in Nat
           /\ step[g] \in Statements(Current(g))
<1>1. TypeOK /\ GatewayInv(g) /\ at[g] \in 1 .. 27 /\ step[g] \in Nat \ {0}
  BY Length DEF SchemaInv, GatewayInv, Place, TypeOK
<1>2. Len(Current(g).steps) \in Nat
  BY <1>1, AllSound DEF Sound, Possible, Current
<1> QED
  BY <1>1, <1>2 DEF Statements

LEMMA ApplyKeepsSchema ==
    ASSUME SchemaInv, NEW g \in Gateways, Apply(g)
    PROVE  SchemaInv' /\ Grows
<1> DEFINE k == step[g]
           s == Current(g).steps[k]
<1>1. /\ phase[g] = "apply" /\ step[g] <= Len(Current(g).steps)
      /\ found' = found /\ rows' = rows /\ records' = records /\ clean' = clean /\ crashes' = crashes
  BY DEF Apply
<1>2. /\ TypeOK /\ GatewayInv(g) /\ at[g] \in 1 .. 27 /\ k \in Nat /\ k \in Statements(Current(g))
      /\ schema \cap Dropped \subseteq found
  BY <1>1, Applying DEF SchemaInv
<1>3. missing' \subseteq Copies /\ existed' \in [Gateways -> BOOLEAN]
  BY <1>2 DEF Apply, Execute, Copy, MissingAfter, TypeOK
<1>4. ASSUME phase' = phase, at' = at, step' = [step EXCEPT ![g] = @ + 1],
             Grows, GatewayInv(g)', \A h \in Gateways : h # g => existed'[h] = existed[h]
      PROVE  SchemaInv' /\ Grows
  <2>1. TypeOK'
    BY <1>1, <1>2, <1>3, <1>4, Length DEF TypeOK
  <2> QED
    BY <1>1, <1>2, <1>4, <2>1, OneGateway DEF TypeOK
<1>5. CASE /\ Skipped(g, s)
           /\ step' = [step EXCEPT ![g] = @ + 1]
           /\ UNCHANGED <<schema, missing, phase, at, existed>>
  <2>1. Grows
    BY <1>5 DEF Grows
  <2>2. GatewayInv(g)'
    BY <1>1, <1>2, <1>5, StatementIsApplied
  <2> QED
    BY <1>4, <1>5, <2>1, <2>2
<1>6. CASE ~Skipped(g, s) /\ Runs(s) /\ Execute(g, s)
  <2>1. /\ schema' = SchemaAfter(g, s) /\ phase' = phase /\ at' = at
        /\ step' = [step EXCEPT ![g] = @ + 1]
        /\ existed' = [existed EXCEPT ![g] = IF s.op = "look" THEN s.objects \subseteq schema ELSE @]
        /\ s.from \subseteq schema
    BY <1>6 DEF Execute, Runs
  <2>2. Grows
    BY <1>2, <2>1, StatementGrows DEF Current
  <2>3. GatewayInv(g)'
    BY <1>1, <1>2, <2>1, StatementIsApplied
  <2>4. \A h \in Gateways : h # g => existed'[h] = existed[h]
    BY <1>2, <2>1 DEF TypeOK
  <2> QED
    BY <1>4, <2>1, <2>2, <2>3, <2>4
<1>7. CASE ~Skipped(g, s) /\ Runs(s) /\ Copy(s)
  <2>1. UNCHANGED <<schema, phase, at, step, existed>>
    BY <1>7 DEF Copy
  <2>2. Grows
    BY <2>1 DEF Grows
  <2>3. GatewayInv(g)'
    BY <1>1, <1>2, <2>1, <2>2, OthersKeep
  <2>4. TypeOK'
    BY <1>1, <1>2, <1>3, <2>1 DEF TypeOK
  <2> QED
    BY <1>1, <2>1, <2>2, <2>3, <2>4, OneGateway
<1>8. CASE ~Skipped(g, s) /\ ~Runs(s) /\ Fail(g) /\ UNCHANGED <<schema, missing, existed>>
  <2>1. /\ schema' = schema /\ existed' = existed /\ at' = at /\ step' = step
        /\ phase' = [phase EXCEPT ![g] = "failed"]
    BY <1>8 DEF Fail
  <2>2. Grows
    BY <2>1 DEF Grows
  <2>3. s.op = "require_empty" /\ existed[g]
    <3>1. s.op # "require_empty" => s.from \subseteq schema
      BY <1>1, <1>2, <1>8, StatementFinds
    <3> QED
      BY <1>8, <3>1 DEF Runs, Skipped
  <2>4. PICK t \in LegacyDatasets : s.objects = {t} /\ s.from = {t}
    <3>1. Careful(Current(g))
      BY <1>2, AllSound DEF Sound, Current
    <3> QED
      BY <1>2, <2>3, <3>1 DEF Careful
  <2>5. t \notin schema \/ Part(Name(t), "row") \in schema
    BY <1>8, <2>4, Datasets DEF Runs
  <2>6. t \in found /\ (Part(Name(t), "row") \in found \/ (t \notin schema /\ Gateways # {g}))
    <3>1. Counts(g, k)
      BY <1>2, <2>3 DEF Counts
    <3>2. t \in found /\ (t \in schema \/ Gateways # {g})
      BY <1>1, <1>2, <2>3, <2>4, <3>1 DEF GatewayInv, Counting
    <3> QED
      BY <2>5, <3>2, Datasets DEF SchemaInv
  <2>7. phase'[g] = "failed" /\ Current(g)' = Current(g) /\ Counts(g, k)'
    BY <1>2, <2>1, <2>3 DEF TypeOK, Counts, Current
  <2>8. GatewayInv(g)'
    <3>1. Passed(g)'
      BY <1>2, <2>1 DEF GatewayInv, Passed
    <3>2. Excused(g)'
      BY <1>1, <1>2, <2>1, <2>4, <2>6, <2>7 DEF Excused
    <3> QED
      BY <1>1, <2>7, <3>1, <3>2 DEF GatewayInv, Place, Applied, Rebuilding, Counting, Excused
  <2>9. TypeOK'
    BY <1>1, <1>2, <1>3, <2>1 DEF TypeOK, Phases
  <2>10. \A h \in Gateways : h # g => phase'[h] = phase[h]
    BY <1>2, <2>1 DEF TypeOK
  <2> QED
    BY <1>1, <2>1, <2>2, <2>8, <2>9, <2>10, OneGateway
<1> QED
  BY <1>5, <1>6, <1>7, <1>8 DEF Apply

LEMMA CrashKeepsSchema ==
    ASSUME SchemaInv, NEW g \in Gateways, Crash(g)
    PROVE  SchemaInv' /\ Grows
<1>1. /\ found' = found /\ schema' = schema /\ TypeOK
      /\ rows' = rows /\ missing' = missing /\ records' = records
  BY DEF Crash, SchemaInv, dataVars
<1>2. Grows
  BY <1>1 DEF Grows
<1>3. phase'[g] = "stopped" /\ at'[g] = 1 /\ step'[g] = 1
  BY <1>1 DEF Crash, TypeOK
<1>4. TypeOK'
  <2>1. crashes' \in 0 .. MaxCrashes
    BY <1>1, MigrationAssumption DEF Crash, TypeOK
  <2>2. phase' \in [Gateways -> Phases] /\ at' \in [Gateways -> 1 .. 28] /\ step' \in [Gateways -> Nat \ {0}]
    BY <1>1, Length DEF Crash, TypeOK, Phases
  <2>3. clean' \in [Gateways -> BOOLEAN] /\ existed' \in [Gateways -> BOOLEAN]
    BY <1>1 DEF Crash, TypeOK
  <2> QED
    BY <1>1, <2>1, <2>2, <2>3, Length DEF TypeOK
<1>5. GatewayInv(g)'
  BY <1>3 DEF GatewayInv, Place, Passed, Applied, Rebuilding, Counting, Excused
<1>6. \A h \in Gateways : h # g => /\ phase'[h] = phase[h] /\ at'[h] = at[h]
                                   /\ step'[h] = step[h] /\ existed'[h] = existed[h]
  BY <1>1 DEF Crash, TypeOK
<1> QED
  BY <1>1, <1>2, <1>4, <1>5, <1>6, OneGateway

\* A gateway that has migrated leaves the schema alone.
LEMMA ServingKeepsSchema ==
    ASSUME SchemaInv, NEW g \in Gateways, Listen(g) \/ Serve(g) \/ Shutdown(g)
    PROVE  SchemaInv' /\ Grows
<1>1. /\ found' = found /\ schema' = schema /\ TypeOK /\ GatewayInv(g) /\ at' = at /\ step' = step
      /\ clean' = clean /\ existed' = existed /\ missing' = missing /\ records' = records
      /\ crashes' = crashes /\ rows' \in BOOLEAN
  BY DEF Listen, Serve, Shutdown, SchemaInv, TypeOK, dataVars, gatewayVars
<1>2. Grows
  BY <1>1 DEF Grows
<1>3. CASE Serve(g)
  <2>1. phase' = phase
    BY <1>3 DEF Serve, gatewayVars
  <2>2. TypeOK'
    BY <1>1, <2>1 DEF TypeOK
  <2> QED
    BY <1>1, <1>2, <2>1, <2>2, OthersKeep, OneGateway
<1>4. CASE Listen(g) \/ Shutdown(g)
  <2>1. PICK p \in {"serving", "exited"} : phase' = [phase EXCEPT ![g] = p]
    BY <1>4 DEF Listen, Shutdown
  <2>2. phase'[g] = p /\ (p = "serving" => phase[g] = "migrated")
    BY <1>1, <1>4, <2>1 DEF Listen, Shutdown, TypeOK
  <2>3. TypeOK'
    BY <1>1, <2>1 DEF TypeOK, Phases
  <2>4. GatewayInv(g)'
    <3>1. Passed(g)'
      BY <1>1 DEF GatewayInv, Passed
    <3> QED
      BY <1>1, <2>1, <2>2, <3>1 DEF GatewayInv, Place, Applied, Rebuilding, Counting, Excused
  <2>5. \A h \in Gateways : h # g => phase'[h] = phase[h]
    BY <1>1, <2>1 DEF TypeOK
  <2> QED
    BY <1>1, <1>2, <2>3, <2>4, <2>5, OneGateway
<1> QED
  BY <1>3, <1>4

\* Each step keeps the invariant, and keeps what it does not drop in the schema.
LEMMA NextKeepsSchema ==
    ASSUME SchemaInv, [Next]_vars
    PROVE  SchemaInv' /\ Grows
<1>1. CASE UNCHANGED vars
  <2>1. Grows
    BY <1>1 DEF Grows, vars
  <2>2. TypeOK'
    BY <1>1 DEF SchemaInv, TypeOK, vars, dataVars, gatewayVars
  <2>3. ASSUME NEW h \in Gateways
        PROVE  GatewayInv(h)'
    BY <1>1, <2>1, OthersKeep DEF SchemaInv, vars, gatewayVars
  <2> QED
    BY <1>1, <2>1, <2>2, <2>3 DEF SchemaInv, vars
<1>2. ASSUME NEW g \in Gateways, Start(g) \/ Check(g) \/ Apply(g) \/ Record(g) \/ Listen(g)
                                   \/ Serve(g) \/ Shutdown(g) \/ Crash(g)
      PROVE  SchemaInv' /\ Grows
  BY <1>2, StartKeepsSchema, CheckKeepsSchema, ApplyKeepsSchema, RecordKeepsSchema,
     CrashKeepsSchema, ServingKeepsSchema
<1> QED
  BY <1>1, <1>2 DEF Next, Served

\* The inductive invariant: at every moment a gateway finds in the schema what the migrations
\* behind it looked for and what the statements behind it made, whatever the other gateways
\* do and wherever one stopped (migration_manager/mod.rs, run and run_migration).
THEOREM SchemaInvariance == Spec => []SchemaInv
<1>1. SchemaInv /\ [Next]_vars => SchemaInv'
  BY NextKeepsSchema
<1> QED
  BY <1>1, InitSchema, PTL DEF Spec

\* Every variable keeps its type; the number of crashes keeps its bound.
THEOREM TypeCorrect == Spec => []TypeOK
<1>1. SchemaInv => TypeOK
  BY DEF SchemaInv
<1> QED
  BY <1>1, SchemaInvariance, PTL

\* A gateway that drops a table is not the one that fails for it: it has counted already, and
\* when it is started again it does not find the table.
LEMMA NextKeepsSurvivor ==
    ASSUME SchemaInv, SchemaInv', Grows, Survivor, [Next]_vars
    PROVE  Survivor'
<1> SUFFICES ASSUME found \cap DatasetRows = {}, Gateways # {}
             PROVE  \E g \in Gateways : phase'[g] # "failed" /\ ~Doomed(g)'
  <2>1. found' = found
    BY DEF Next, Start, Check, Apply, Record, Listen, Serve, Shutdown, Crash, Served, vars
  <2> QED
    BY <2>1 DEF Survivor
<1>1. PICK w \in Gateways : phase[w] # "failed" /\ ~Doomed(w)
  BY DEF Survivor
\* A gateway whose place does not change is doomed only by a table that goes.
<1>2. ASSUME phase'[w] = phase[w], at'[w] = at[w], step'[w] = step[w], existed'[w] = existed[w],
             schema \cap Dropped \subseteq schema'
      PROVE  phase'[w] # "failed" /\ ~Doomed(w)'
  <2> SUFFICES ASSUME Doomed(w)'
               PROVE  FALSE
    BY <1>1, <1>2
  <2>1. PICK k : Counts(w, k)' /\ ~(Current(w).steps[k].objects \subseteq schema)'
    BY DEF Doomed
  <2>2. Current(w)' = Current(w) /\ Counts(w, k) /\ phase[w] = "apply" /\ existed[w]
    BY <1>2, <2>1 DEF Current, Counts, Doomed
  <2>3. at[w] \in 1 .. 27
    BY <2>2, Length DEF SchemaInv, GatewayInv, Place, TypeOK
  <2>4. Current(w).steps[k].objects \subseteq Dropped
    <3>1. Careful(Current(w))
      BY <2>3, AllSound DEF Sound, Current
    <3>2. PICK t \in LegacyDatasets : Current(w).steps[k].objects = {t}
      BY <2>2, <3>1 DEF Counts, Careful
    <3> QED
      BY <3>2, Datasets
  <2> QED
    BY <1>1, <1>2, <2>1, <2>2, <2>4 DEF Doomed
<1>3. CASE UNCHANGED vars
  BY <1>2, <1>3 DEF vars, gatewayVars
<1>4. ASSUME NEW g \in Gateways, Start(g) \/ Check(g) \/ Record(g) \/ Listen(g)
                                   \/ Serve(g) \/ Shutdown(g) \/ Crash(g)
      PROVE  phase'[w] # "failed" /\ ~Doomed(w)'
  <2>1. schema \subseteq schema' /\ TypeOK /\ (phase[w] = "check" => step[w] = 1)
    BY <1>4 DEF Start, Check, Record, Listen, Serve, Shutdown, Crash, CreateDatabase, SchemaInv,
                GatewayInv, Place
  <2>2. CASE w # g
    <3>1. phase'[w] = phase[w] /\ at'[w] = at[w] /\ step'[w] = step[w] /\ existed'[w] = existed[w]
      BY <1>4, <2>1, <2>2 DEF Start, Check, Record, Listen, Serve, Shutdown, Crash, Advance, Fail,
                              gatewayVars, TypeOK
    <3> QED
      BY <1>2, <2>1, <3>1
  <2>3. CASE w = g /\ phase'[g] # "apply"
    <3>1. CASE Check(g)
      <4>1. at[g] \in 1 .. 27 /\ GatewayInv(g) /\ CanApply(Current(g))
        BY <3>1, Length, MigrationCanApply DEF SchemaInv, Check, GatewayInv, Place, TypeOK
      <4> QED
        BY <2>1, <2>3, <3>1, <4>1 DEF Check, Advance, Doomed, TypeOK
    <3>2. CASE Record(g)
      <4>1. ~ShouldApply(Current(g))
        BY <3>2, Length, MigrationSucceeds DEF SchemaInv, Record, GatewayInv, Place, TypeOK
      <4> QED
        BY <2>1, <2>3, <3>2, <4>1 DEF Record, Advance, Doomed, TypeOK
    <3>3. CASE Start(g) \/ Listen(g) \/ Serve(g) \/ Shutdown(g) \/ Crash(g)
      <4>1. Start(g) => phase'[g] # "failed"
        <5>1. ASSUME NEW settings \in Settings, NEW healthy \in BOOLEAN
              PROVE  Connected(settings, healthy) \in {"error", "disabled", "production"}
          BY DEF Connected, SetupClickHouse
        <5> QED
          BY <2>1, <5>1 DEF Start, TypeOK
      <4> QED
        BY <1>1, <2>1, <2>3, <3>3, <4>1 DEF Listen, Serve, Shutdown, Crash, Doomed, TypeOK, gatewayVars
    <3> QED
      BY <1>4, <3>1, <3>2, <3>3
  <2>4. CASE w = g /\ phase'[g] = "apply"
    <3>1. Check(g)
      <4>1. Start(g) => phase'[g] # "apply"
        <5>1. ASSUME NEW settings \in Settings, NEW healthy \in BOOLEAN
              PROVE  Connected(settings, healthy) \in {"error", "disabled", "production"}
          BY DEF Connected, SetupClickHouse
        <5> QED
          BY <2>1, <5>1 DEF Start, TypeOK
      <4> QED
        BY <1>4, <2>1, <2>4, <4>1 DEF Record, Listen, Serve, Shutdown, Crash, Advance, Fail, TypeOK,
                                 gatewayVars
    <3>2. step'[g] = 1 /\ Current(g)' = Current(g) /\ at[g] \in 1 .. 27
      BY <2>1, <2>4, <3>1, Length DEF Check, Advance, Fail, TypeOK, Current, SchemaInv, GatewayInv, Place
    <3>3. Careful(Current(g))
      BY <3>2, AllSound DEF Sound, Current
    <3> QED
      BY <2>4, <3>2, <3>3 DEF Doomed, Counts, Careful
  <2> QED
    BY <2>2, <2>3, <2>4
<1>5. ASSUME NEW g \in Gateways, Apply(g)
      PROVE  \E x \in Gateways : phase'[x] # "failed" /\ ~Doomed(x)'
  <2> DEFINE k == step[g]
             m == Current(g)
             s == m.steps[k]
  <2>1. phase[g] = "apply" /\ step[g] <= Len(Current(g).steps)
    BY <1>5 DEF Apply
  <2>2. TypeOK /\ GatewayInv(g) /\ at[g] \in 1 .. 27 /\ k \in Nat /\ k \in Statements(m)
    BY <2>1, Applying
  <2>3. Careful(m)
    BY <2>2, AllSound DEF Sound, Current
  <2>4. at' = at /\ Current(g)' = m
    BY <1>5 DEF Apply, Execute, Copy, Fail, Current
  \* After a statement that is not a look, the gateway counts nothing.
  <2>5. ASSUME phase' = phase, step' = [step EXCEPT ![g] = @ + 1], s.op # "look"
        PROVE  phase'[g] # "failed" /\ ~Doomed(g)'
    <3>1. step'[g] = k + 1
      BY <2>2, <2>5 DEF TypeOK
    <3>2. ASSUME NEW j, Counts(g, j)' PROVE FALSE
      <4>1. j = k + 1 /\ j \in Statements(m) /\ m.steps[j].op = "require_empty" /\ j - 1 = k
        BY <2>2, <2>4, <3>1, <3>2 DEF Counts, Statements
      <4> QED
        BY <2>3, <2>5, <4>1 DEF Careful
    <3> QED
      BY <2>1, <2>5, <3>2 DEF Doomed
  <2>6. ASSUME s.op = "look", Execute(g, s)
        PROVE  ~Doomed(g)'
    <3>1. step'[g] = k + 1 /\ existed'[g] = (s.objects \subseteq schema) /\ schema' = schema
      BY <2>2, <2>6 DEF TypeOK, Execute, SchemaAfter
    <3>2. ASSUME NEW j, Counts(g, j)'
          PROVE  m.steps[j].objects = s.objects
      <4>1. j = k + 1 /\ j \in Statements(m) /\ m.steps[j].op = "require_empty" /\ j - 1 = k
        BY <2>2, <2>4, <3>1, <3>2 DEF Counts, Statements
      <4> QED
        BY <2>3, <4>1 DEF Careful
    <3> QED
      BY <2>4, <3>1, <3>2 DEF Doomed
  <2>7. CASE s.op = "drop"
    <3>1. ~Skipped(g, s) /\ ~Copy(s)
      BY <2>7 DEF Skipped, Copy
    <3>2. s.from \subseteq schema
      BY <2>1, <2>2, <2>7, <3>1, StatementFinds
    <3>3. Execute(g, s)
      BY <1>5, <2>7, <3>1, <3>2 DEF Apply, Runs
    <3> QED
      BY <2>5, <2>7, <3>3 DEF Execute
  <2>8. CASE s.op # "drop" /\ w # g
    <3>1. schema \subseteq schema'
      BY <1>5, <2>2, <2>3, <2>8 DEF Apply, Execute, Copy, SchemaAfter, Careful
    <3>2. phase'[w] = phase[w] /\ at'[w] = at[w] /\ step'[w] = step[w] /\ existed'[w] = existed[w]
      BY <1>5, <2>2, <2>8 DEF Apply, Execute, Copy, Fail, TypeOK
    <3> QED
      BY <1>2, <3>1, <3>2
  <2>9. CASE s.op # "drop" /\ w = g
    <3>1. CASE ~Skipped(g, s) /\ ~Runs(s)
      <4>1. s.op = "require_empty" /\ existed[g]
        <5>1. s.op # "require_empty" => s.from \subseteq schema
          BY <2>1, <2>2, <3>1, StatementFinds
        <5> QED
          BY <3>1, <5>1 DEF Runs, Skipped
      <4>2. PICK t \in LegacyDatasets : s.objects = {t} /\ s.from = {t}
        BY <2>2, <2>3, <4>1 DEF Careful
      <4>3. Part(Name(t), "row") \notin schema
        BY Datasets DEF SchemaInv
      <4>4. t \notin schema
        BY <3>1, <4>2, <4>3, Datasets DEF Runs
      <4> QED
        BY <1>1, <2>1, <2>2, <2>9, <4>1, <4>2, <4>4 DEF Doomed, Counts
    <3>2. CASE Skipped(g, s) /\ step' = [step EXCEPT ![g] = @ + 1] /\ phase' = phase
      <4>1. s.op # "look"
        BY <3>2 DEF Skipped
      <4> QED
        BY <2>5, <3>2, <4>1
    <3>3. CASE Execute(g, s)
      BY <2>1, <2>5, <2>6, <3>3 DEF Execute
    <3>4. CASE Copy(s)
      <4>1. UNCHANGED <<schema, phase, at, step, existed>>
        BY <3>4 DEF Copy
      <4> QED
        BY <1>2, <2>9, <4>1
    <3> QED
      BY <1>5, <3>1, <3>2, <3>3, <3>4 DEF Apply
  <2> QED
    BY <2>7, <2>8, <2>9
<1> QED
  BY <1>3, <1>4, <1>5 DEF Next, Served

\* A gateway fails to start only at the COUNT of a dataset table that has rows, or that another
\* gateway dropped after this one looked for it; and not all fail unless there are rows:
\* can_apply, every other statement and has_succeeded of every migration find what they look for.
THEOREM GatewaysDoStart == Spec => []GatewaysStart
<1>1. Init => Survivor
  BY DEF Init, Survivor, Doomed
<1>2. SchemaInv /\ Survivor /\ [Next]_vars => Survivor'
  BY NextKeepsSchema, NextKeepsSurvivor
<1>3. SchemaInv /\ Survivor => GatewaysStart
  <2> SUFFICES ASSUME SchemaInv, Survivor
               PROVE  GatewaysStart
    OBVIOUS
  <2>1. ASSUME NEW g \in Gateways, phase[g] = "failed"
        PROVE  /\ step[g] <= Len(Current(g).steps)
               /\ LET s == Current(g).steps[step[g]]
                  IN  /\ s.op = "require_empty" /\ s.objects \subseteq found \cap LegacyDatasets
                      /\ \/ RowsOf(s.objects) \cap found # {}
                         \/ s.objects \cap schema = {} /\ Gateways # {g}
    <3>1. PICK k : /\ at[g] \in 1 .. 27 /\ Counts(g, k)
                   /\ \E t \in LegacyDatasets :
                          /\ Current(g).steps[k].objects = {t} /\ t \in found
                          /\ Part(Name(t), "row") \in found \/ (t \notin schema /\ Gateways # {g})
      BY <2>1 DEF SchemaInv, GatewayInv, Excused
    <3>2. PICK t \in LegacyDatasets :
              /\ Current(g).steps[k].objects = {t} /\ t \in found
              /\ Part(Name(t), "row") \in found \/ (t \notin schema /\ Gateways # {g})
      BY <3>1
    <3>3. step[g] = k /\ k <= Len(Current(g).steps) /\ Current(g).steps[k].op = "require_empty"
      <4>1. Len(Current(g).steps) \in Nat
        BY <3>1, AllSound DEF Sound, Possible, Current
      <4> QED
        BY <3>1, <4>1 DEF Counts, Statements
    <3>4. RowsOf({t}) = {Part(Name(t), "row")}
      BY Datasets
    <3> QED
      BY <3>2, <3>3, <3>4
  <2>2. found \cap DatasetRows = {} /\ Gateways # {} => \E g \in Gateways : phase[g] # "failed"
    BY DEF Survivor
  <2> QED
    BY <2>1, <2>2 DEF GatewaysStart
<1> QED
  BY <1>1, <1>2, <1>3, SchemaInvariance, PTL DEF Spec

-----------------------------------------------------------------------------
(***************************************************************************)
(* What a serving gateway serves on                                         *)
(***************************************************************************)
\* The gateway runs a statement that makes o.
Makes(g, o) ==
    /\ phase[g] = "apply" /\ at[g] \in 1 .. 27 /\ step[g] \in Statements(Current(g))
    /\ Adds(Current(g).steps[step[g]]) /\ o \in Current(g).steps[step[g]].objects
    /\ Execute(g, Current(g).steps[step[g]])

\* Apart from the database itself, what appears was made by a statement of a migration.
LEMMA NewIsMade ==
    ASSUME SchemaInv, [Next]_vars, NEW o, o \in schema', o \notin schema, o \notin Database
    PROVE  \E g \in Gateways : Makes(g, o)
<1>1. ASSUME NEW g \in Gateways, Start(g)
      PROVE  FALSE
  BY <1>1 DEF Start, CreateDatabase
<1>2. ASSUME NEW g \in Gateways,
             Check(g) \/ Record(g) \/ Listen(g) \/ Serve(g) \/ Shutdown(g) \/ Crash(g)
      PROVE  FALSE
  BY <1>2 DEF Check, Record, Listen, Serve, Shutdown, Crash
<1>3. ASSUME NEW g \in Gateways, Apply(g)
      PROVE  Makes(g, o)
  <2> DEFINE s == Current(g).steps[step[g]]
  <2>1. /\ phase[g] = "apply" /\ at[g] \in 1 .. 27 /\ step[g] \in Statements(Current(g))
    BY <1>3, Applying DEF Apply
  <2>2. Execute(g, s)
    BY <1>3 DEF Apply, Copy
  <2>3. s.op \in {"create", "write", "create_or_temp", "exchange", "drop", "look",
                  "require_empty", "drop_temp", "backfill"}
    BY <2>1, AllSound DEF Sound, Careful, Current
  <2> HIDE DEF s
  <2>4. schema' = SchemaAfter(g, s)
    BY <2>2 DEF Execute
  <2>5. Adds(s) /\ o \in s.objects
    BY <2>3, <2>4 DEF SchemaAfter, Adds
  <2> QED
    BY <2>1, <2>2, <2>5 DEF Makes, s
<1>4. CASE UNCHANGED vars
  BY <1>4 DEF vars
<1> QED
  BY <1>1, <1>2, <1>3, <1>4 DEF Next, Served

\* The objects no should_apply looks for stay, and are not those of the database.
LEMMA EarlierLast ==
    /\ (EarlierViews \cup EarlierIndexes) \cap Dropped = {}
    /\ LastTable \notin Database /\ LastIndex \notin Database
<1>1. /\ \A o \in EarlierViews \cup EarlierIndexes : Name(o) \notin DroppedNames
      /\ Name(LastTable) = "FloatMetricFeedbackByTargetId" /\ Name(LastIndex) = "JsonInferenceDatapoint"
      /\ \A o \in Database : Name(o) \in {"database", "TensorZeroMigration"}
  BY ObjectNames DEF EarlierViews, EarlierIndexes, Tables, DroppedNames, LastTable, LastIndex, Database
<1> QED
  BY <1>1, NamedOnly

\* A statement that makes the last object finds the earlier ones.
LEMMA EarlierIsThere ==
    ASSUME SchemaInv, NEW g \in Gateways
    PROVE  /\ Makes(g, LastTable) => EarlierViews \subseteq schema
           /\ Makes(g, LastIndex) => EarlierIndexes \subseteq schema
<1> DEFINE m == Current(g)
           k == step[g]
<1> SUFFICES ASSUME phase[g] = "apply", at[g] \in 1 .. 27, k \in Statements(m), Adds(m.steps[k])
             PROVE  /\ LastTable \in m.steps[k].objects => EarlierViews \subseteq schema
                    /\ LastIndex \in m.steps[k].objects => EarlierIndexes \subseteq schema
  BY DEF Makes
<1>1. Covers(m, at[g])
  BY AllSound DEF Sound, Current
<1>2. \A j \in 1 .. (k - 1) : Ensured(m.steps[j]) \subseteq schema
  BY DEF SchemaInv, GatewayInv, Applied, Statements
<1> HIDE DEF m, k
<1>3. LastTable \in m.steps[k].objects => EarlierViews \subseteq schema
  BY <1>1, <1>2 DEF Covers
<1>4. LastIndex \in m.steps[k].objects => EarlierIndexes \subseteq schema
  BY <1>1, <1>2 DEF Covers
<1> QED
  BY <1>3, <1>4

LEMMA NextKeepsOrder ==
    ASSUME SchemaInv, OrderInv, [Next]_vars
    PROVE  OrderInv'
<1>1. Grows
  BY NextKeepsSchema
<1>2. LastTable \in schema' => EarlierViews \subseteq schema
  BY NewIsMade, EarlierLast, EarlierIsThere DEF OrderInv
<1>3. LastIndex \in schema' => EarlierIndexes \subseteq schema
  BY NewIsMade, EarlierLast, EarlierIsThere DEF OrderInv
<1> QED
  BY <1>1, <1>2, <1>3, EarlierLast DEF OrderInv, Grows

\* In every reachable schema the last table of 0009, and the last index of 0027, come after
\* the views and indexes that no should_apply looks for.
THEOREM OrderInvariance == Spec => []OrderInv
<1>1. Init => OrderInv
  BY MigrationAssumption, FoundInOrder DEF Init, OrderInv
<1>2. SchemaInv /\ OrderInv /\ [Next]_vars => OrderInv'
  BY NextKeepsOrder
<1> QED
  BY <1>1, <1>2, SchemaInvariance, PTL DEF Spec

\* A gateway serves only on a whole schema, also when the migrations it skipped were applied
\* by a gateway that is still running or that stopped half way: every should_apply looked for
\* what its migration makes, or for something that is made after it.
THEOREM WholeSchemaIsServed == Spec => []ServingSchemaIsWhole
<1>1. ASSUME SchemaInv, OrderInv, NEW g \in Gateways, phase[g] = "serving", NEW i \in 1 .. 27
      PROVE  /\ Objects(AllMigrations[i]) \subseteq schema \cup Unchecked
             /\ AllMigrations[i].absent \cap schema = {}
  <2> DEFINE m == AllMigrations[i]
  <2>1. GatewayInv(g)
    BY <1>1 DEF SchemaInv
  <2>2. m.checks \subseteq schema /\ m.absent \cap schema = {}
    BY <1>1, <2>1 DEF GatewayInv, Place, Passed
  <2>3. Covers(m, i)
    BY AllSound DEF Sound
  <2> HIDE DEF m
  <2>4. ASSUME NEW k \in Statements(m), m.steps[k].op \in {"create", "create_or_temp", "write"},
               NEW o \in m.steps[k].objects
        PROVE  o \in schema \cup Unchecked
    <3>1. \/ o \in m.checks \cup Unchecked
          \/ o \in EarlierViews /\ LastTable \in m.checks
          \/ o \in EarlierIndexes /\ LastIndex \in m.checks
      BY <2>3, <2>4 DEF Covers
    <3> QED
      BY <1>1, <2>2, <3>1 DEF OrderInv
  <2>5. Objects(m) \subseteq schema \cup Unchecked
    BY <2>4 DEF Objects, Statements
  <2> QED
    BY <2>2, <2>5 DEF m
<1>2. SchemaInv /\ OrderInv => ServingSchemaIsWhole
  BY <1>1, Length DEF ServingSchemaIsWhole
<1> QED
  BY <1>2, SchemaInvariance, OrderInvariance, PTL

-----------------------------------------------------------------------------
(***************************************************************************)
(* The rows of an old database                                              *)
(***************************************************************************)
Backfills(s, c) == s.op = "backfill" /\ c \in s.objects

LEMMA CopiesAreBackfilled ==
    ASSUME NEW c \in Copies
    PROVE  \E i \in 1 .. 27 : \E l \in Statements(AllMigrations[i]) : Backfills(AllMigrations[i].steps[l], c)
<1> DEFINE Filled(m) ==
        UNION {s.objects : s \in {m.steps[i] : i \in {i \in 1 .. Len(m.steps) : m.steps[i].op = "backfill"}}}
<1>1. PICK m \in {AllMigrations[k] : k \in 1 .. Len(AllMigrations)} : c \in Filled(m)
  BY DEF Copies
<1>2. PICK i \in 1 .. 27 : m = AllMigrations[i]
  BY <1>1, Length
<1>3. PICK s \in {m.steps[l] : l \in {l \in Statements(m) : m.steps[l].op = "backfill"}} : c \in s.objects
  BY <1>1 DEF Statements
<1>4. \E l \in Statements(m) : Backfills(m.steps[l], c)
  BY <1>3 DEF Backfills
<1> QED
  BY <1>2, <1>4

LEMMA RefilledOnce ==
    ASSUME NEW i \in 1 .. 27, NEW j \in 1 .. 27, NEW t, t \in Refilled(i), t \in Refilled(j)
    PROVE  i = j
  BY DEF Refilled

\* A migration that makes or replaces a table with copied rows goes on to copy them.
LEMMA MadeThenFilled ==
    ASSUME NEW c \in Copies, NEW i \in 1 .. 27, NEW k \in Statements(AllMigrations[i]),
           Adds(AllMigrations[i].steps[k]), NEW o \in AllMigrations[i].steps[k].objects,
           Name(o) = Name(c), Aspect(o) = "itself" \/ AllMigrations[i].steps[k].op = "exchange"
    PROVE  \E l \in Statements(AllMigrations[i]) : k < l /\ Backfills(AllMigrations[i].steps[l], c)
<1>1. PICK j \in 1 .. 27 : \E l \in Statements(AllMigrations[j]) : Backfills(AllMigrations[j].steps[l], c)
  BY CopiesAreBackfilled
<1>2. PICK l \in Statements(AllMigrations[j]) : Backfills(AllMigrations[j].steps[l], c)
  BY <1>1
<1>3. Name(c) \in Refilled(j)
  BY <1>2, AllSound DEF Sound, Refills, Backfills
<1>4. Name(o) \in AllRefilled
  BY <1>3 DEF AllRefilled
<1>5. Name(o) \in Refilled(i)
  BY <1>4, AllSound DEF Sound, Refills
<1>6. i = j
  BY <1>3, <1>5, RefilledOnce
<1>7. k < l
  BY <1>2, <1>6, AllSound DEF Sound, Refills, Backfills
<1> QED
  BY <1>2, <1>6, <1>7

\* An existing database is never taken for a new one.
LEMMA NextKeepsFound ==
    ASSUME SchemaInv, CopyInv, [Next]_vars, found # {}
    PROVE  AllMigrations[1].checks \subseteq schema' /\ \A g \in Gateways : ~clean'[g]
<1>1. AllMigrations[1].checks \subseteq schema /\ AllMigrations[1].absent = {}
  BY Data0000, Numbered DEF CopyInv
<1>2. AllMigrations[1].checks \subseteq schema'
  BY <1>1, NextKeepsSchema, ChecksLast DEF Grows
<1>3. TypeOK /\ \A h \in Gateways : ~clean[h]
  BY DEF SchemaInv, CopyInv
<1>4. ASSUME NEW g \in Gateways, Check(g)
      PROVE  \A h \in Gateways : ~clean'[h]
  <2>1. CASE clean' = clean
    BY <1>3, <2>1
  <2>2. CASE ShouldApply(Current(g)) /\ clean' = [clean EXCEPT ![g] = @ \/ at[g] = 1]
    <3>1. at[g] # 1
      BY <1>1, <2>2 DEF ShouldApply, Current
    <3> QED
      BY <1>3, <2>2, <3>1 DEF TypeOK
  <2> QED
    BY <1>4, <2>1, <2>2 DEF Check
<1>5. ASSUME NEW g \in Gateways, Crash(g)
      PROVE  \A h \in Gateways : ~clean'[h]
  BY <1>3, <1>5 DEF Crash, TypeOK
<1>6. ASSUME NEW g \in Gateways,
             Start(g) \/ Apply(g) \/ Record(g) \/ Listen(g) \/ Serve(g) \/ Shutdown(g)
      PROVE  clean' = clean
  BY <1>6 DEF Start, Apply, Record, Listen, Serve, Shutdown, gatewayVars
<1>7. CASE UNCHANGED vars
  BY <1>2, <1>3, <1>7 DEF vars, gatewayVars
<1> QED
  BY <1>2, <1>3, <1>4, <1>5, <1>6, <1>7 DEF Next, Served

\* A gateway that made or replaced the table of c has still to copy c.
LEMMA MakerWillCopy ==
    ASSUME SchemaInv, NEW c \in Copies, NEW g \in Gateways, NEW o, Makes(g, o), Name(o) = Name(c),
           Aspect(o) = "itself" \/ Current(g).steps[step[g]].op = "exchange"
    PROVE  WillCopy(g, c)'
<1>1. /\ phase[g] = "apply" /\ at[g] \in 1 .. 27 /\ step[g] \in Statements(Current(g))
      /\ Adds(Current(g).steps[step[g]]) /\ o \in Current(g).steps[step[g]].objects
      /\ phase' = phase /\ at' = at /\ step'[g] = step[g] + 1
  BY DEF Makes, Execute, SchemaInv, TypeOK
<1>2. PICK l \in Statements(Current(g)) : step[g] < l /\ Backfills(Current(g).steps[l], c)
  BY <1>1, MadeThenFilled DEF Current
<1>3. Current(g)' = Current(g) /\ step'[g] <= l
  BY <1>1, <1>2 DEF Current, Statements
<1> QED
  BY <1>1, <1>2, <1>3 DEF WillCopy, Backfills

\* A gateway that has still to copy c stops having to only by copying it.
LEMMA CopierCopies ==
    ASSUME SchemaInv, [Next]_vars, NEW c \in missing, c \in missing', NEW g \in Gateways,
           WillCopy(g, c), ~clean[g], crashes' = crashes
    PROVE  WillCopy(g, c)'
<1> DEFINE m == Current(g)
           k == step[g]
<1>1. phase[g] = "apply" /\ \E l \in Statements(m) : k <= l /\ Backfills(m.steps[l], c)
  BY DEF WillCopy, Backfills
<1>2. PICK l \in Statements(m) : k <= l /\ Backfills(m.steps[l], c)
  BY <1>1
<1>3. TypeOK /\ GatewayInv(g) /\ at[g] \in 1 .. 27 /\ k \in Nat
  BY <1>1, Length DEF SchemaInv, GatewayInv, Place, TypeOK
<1>4. Len(m.steps) \in Nat /\ Refills(m, at[g]) /\ Careful(m)
  BY <1>3, AllSound DEF Sound, Possible, Current
<1>5. ASSUME phase'[g] = phase[g], at'[g] = at[g], step'[g] = step[g]
      PROVE  WillCopy(g, c)'
  <2>1. m' = m
    BY <1>5 DEF Current
  <2> QED
    BY <1>1, <1>2, <1>5, <2>1 DEF WillCopy, Backfills
<1>6. CASE UNCHANGED vars
  BY <1>5, <1>6 DEF vars, gatewayVars
<1>7. ASSUME NEW h \in Gateways, Start(h)
      PROVE  WillCopy(g, c)'
  <2>1. h # g
    BY <1>1, <1>7 DEF Start
  <2> QED
    BY <1>3, <1>5, <1>7, <2>1 DEF Start, TypeOK
<1>8. ASSUME NEW h \in Gateways, Check(h)
      PROVE  WillCopy(g, c)'
  <2>1. h # g
    BY <1>1, <1>8 DEF Check
  <2> QED
    BY <1>3, <1>5, <1>8, <2>1 DEF Check, Advance, Fail, TypeOK
<1>9. ASSUME NEW h \in Gateways, Record(h)
      PROVE  WillCopy(g, c)'
  <2>1. h # g
    BY <1>2, <1>3, <1>4, <1>9 DEF Record, Statements
  <2> QED
    BY <1>3, <1>5, <1>9, <2>1 DEF Record, Advance, Fail, TypeOK
<1>10. ASSUME NEW h \in Gateways, Listen(h) \/ Serve(h) \/ Shutdown(h)
       PROVE  WillCopy(g, c)'
  <2>1. CASE Serve(h)
    BY <1>5, <2>1 DEF Serve, gatewayVars
  <2>2. CASE Listen(h) \/ Shutdown(h)
    <3>1. h # g
      BY <1>1, <2>2 DEF Listen, Shutdown
    <3> QED
      BY <1>3, <1>5, <2>2, <3>1 DEF Listen, Shutdown, TypeOK
  <2> QED
    BY <1>10, <2>1, <2>2
<1>11. ASSUME NEW h \in Gateways, Crash(h)
       PROVE  FALSE
  BY <1>3, <1>11, MigrationAssumption DEF Crash, TypeOK
<1>12. ASSUME NEW h \in Gateways, h # g, Apply(h)
       PROVE  WillCopy(g, c)'
  BY <1>3, <1>5, <1>12 DEF Apply, Execute, Copy, Fail, TypeOK
<1>13. ASSUME Apply(g)
       PROVE  WillCopy(g, c)'
  <2>1. k \in Statements(m)
    BY <1>13, Applying DEF Apply
  <2>2. ASSUME phase' = phase, at' = at, step' = [step EXCEPT ![g] = @ + 1], l # k
        PROVE  WillCopy(g, c)'
    <3>1. m' = m
      BY <2>2 DEF Current
    <3>2. step'[g] <= l
      BY <1>2, <1>3, <2>2 DEF Statements, TypeOK
    <3> QED
      BY <1>1, <1>2, <2>2, <3>1, <3>2 DEF WillCopy, Backfills
  <2>3. CASE /\ Skipped(g, m.steps[k])
             /\ step' = [step EXCEPT ![g] = @ + 1]
             /\ UNCHANGED <<schema, missing, phase, at, existed>>
    <3>1. l # k
      BY <1>2, <2>3 DEF Skipped, Backfills
    <3> QED
      BY <2>2, <2>3, <3>1
  <2>4. CASE Execute(g, m.steps[k])
    <3>1. l # k
      BY <1>2, <2>4 DEF Execute, MissingAfter, Backfills
    <3> QED
      BY <2>2, <2>4, <3>1 DEF Execute
  <2>5. CASE Copy(m.steps[k])
    BY <1>5, <2>5 DEF Copy
  <2>6. CASE ~Skipped(g, m.steps[k]) /\ ~Runs(m.steps[k])
    <3>1. m.steps[k].op # "require_empty"
      BY <1>2, <1>4, <2>1 DEF Refills, Backfills
    <3>2. m.steps[k].from \subseteq schema
      BY <1>1, <1>3, <2>1, <2>6, <3>1, StatementFinds
    <3> QED
      BY <2>6, <3>1, <3>2 DEF Runs
  <2> QED
    BY <1>13, <2>3, <2>4, <2>5, <2>6 DEF Apply
<1> QED
  BY <1>6, <1>7, <1>8, <1>9, <1>10, <1>11, <1>12, <1>13 DEF Next, Served

LEMMA NextKeepsCopies ==
    ASSUME SchemaInv, CopyInv, [Next]_vars
    PROVE  CopyInv'
<1>1. found' = found
  BY DEF Next, Served, vars, Start, Check, Apply, Record, Listen, Serve, Shutdown, Crash
<1>2. ASSUME found # {}
      PROVE  AllMigrations[1].checks \subseteq schema' /\ \A g \in Gateways : ~clean'[g]
  BY <1>2, NextKeepsFound
<1>3. ASSUME crashes' = 0, found # {}, NEW c \in missing'
      PROVE  Table(Name(c)) \notin schema' \/ \E g \in Gateways : WillCopy(g, c)'
  <2>1. crashes = 0
    <3>1. crashes' = crashes \/ crashes' = crashes + 1
      BY DEF Next, Served, vars, Start, Check, Apply, Record, Listen, Serve, Shutdown, Crash
    <3> QED
      BY <1>3, <3>1, MigrationAssumption DEF SchemaInv, TypeOK
  <2>2. c \in Copies
    BY <1>3, NextKeepsSchema DEF SchemaInv, TypeOK
  <2>3. CASE c \in missing /\ Table(Name(c)) \in schema
    <3>1. PICK g \in Gateways : WillCopy(g, c)
      BY <1>3, <2>1, <2>3 DEF CopyInv
    <3>2. ~clean[g]
      BY <1>3 DEF CopyInv
    <3>3. WillCopy(g, c)'
      BY <1>3, <2>1, <2>3, <3>1, <3>2, CopierCopies
    <3> QED
      BY <3>3
  <2>4. CASE c \in missing /\ Table(Name(c)) \notin schema
    <3> SUFFICES ASSUME Table(Name(c)) \in schema'
                 PROVE  \E g \in Gateways : WillCopy(g, c)'
      OBVIOUS
    <3>1. Table(Name(c)) \notin Database
      <4>1. PICK i \in 1 .. 27 : \E l \in Statements(AllMigrations[i]) : Backfills(AllMigrations[i].steps[l], c)
        BY <2>2, CopiesAreBackfilled
      <4>2. Name(c) \in Refilled(i)
        BY <4>1, AllSound DEF Sound, Refills, Backfills
      <4>3. Name(c) \notin {"database", "TensorZeroMigration"}
        BY <4>2 DEF Refilled
      <4> QED
        BY <4>3, Distinct DEF Database
    <3>2. PICK g \in Gateways : Makes(g, Table(Name(c)))
      BY <2>4, <3>1, NewIsMade
    <3> DEFINE o == Table(Name(c))
    <3>3. Name(o) = Name(c) /\ Aspect(o) = "itself" /\ Makes(g, o)
      BY <3>2, ObjectNames
    <3> HIDE DEF o
    <3>4. WillCopy(g, c)'
      BY <2>2, <3>3, MakerWillCopy
    <3> QED
      BY <3>4
  <2>5. CASE c \notin missing
    <3>1. PICK g \in Gateways : Apply(g)
      BY <1>3, <2>5 DEF Next, Served, vars, dataVars, Start, Check, Record, Listen, Serve, Shutdown, Crash
    <3> DEFINE s == Current(g).steps[step[g]]
    <3>2. phase[g] = "apply" /\ at[g] \in 1 .. 27 /\ step[g] \in Statements(Current(g))
      BY <3>1, Applying DEF Apply
    <3>3. Execute(g, s)
      BY <1>3, <2>5, <3>1 DEF Apply, Copy
    <3>4. s.op = "exchange" /\ \E o \in s.objects : c[1] = o[1]
      BY <1>3, <2>5, <3>3 DEF Execute, MissingAfter
    <3>5. PICK o \in s.objects : Name(o) = Name(c)
      BY <3>4 DEF Name
    <3>6. Makes(g, o)
      BY <3>2, <3>3, <3>4, <3>5 DEF Makes, Adds
    <3>7. WillCopy(g, c)'
      BY <2>2, <3>4, <3>5, <3>6, MakerWillCopy
    <3> QED
      BY <3>7
  <2> QED
    BY <2>3, <2>4, <2>5
<1>4. (\A c \in missing : Table(Name(c)) \notin schema \/ \E g \in Gateways : WillCopy(g, c))'
        <=> \A c \in missing' : Table(Name(c)) \notin schema' \/ \E g \in Gateways : WillCopy(g, c)'
  OBVIOUS
<1> QED
  BY <1>1, <1>2, <1>3, <1>4 DEF CopyInv

\* Rows are missing only from a table that is not there yet, or a gateway that is still
\* running has to copy them; an existing database is never taken for a new one.
THEOREM CopyInvariance == Spec => []CopyInv
<1>1. Init => CopyInv
  BY MigrationAssumption DEF Init, CopyInv, Name
<1>2. SchemaInv /\ CopyInv /\ [Next]_vars => CopyInv'
  BY NextKeepsCopies
<1> QED
  BY <1>1, <1>2, SchemaInvariance, PTL DEF Spec

\* Without crashes an upgrade leaves every row of the old database in the new tables, also
\* when several gateways rebuild and refill the same tables: the gateway that made or
\* replaced a table copies the rows before it goes on.
THEOREM UpgradesKeepRows == Spec => []UpgradeCopiesRows
<1>1. SchemaInv /\ CopyInv => UpgradeCopiesRows
  <2> SUFFICES ASSUME SchemaInv, CopyInv, crashes = 0, found # {}, Started,
                      NEW g \in Gateways, phase[g] = "serving", NEW c \in missing
               PROVE  FALSE
    BY DEF UpgradeCopiesRows
  <2>1. c \in Copies
    BY DEF SchemaInv, TypeOK
  <2>2. PICK i \in 1 .. 27 : \E l \in Statements(AllMigrations[i]) : Backfills(AllMigrations[i].steps[l], c)
    BY <2>1, CopiesAreBackfilled
  <2>3. Table(Name(c)) \in AllMigrations[i].checks
    BY <2>2, AllSound DEF Sound, Refills, Backfills
  <2>4. AllMigrations[i].checks \subseteq schema
    BY DEF SchemaInv, GatewayInv, Place, Passed
  <2>5. \A h \in Gateways : ~WillCopy(h, c)
    BY DEF Started, WillCopy
  <2> QED
    BY <2>3, <2>4, <2>5 DEF CopyInv
<1> QED
  BY <1>1, SchemaInvariance, CopyInvariance, PTL

=============================================================================
