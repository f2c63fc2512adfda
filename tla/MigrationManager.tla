-------------------------- MODULE MigrationManager --------------------------
(***************************************************************************)
(* Starting gateways (gateway/src/main.rs, gateway_util.rs and              *)
(* migration_manager/mod.rs): each one sets up its connection, runs every   *)
(* migration in order, against one ClickHouse and with no lock, and serves  *)
(* until it is shut down.  A gateway may stop between any two statements    *)
(* (crash, kill, a query that fails) and be started again.                  *)
(*                                                                          *)
(* can_apply and should_apply are several queries and one step here: the    *)
(* objects they look for only ever appear (those of 0029 only disappear).   *)
(* The queries inside apply are steps of their own.                         *)
(***************************************************************************)
EXTENDS Migrations, FiniteSets

CONSTANTS Gateways,
          Databases,   \* the schemas a gateway may find; {} is a new server
          MaxCrashes   \* bound: gateways that stop while they migrate

\* Statements that leave their objects in the schema.
Lasting(s) == s.op \in {"create", "write"}

\* The statements of a migration have run in order: what a later one leaves is there only
\* if what the earlier ones leave is.
InOrder(objects) ==
    \A m \in {AllMigrations[i] : i \in 1 .. Len(AllMigrations)} :
        \A k, l \in 1 .. Len(m.steps) :
            k < l /\ Lasting(m.steps[k]) /\ Lasting(m.steps[l]) /\ m.steps[l].objects \cap objects # {}
                => m.steps[k].objects \subseteq objects

\* Gateways of this or of an older version made the databases, and one with rows has been
\* through the first migration.
ASSUME MigrationAssumption ==
    /\ MaxCrashes \in Nat
    /\ \A d \in Databases : InOrder(d) /\ (d # {} => AllMigrations[1].checks \subseteq d)

VARIABLES found,     \* the schema before the first gateway
          schema,    \* the schema objects
          rows,      \* are there inferences and feedback?
          missing,   \* the pairs <<t, s>>: t lacks rows of s
          records,   \* the migrations with a row in TensorZeroMigration
          phase,     \* of each gateway
          at,        \* its migration (an index of AllMigrations)
          step,      \* its next statement of that migration
          clean,     \* clean_start
          existed,   \* what check_table_exists said inside apply
          crashes

gatewayVars == <<phase, at, step, clean, existed>>
dataVars == <<rows, missing>>
vars == <<found, schema, dataVars, records, gatewayVars, crashes>>

\* What the backfills copy: pairs of a table and the source of its rows.
Copies ==
    UNION {UNION {s.objects : s \in {m.steps[i] : i \in {i \in 1 .. Len(m.steps) : m.steps[i].op = "backfill"}}} :
               m \in {AllMigrations[k] : k \in 1 .. Len(AllMigrations)}}

Database == {Table("database"), Table("TensorZeroMigration")}

\* A gateway that exited is not started again; one that serves without ClickHouse is
\* "unobserved".
Phases == {"stopped", "check", "apply", "migrated", "serving", "unobserved", "failed", "exited"}

TypeOK ==
    /\ phase \in [Gateways -> Phases]
    /\ at \in [Gateways -> 1 .. (Len(AllMigrations) + 1)]
    /\ step \in [Gateways -> Nat \ {0}]
    /\ clean \in [Gateways -> BOOLEAN] /\ existed \in [Gateways -> BOOLEAN]
    /\ records \subseteq 1 .. Len(AllMigrations)
    /\ rows \in BOOLEAN /\ missing \subseteq Copies
    /\ crashes \in 0 .. MaxCrashes

\* An existing database has rows, and none of them is in a table still to come.
Init ==
    /\ found \in Databases
    /\ schema = found
    /\ rows = (found # {})
    /\ missing = {c \in Copies : found # {} /\ Table(c[1]) \notin found}
    /\ records = {}
    /\ phase = [g \in Gateways |-> "stopped"]
    /\ at = [g \in Gateways |-> 1]
    /\ step = [g \in Gateways |-> 1]
    /\ clean = [g \in Gateways |-> FALSE]
    /\ existed = [g \in Gateways |-> FALSE]
    /\ crashes = 0

-----------------------------------------------------------------------------
Current(g) == AllMigrations[at[g]]

CanApply(m) == m.needs \subseteq schema

ShouldApply(m) == ~(m.checks \subseteq schema) \/ m.absent \cap schema # {}

\* The gateway goes on to the next migration, or to serving requests.
Advance(g) ==
    /\ at' = [at EXCEPT ![g] = @ + 1]
    /\ step' = [step EXCEPT ![g] = 1]
    /\ phase' = [phase EXCEPT ![g] = IF at[g] = Len(AllMigrations) THEN "migrated" ELSE "check"]

\* The gateway does not start.
Fail(g) == phase' = [phase EXCEPT ![g] = "failed"] /\ UNCHANGED <<at, step>>

Settings == [enabled : {"true", "false", "unset"}, url : BOOLEAN]

\* setup_clickhouse: `gateway.observability.enabled` and TENSORZERO_CLICKHOUSE_URL.
SetupClickHouse(settings) ==
    CASE settings.enabled = "false" -> "disabled"
      [] settings.enabled = "true" /\ ~settings.url -> "error"
      [] settings.enabled = "unset" /\ ~settings.url -> "disabled"
      [] OTHER -> "production"

\* ClickHouseConnectionInfo::new fails when ClickHouse cannot be reached.
Connected(settings, healthy) ==
    IF SetupClickHouse(settings) = "production" /\ ~healthy THEN "error" ELSE SetupClickHouse(settings)

\* create_database, which also creates TensorZeroMigration.
CreateDatabase == schema \cup Database

\* main up to the migrations: the arguments or the configuration are refused, or the
\* connection is set up.
Start(g) ==
    /\ phase[g] = "stopped"
    /\ \/ phase' = [phase EXCEPT ![g] = "exited"] /\ UNCHANGED schema
       \/ \E settings \in Settings, healthy \in BOOLEAN :
              LET connection == Connected(settings, healthy)
              IN  /\ phase' = [phase EXCEPT ![g] = CASE connection = "error" -> "exited"
                                                    [] connection = "disabled" -> "unobserved"
                                                    [] connection = "production" -> "check"]
                  /\ schema' = IF connection = "production" THEN CreateDatabase ELSE schema
    /\ UNCHANGED <<found, dataVars, records, at, step, clean, existed, crashes>>

\* run_migration up to apply: an error, Ok(false), or the migration begins.  run takes
\* clean_start from the first migration (set here when it begins: if it then fails, the
\* gateway does not start).
Check(g) ==
    /\ phase[g] = "check"
    /\ \/ ~CanApply(Current(g)) /\ Fail(g) /\ UNCHANGED clean
       \/ /\ CanApply(Current(g)) /\ ~ShouldApply(Current(g))
          /\ Advance(g) /\ UNCHANGED clean
       \/ /\ CanApply(Current(g)) /\ ShouldApply(Current(g))
          /\ phase' = [phase EXCEPT ![g] = "apply"]
          /\ clean' = [clean EXCEPT ![g] = @ \/ at[g] = 1]
          /\ UNCHANGED <<at, step>>
    /\ UNCHANGED <<found, schema, dataVars, records, existed, crashes>>

-----------------------------------------------------------------------------
(***************************************************************************)
(* The statements of apply                                                  *)
(***************************************************************************)
RowsOf(tables) == {<<o[1], "row">> : o \in tables}

\* A statement that names a table or a column that is not there is an error, and so is
\* a dataset table with rows.
Runs(s) ==
    /\ s.from \subseteq schema
    /\ s.op = "require_empty" => RowsOf(s.objects) \cap schema = {}

\* Mutant: a table that was rebuilt is taken for one with rows.
Skipped_Rebuilt(g, s) ==
    \/ s.op \in {"require_empty", "exchange", "drop_temp"} /\ ~existed[g]
    \/ s.op = "backfill" /\ (clean[g] \/ existed[g])

\* Unless the table existed, there is nothing to count, and nothing was created under a
\* temporary name.
Skipped(g, s) ==
    \/ s.op \in {"require_empty", "exchange", "drop_temp"} /\ ~existed[g]
    \/ s.op = "backfill" /\ clean[g]

\* The schema after a statement; a temporary table is not part of it.
SchemaAfter(g, s) ==
    CASE s.op \in {"create", "write", "exchange"} -> schema \cup s.objects
      [] s.op = "create_or_temp" -> IF existed[g] THEN schema ELSE schema \cup s.objects
      [] s.op = "drop" -> schema \ s.objects
      [] s.op \in {"look", "require_empty", "drop_temp", "backfill"} -> schema

\* EXCHANGE puts an empty table in place, and the old one is dropped with its rows.
MissingAfter(s) ==
    CASE s.op = "exchange" ->
             missing \cup {c \in Copies : rows /\ \E o \in s.objects : c[1] = o[1]}
      [] s.op = "backfill" -> missing \ s.objects
      [] OTHER -> missing

Execute(g, s) ==
    /\ schema' = SchemaAfter(g, s)
    /\ missing' = MissingAfter(s)
    /\ existed' = [existed EXCEPT ![g] = IF s.op = "look" THEN s.objects \subseteq schema ELSE @]
    /\ step' = [step EXCEPT ![g] = @ + 1]
    /\ UNCHANGED <<phase, at>>

\* One of the concurrent INSERTs of a backfill, others are still to come.
Copy(s) ==
    /\ s.op = "backfill"
    /\ \E c \in missing \cap s.objects :
           missing \cap s.objects # {c} /\ missing' = missing \ {c}
    /\ UNCHANGED <<schema, phase, at, step, existed>>

Apply(g) ==
    /\ phase[g] = "apply" /\ step[g] <= Len(Current(g).steps)
    /\ LET s == Current(g).steps[step[g]]
       IN  \/ /\ Skipped(g, s)
              /\ step' = [step EXCEPT ![g] = @ + 1]
              /\ UNCHANGED <<schema, missing, phase, at, existed>>
           \/ ~Skipped(g, s) /\ Runs(s) /\ Execute(g, s)
           \/ ~Skipped(g, s) /\ Runs(s) /\ Copy(s)
           \/ ~Skipped(g, s) /\ ~Runs(s) /\ Fail(g) /\ UNCHANGED <<schema, missing, existed>>
    /\ UNCHANGED <<found, rows, records, clean, crashes>>

\* apply returned: has_succeeded (in every migration the negation of should_apply), then
\* insert_migration_record, and run_migration returns Ok(true).
Record(g) ==
    /\ phase[g] = "apply" /\ step[g] > Len(Current(g).steps)
    /\ \/ ShouldApply(Current(g)) /\ Fail(g) /\ UNCHANGED records
       \/ ~ShouldApply(Current(g)) /\ records' = records \cup {at[g]} /\ Advance(g)
    /\ UNCHANGED <<found, schema, dataVars, clean, existed, crashes>>

\* The gateway stops while it migrates; what it wrote stays, and it is started again.
Crash(g) ==
    /\ phase[g] \in {"check", "apply"}
    /\ crashes < MaxCrashes
    /\ crashes' = crashes + 1
    /\ phase' = [phase EXCEPT ![g] = "stopped"]
    /\ at' = [at EXCEPT ![g] = 1]
    /\ step' = [step EXCEPT ![g] = 1]
    /\ clean' = [clean EXCEPT ![g] = FALSE]
    /\ existed' = [existed EXCEPT ![g] = FALSE]
    /\ UNCHANGED <<found, schema, dataVars, records>>

\* A serving gateway stores an inference or feedback; the views copy it.
Serve(g) ==
    /\ phase[g] = "serving" /\ ~rows
    /\ rows' = TRUE
    /\ UNCHANGED <<found, schema, missing, records, gatewayVars, crashes>>

\* The gateway listens, or its address is in use.
Listen(g) ==
    /\ phase[g] = "migrated"
    /\ \E next \in {"serving", "exited"} : phase' = [phase EXCEPT ![g] = next]
    /\ UNCHANGED <<found, schema, dataVars, records, at, step, clean, existed, crashes>>

\* A signal ends it.
Shutdown(g) ==
    /\ phase[g] = "serving"
    /\ phase' = [phase EXCEPT ![g] = "exited"]
    /\ UNCHANGED <<found, schema, dataVars, records, at, step, clean, existed, crashes>>

Started == \A g \in Gateways : phase[g] \notin {"stopped", "check", "apply", "migrated"}

Served == Started /\ UNCHANGED vars

Next == (\E g \in Gateways : Start(g) \/ Check(g) \/ Apply(g) \/ Record(g) \/ Listen(g)
                                \/ Serve(g) \/ Shutdown(g) \/ Crash(g))
             \/ Served

Spec == Init /\ [][Next]_vars

-----------------------------------------------------------------------------
(***************************************************************************)
(* Properties                                                               *)
(***************************************************************************)
Objects(m) ==
    UNION {s.objects : s \in {m.steps[i] : i \in {i \in 1 .. Len(m.steps) :
               m.steps[i].op \in {"create", "create_or_temp", "write"}}}}

\* The objects that no should_apply covers: a gateway that finds the tables of 0009, or
\* the indexes of 0027, does not look whether the last view, or the last
\* MATERIALIZE INDEX, is still to come.
Unchecked ==
    {Table("FloatMetricFeedbackByTargetIdView"), <<"JsonInferenceDatapoint", "materialized">>}

DatasetRows == RowsOf(LegacyDatasets)

\* A gateway fails to start for one reason only, whatever the others do and wherever one
\* of them stopped: it counts the rows of a dataset table that an old version left, and
\* the table has some, or another gateway has dropped it since this one looked for it.
\* Every other statement finds the tables and columns it names, every migration that was
\* applied finds itself applied, and unless there are such rows not all gateways fail.
GatewaysStart ==
    /\ \A g \in Gateways : phase[g] = "failed" =>
           /\ step[g] <= Len(Current(g).steps)
           /\ LET s == Current(g).steps[step[g]]
              IN  /\ s.op = "require_empty" /\ s.objects \subseteq found \cap LegacyDatasets
                  /\ \/ RowsOf(s.objects) \cap found # {}
                     \/ s.objects \cap schema = {} /\ Gateways # {g}
    /\ found \cap DatasetRows = {} /\ Gateways # {} => \E g \in Gateways : phase[g] # "failed"

\* A gateway serves only on a whole schema, also when the migrations it skipped were
\* applied by a gateway that is still running or that crashed half way.
ServingSchemaIsWhole ==
    (\E g \in Gateways : phase[g] = "serving") =>
        \A i \in 1 .. Len(AllMigrations) :
            /\ Objects(AllMigrations[i]) \subseteq schema \cup Unchecked
            /\ AllMigrations[i].absent \cap schema = {}

\* Without crashes, an upgrade leaves every row of the old database in the new tables,
\* also when two gateways rebuild and refill the same tables.
UpgradeCopiesRows ==
    crashes = 0 /\ found # {} /\ Started /\ (\E g \in Gateways : phase[g] = "serving") => missing = {}
=============================================================================
