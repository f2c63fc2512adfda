------------------------- MODULE MCMigrationManager -------------------------
(***************************************************************************)
(* Small instances of MigrationManager.                                     *)
(***************************************************************************)
EXTENDS MigrationManager, TLC

CONSTANTS g1, g2

Perms == Permutations(Gateways)

\* What the first n migrations leave.
After(n) ==
    Database \cup UNION {Objects(AllMigrations[i]) : i \in 1 .. n}

\* A new server, and two databases of older versions: one that ran up to migration 0011
\* and the banned 0013 and 0014, one that ran up to 0022 and the banned 0023.
OldDatabases ==
    {{}, After(9) \cup Legacy0013 \cup LegacyDatasets,
     After(17) \cup LegacyFeedback}

\* Nothing reads the records, so states that differ only there behave alike.
WithoutRecords == <<found, schema, dataVars, gatewayVars, crashes>>
=============================================================================
