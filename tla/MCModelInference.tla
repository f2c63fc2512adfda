-------------------------- MODULE MCModelInference --------------------------
(***************************************************************************)
(* Small instances of ModelInference: a primary provider and a fallback.    *)
(***************************************************************************)
EXTENDS ModelInference, TLC

CONSTANTS c1, c2, primary, fallback

TwoProviders == <<primary, fallback>>

\* Every option there is.
AllOptions == Options

\* Calls that can meet in the cache, one of them possibly a dryrun.
SharedOptions == {o \in Options : o.mode = "on" /\ o.kind \in {"plain", "stream", "embed"}}

Perms == Permutations(Calls)
=============================================================================
