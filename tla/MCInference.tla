---------------------------- MODULE MCInference ----------------------------
(***************************************************************************)
(* Small instances of Inference: one variant of each kind of weight.        *)
(***************************************************************************)
EXTENDS Inference

CONSTANTS r1, r2, vPos, vPos2, vNone, vZero, f1

\* Every input there is.
AllInputs == Params

\* What two requests can disturb in each other: they share the object store.
SharedInputs == {p \in Params : p.pinned = NoVariant /\ p.hash = "below"}
=============================================================================
