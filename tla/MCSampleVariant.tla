--------------------------- MODULE MCSampleVariant ---------------------------
(***************************************************************************)
(* Small instances of SampleVariant.                                        *)
(***************************************************************************)
EXTENDS SampleVariant, TLC

CONSTANTS va, vb, vc

Perms == Permutations(Variants)
=============================================================================
