---------------------------- MODULE MCStreamUsage ----------------------------
(***************************************************************************)
(* Small instances of StreamUsage.                                          *)
(***************************************************************************)
EXTENDS StreamUsage
=============================================================================
