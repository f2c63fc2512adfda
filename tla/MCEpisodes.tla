------------------------------ MODULE MCEpisodes ------------------------------
(***************************************************************************)
(* Small instances of Episodes.                                             *)
(***************************************************************************)
EXTENDS Episodes, TLC

CONSTANTS i1, f1
=============================================================================
