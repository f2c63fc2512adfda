-------------------------- MODULE MCCandidateVariants --------------------------
(* Three candidates: one may fail, one be skipped and one be chosen.        *)
EXTENDS CandidateVariants
=============================================================================
