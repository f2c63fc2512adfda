--------------------------- MODULE BatchLifecycle ---------------------------
(***************************************************************************)
(* What the batch inference endpoints promise about one batch: it is        *)
(* recorded as pending with its inferences, its results are stored, and     *)
(* only then is it completed; or it fails.  Completed and failed are final, *)
(* with one exception: a job that was being cancelled may finish late, and  *)
(* then results may follow the failure.                                     *)
(***************************************************************************)
CONSTANT Inferences   \* the inferences of the batch

VARIABLES status,     \* "absent", "pending", "completed" or "failed"
          stored,     \* inferences with a stored result
          late        \* the job finished although it was being cancelled

Init == status = "absent" /\ stored = {} /\ late = FALSE

Start == status = "absent" /\ status' = "pending" /\ UNCHANGED <<stored, late>>

\* The batch can still be completed.
Open == status = "pending" \/ (late /\ status = "failed")

\* Results of an open batch arrive.
Store ==
    /\ Open
    /\ \E S \in SUBSET Inferences : stored' = stored \cup S
    /\ UNCHANGED <<status, late>>

Complete == Open /\ status' = "completed" /\ UNCHANGED <<stored, late>>

\* A batch fails with nothing stored.
Fail ==
    /\ status = "pending" /\ (stored = {} \/ late)
    /\ status' = "failed"
    /\ UNCHANGED <<stored, late>>

FinishLate ==
    /\ status # "completed" /\ stored = {}
    /\ ~late /\ late' = TRUE
    /\ UNCHANGED <<status, stored>>

Next == Start \/ Store \/ Complete \/ Fail \/ FinishLate

Spec == Init /\ [][Next]_<<status, stored, late>>
=============================================================================
