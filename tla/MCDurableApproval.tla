--------------------------- MODULE MCDurableApproval ---------------------------
(***************************************************************************)
(* Model values for DurableApproval: a few tasks and waits.  The tasks are *)
(* interchangeable.                                                        *)
(***************************************************************************)
EXTENDS DurableApproval, TLC

TaskSymmetry == Permutations(Tasks)
================================================================================
