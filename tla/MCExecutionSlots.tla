-------------------------- MODULE MCExecutionSlots --------------------------
(* Instances of ExecutionSlots for TLC. *)
EXTENDS ExecutionSlots, TLC

CONSTANTS exec1, rev1, idea1, r1, r2, r3

RunSymmetry == Permutations(Run)
=============================================================================
