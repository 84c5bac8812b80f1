------------------------ MODULE MCExecutionControl ------------------------
(* Instances of ExecutionControl for TLC, and the mutants of its actions. *)
EXTENDS ExecutionControl, TLC

CONSTANTS t1, t2

Symmetry == Permutations(Task)
InWork == {"Executing", "PendingMerge"}
Reports == {"PendingReview", "Failed"}
=============================================================================
