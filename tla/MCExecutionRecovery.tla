------------------------ MODULE MCExecutionRecovery ------------------------
(* Instances of ExecutionRecovery for TLC. *)
EXTENDS ExecutionRecovery, TLC
=============================================================================
