-------------------------- MODULE MCMergePipeline --------------------------
(* Instances of MergePipeline for TLC. *)
EXTENDS MergePipeline

CONSTANTS t1, t2

\* The tasks are alike: any other order only renames them.
InTurn == <<t1, t2>>
=============================================================================
