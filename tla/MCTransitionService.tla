------------------------ MODULE MCTransitionService ------------------------
(* Instances of TransitionService for TLC, and the mutants of its actions. *)
EXTENDS TransitionService, TLC

CONSTANTS c1, c2, c3, t1

Symmetry == Permutations(Caller)

AllStatuses == Status
Moves == {"Executing", "PendingReview", "Stopped", "RevisionNeeded",
          "Approved", "Ready"}
\* Where agents work, and where their tasks come from or go to.
Busy == SlotHolding \cup {"Ready", "Stopped", "Paused", "PendingReview"}
Repairs == {"RevisionNeeded", "MergeIncomplete"}
NoRepairs == {}
=============================================================================
