----------------------------- MODULE TaskStatus -----------------------------
(***************************************************************************)
(* The status of a task (enum InternalStatus) and the classifications of   *)
(* statuses that the services share.                                       *)
(***************************************************************************)

\* The transitions the state machine accepts, by the status they leave.
ValidTransitions ==
  [ Backlog         |-> {"Ready", "Cancelled"},
    Ready           |-> {"Executing", "Blocked", "PendingMerge", "Cancelled"},
    Blocked         |-> {"Ready", "Cancelled"},
    Executing       |-> {"QaRefining", "PendingReview", "Failed", "Blocked",
                         "Stopped", "Paused"},
    QaRefining      |-> {"QaTesting", "Stopped", "Paused"},
    QaTesting       |-> {"QaPassed", "QaFailed", "Stopped", "Paused"},
    QaPassed        |-> {"PendingReview"},
    QaFailed        |-> {"RevisionNeeded"},
    PendingReview   |-> {"Reviewing"},
    Reviewing       |-> {"ReviewPassed", "RevisionNeeded", "Escalated",
                         "Stopped", "Paused"},
    ReviewPassed    |-> {"Approved", "RevisionNeeded"},
    Escalated       |-> {"Approved", "RevisionNeeded", "PendingReview"},
    RevisionNeeded  |-> {"ReExecuting", "Cancelled"},
    ReExecuting     |-> {"PendingReview", "Failed", "Blocked", "Stopped",
                         "Paused"},
    Approved        |-> {"PendingMerge", "Ready"},
    PendingMerge    |-> {"Merged", "Merging", "WaitingOnPr", "MergeIncomplete",
                         "Stopped", "Paused", "Cancelled"},
    Merging         |-> {"Merged", "WaitingOnPr", "MergeConflict",
                         "MergeIncomplete", "Stopped", "Paused", "Cancelled"},
    WaitingOnPr     |-> {"Merged", "MergeIncomplete", "PendingMerge",
                         "Stopped", "Paused", "Cancelled"},
    MergeIncomplete |-> {"PendingMerge", "Merging", "WaitingOnPr", "Merged",
                         "Stopped", "Paused", "Cancelled"},
    MergeConflict   |-> {"PendingMerge", "Merging", "Merged", "Stopped",
                         "Paused", "Cancelled"},
    Merged          |-> {"Ready"},
    Failed          |-> {"Ready"},
    Cancelled       |-> {"Ready"},
    Stopped         |-> {"Ready"},
    Paused          |-> {"Executing", "ReExecuting", "QaRefining", "QaTesting",
                         "Reviewing", "Merging", "WaitingOnPr"} ]

Status == DOMAIN ValidTransitions

CanTransition(s, u) == u \in ValidTransitions[s]

\* No automatic progress out of these.
Terminal == {"Merged", "Failed", "Cancelled", "Stopped", "MergeIncomplete"}

\* A blocker in one of these no longer holds its dependents back.
DependencySatisfied == {"Merged", "Cancelled"}

\* Statuses in which an agent works on the task: stop, pause and startup
\* recovery enumerate the tasks in them.
AgentActive == {"Executing", "QaRefining", "QaTesting", "Reviewing",
                "ReExecuting", "Merging", "PendingMerge"}

\* Statuses whose exit actions decrement running_count.
SlotHolding == {"Executing", "QaRefining", "QaTesting", "Reviewing",
                "ReExecuting", "Merging"}

\* Where a status moves on by itself, as soon as its entry actions are done.
AutoTransition ==
  [ QaPassed       |-> "PendingReview",
    RevisionNeeded |-> "ReExecuting",
    PendingReview  |-> "Reviewing",
    Approved       |-> "PendingMerge" ]
=============================================================================
