------------------------- MODULE TransitionService -------------------------
(***************************************************************************)
(* TaskTransitionService: how the status column of a task row changes when *)
(* several callers (UI commands, agents' completion handlers, the          *)
(* scheduler, recovery) change it at once.  A caller runs one call at a    *)
(* time; every await of the code between two accesses of the row is a step *)
(* boundary here.                                                          *)
(*                                                                         *)
(* A call is a validated transition (read, check, compare-and-swap, exit   *)
(* actions, entry actions, automatic transitions) or a corrective one      *)
(* that bypasses the legality check.  Entry actions of the agent-active    *)
(* statuses prepare a worktree, may rewrite the whole row they read, and   *)
(* end by launching an agent or by an error that the service repairs.      *)
(***************************************************************************)
EXTENDS Naturals, FiniteSets, TaskStatus

CONSTANTS
  Task, Caller,
  Initial,            \* the statuses tasks start a run in
  Requests,           \* the statuses callers of transition_task ask for
  CorrectiveTargets,  \* the statuses asked of transition_task_corrective*
  Branchless,         \* tasks without a branch, or with no code changes
  MaxCalls            \* bound: calls made in a behaviour

ASSUME CallerAssumption == IsFiniteSet(Caller)
ASSUME StatusAssumption ==
  /\ Initial \subseteq Status
  /\ Requests \subseteq Status
  /\ CorrectiveTargets \subseteq Status
ASSUME BoundAssumption == MaxCalls \in Nat

VARIABLES
  status,      \* Task -> Status, the persisted internal_status
  call,        \* Caller -> its call in progress
  calls,       \* calls made so far
  owed,        \* history: validated departures from a slot-holding status
               \* whose exit actions have not run yet, per task
  departures,  \* history: times a task's row left a slot-holding status
  releases     \* history: times exit actions decremented running_count

vars == <<status, call, calls, owed, departures, releases>>

(***************************************************************************)
(* A call: the task, the status it last read (from), the status it wants   *)
(* to write (to), the state whose entry actions it runs (cur), the status  *)
(* in the row those entry actions read (row), and whether cur was reached  *)
(* by an automatic transition (auto).                                      *)
(***************************************************************************)
Idle == [pc |-> "idle"]

CallAt(pcs) ==
  [pc : pcs, task : Task, from : Status, to : Status, cur : Status,
   row : Status, auto : BOOLEAN]

Calls == {Idle} \cup
  CallAt({"cas", "record", "exit", "entry", "setup", "spawn", "auto",
          "autorecord", "conflict", "restore",
          "fixexit", "fixread", "fixcas", "fixrecord"})

At(c, pc) == call[c].pc = pc

Goto(c, pc) == call' = [call EXCEPT ![c].pc = pc]

Return(c) == call' = [call EXCEPT ![c] = Idle]

\* Every write of a row records whether it takes the task out of a
\* slot-holding status.
WriteStatus(t, s) ==
  /\ status' = [status EXCEPT ![t] = s]
  /\ departures' = [departures EXCEPT ![t] =
       IF status[t] \in SlotHolding /\ s # status[t] THEN @ + 1 ELSE @]

\* A write whose error is only logged.
TryWriteStatus(t, s) == WriteStatus(t, s) \/ UNCHANGED <<status, departures>>

\* on_exit: leaving a slot-holding status decrements running_count.
OnExit(t, s) ==
  releases' = [releases EXCEPT ![t] = IF s \in SlotHolding THEN @ + 1 ELSE @]

Init ==
  /\ status \in [Task -> Initial]
  /\ call = [c \in Caller |-> Idle]
  /\ calls = 0
  /\ owed = [t \in Task |-> 0]
  /\ departures = [t \in Task |-> 0]
  /\ releases = [t \in Task |-> 0]

-----------------------------------------------------------------------------
(***************************************************************************)
(* transition_task                                                         *)
(***************************************************************************)

\* The row is read, a request for the same status returns at once and an
\* illegal one is refused: neither changes anything.
Request(c, t, to) ==
  /\ At(c, "idle") /\ calls < MaxCalls
  /\ to # status[t]
  /\ CanTransition(status[t], to)
  /\ call' = [call EXCEPT ![c] =
       [pc |-> "cas", task |-> t, from |-> status[t], to |-> to,
        cur |-> to, row |-> status[t], auto |-> FALSE]]
  /\ calls' = calls + 1
  /\ UNCHANGED <<status, owed, departures, releases>>

\* Mutant of CasHolds: a plain update, WHERE id = ? only.
CasHoldsBlind(c) == TRUE

\* Mutant of CasHolds: the write is skipped only if the target is already there.
CasHoldsUnlessThere(c) == status[call[c].task] # call[c].to

\* The write is conditional on the status that was read and validated.
CasHolds(c) == status[call[c].task] = call[c].from

CasUpdate(c) ==
  LET t == call[c].task IN
  /\ At(c, "cas")
  /\ CasHolds(c)
  /\ WriteStatus(t, call[c].to)
  /\ owed' = [owed EXCEPT ![t] =
       IF status[t] \in SlotHolding THEN @ + 1 ELSE @]
  /\ Goto(c, "record")
  /\ UNCHANGED <<calls, releases>>

\* persist_status_change records the transition in the history table, and in
\* the same transaction writes the target status into the row once more,
\* whatever the row now says.
RecordHistory(c) ==
  /\ At(c, "record")
  /\ TryWriteStatus(call[c].task, call[c].to)
  /\ Goto(c, "exit")
  /\ UNCHANGED <<calls, owed, releases>>

\* Another caller was first: the call returns the row as it is, no actions.
CasLost(c) ==
  /\ At(c, "cas")
  /\ ~CasHolds(c)
  /\ Return(c)
  /\ UNCHANGED <<status, calls, owed, departures, releases>>

\* Mutant of ExitActions: running_count is decremented whatever is left.
ExitActionsAlways(c) ==
  LET t == call[c].task IN
  /\ At(c, "exit")
  /\ releases' = [releases EXCEPT ![t] = @ + 1]
  /\ owed' = [owed EXCEPT ![t] = @ - 1]
  /\ Goto(c, "entry")
  /\ UNCHANGED <<status, calls, departures>>

ExitActions(c) ==
  LET t == call[c].task IN
  /\ At(c, "exit")
  /\ OnExit(t, call[c].from)
  /\ owed' = [owed EXCEPT ![t] =
       IF call[c].from \in SlotHolding THEN @ - 1 ELSE @]
  /\ Goto(c, "entry")
  /\ UNCHANGED <<status, calls, departures>>

-----------------------------------------------------------------------------
(***************************************************************************)
(* execute_entry_actions                                                   *)
(***************************************************************************)

\* Statuses whose entry prepares a worktree and launches an agent.
Preparing == {"Executing", "ReExecuting", "Reviewing"}

\* Startup, resume, the reroute of a failed merge and the scheduler's retry
\* of parked reviews run the entry actions of the status a task already has.
Reenter(c, t) ==
  /\ At(c, "idle") /\ calls < MaxCalls
  /\ status[t] \in AgentActive \cup DOMAIN AutoTransition
  /\ call' = [call EXCEPT ![c] =
       [pc |-> "entry", task |-> t, from |-> status[t], to |-> status[t],
        cur |-> status[t], row |-> status[t], auto |-> FALSE]]
  /\ calls' = calls + 1
  /\ UNCHANGED <<status, owed, departures, releases>>

\* Entry of any other status, without what that entry writes: that of the
\* merging statuses is the subject of MergePipeline, that of Failed adds
\* metadata only.
PlainEntry(c) ==
  /\ At(c, "entry") /\ call[c].cur \notin Preparing
  /\ Goto(c, "auto")
  /\ UNCHANGED <<status, calls, owed, departures, releases>>

\* The row is read before the git work that creates or restores a worktree.
PrepareRead(c) ==
  /\ At(c, "entry") /\ call[c].cur \in Preparing
  /\ call' = [call EXCEPT ![c].pc = "setup", ![c].row = status[call[c].task]]
  /\ UNCHANGED <<status, calls, owed, departures, releases>>

\* A new or restored worktree is persisted by writing the whole row back: one
\* write for the up to three that the code makes of what it has read.
PersistWorktree(c) ==
  /\ At(c, "setup")
  /\ WriteStatus(call[c].task, call[c].row)
  /\ Goto(c, "spawn")
  /\ UNCHANGED <<calls, owed, releases>>

\* The worktree was there: nothing to persist.
KeepWorktree(c) ==
  /\ At(c, "setup")
  /\ Goto(c, "spawn")
  /\ UNCHANGED <<status, calls, owed, departures, releases>>

\* The agent is launched, its message is queued behind a running agent, or
\* the launch is skipped because the task has moved on: all end the entry.
EntryDone(c) ==
  /\ At(c, "spawn")
  /\ Goto(c, "auto")
  /\ UNCHANGED <<status, calls, owed, departures, releases>>

\* ExecutionBlocked: inactive plan branch, failed git isolation or setup, or
\* an agent that did not start.  Reached by an automatic transition it is
\* only logged.
EntryBlocked(c) ==
  /\ call[c].pc \in {"setup", "spawn"}
  /\ IF call[c].auto THEN Return(c)
     ELSE call' = [call EXCEPT ![c].pc = "fixread", ![c].to = "Failed"]
  /\ UNCHANGED <<status, calls, owed, departures, releases>>

\* Where a branch freshness conflict sends the task: a conflict met on entry
\* to Reviewing without merge-conflict evidence goes back to PendingReview,
\* or to Failed once the retry limit is reached; any other goes to Merging.
\* The code reads this from metadata that the failed entry has just written.
ConflictTargets(s) ==
  IF s = "Reviewing" THEN {"PendingReview", "Failed", "Merging"}
                     ELSE {"Merging"}

\* Mutant of EntryConflict: a review conflict re-enters the automatic loop at
\* PendingReview instead of parking the task there.
EntryConflictRetries(c) ==
  /\ call[c].pc \in {"setup", "spawn"}
  /\ call' = IF call[c].cur = "Reviewing"
             THEN [call EXCEPT ![c].pc = "auto", ![c].cur = "PendingReview"]
             ELSE [call EXCEPT ![c].pc = "conflict", ![c].to = "Merging"]
  /\ UNCHANGED <<status, calls, owed, departures, releases>>

EntryConflict(c) ==
  /\ call[c].pc \in {"setup", "spawn"}
  /\ \E s \in ConflictTargets(call[c].cur) :
       call' = [call EXCEPT ![c].pc = "conflict", ![c].to = s]
  /\ UNCHANGED <<status, calls, owed, departures, releases>>

\* Exit actions come first.  A review whose worktree was that of a merge gets
\* its own again, for which the row is read ...
ConflictExit(c) ==
  /\ At(c, "conflict")
  /\ OnExit(call[c].task, call[c].cur)
  /\ \/ Goto(c, "fixread")
     \/ /\ call[c].cur = "Reviewing" /\ call[c].to # "Failed"
        /\ call' = [call EXCEPT ![c].pc = "restore",
                                ![c].row = status[call[c].task]]
  /\ UNCHANGED <<status, calls, owed, departures>>

\* ... and, after the work with git, written back whole.
RestoreWorktree(c) ==
  /\ At(c, "restore")
  /\ TryWriteStatus(call[c].task, call[c].row)
  /\ Goto(c, "fixread")
  /\ UNCHANGED <<calls, owed, releases>>

\* ReviewWorktreeMissing: a human has to look.
EntryWorktreeMissing(c) ==
  /\ call[c].pc \in {"setup", "spawn"} /\ call[c].cur = "Reviewing"
  /\ call' = [call EXCEPT ![c].pc = "fixexit", ![c].to = "Escalated"]
  /\ UNCHANGED <<status, calls, owed, departures, releases>>

\* An approved task without a branch or without code changes skips the merge.
NextAuto(t, s) ==
  IF s = "Approved" /\ t \in Branchless THEN "Merged" ELSE AutoTransition[s]

\* The automatic transition is written unconditionally, whatever the row now
\* says, then written again with its history record, and its target's entry
\* actions follow.
AutoWrite(c) ==
  LET t == call[c].task
      s == NextAuto(t, call[c].cur) IN
  /\ At(c, "auto") /\ call[c].cur \in DOMAIN AutoTransition
  /\ TryWriteStatus(t, s)
  /\ call' = [call EXCEPT ![c] =
       [@ EXCEPT !.pc = "autorecord", !.cur = s, !.auto = TRUE]]
  /\ UNCHANGED <<calls, owed, releases>>

AutoRecord(c) ==
  /\ At(c, "autorecord")
  /\ TryWriteStatus(call[c].task, call[c].cur)
  /\ Goto(c, "entry")
  /\ UNCHANGED <<calls, owed, releases>>

Finish(c) ==
  /\ At(c, "auto") /\ call[c].cur \notin DOMAIN AutoTransition
  /\ Return(c)
  /\ UNCHANGED <<status, calls, owed, departures, releases>>

-----------------------------------------------------------------------------
(***************************************************************************)
(* Corrective transitions                                                  *)
(***************************************************************************)

\* transition_task_corrective (withExit = FALSE) and
\* transition_task_corrective_with_exit (withExit = TRUE).
CorrectiveRequest(c, t, to, withExit) ==
  /\ At(c, "idle") /\ calls < MaxCalls
  /\ to # status[t]
  /\ call' = [call EXCEPT ![c] =
       [pc |-> IF withExit THEN "fixexit" ELSE "fixread", task |-> t,
        from |-> status[t], to |-> to, cur |-> status[t], row |-> status[t],
        auto |-> FALSE]]
  /\ calls' = calls + 1
  /\ UNCHANGED <<status, owed, departures, releases>>

\* Exit actions come first, for the status the caller believes is left.
FixExit(c) ==
  /\ At(c, "fixexit")
  /\ OnExit(call[c].task, call[c].cur)
  /\ Goto(c, "fixread")
  /\ UNCHANGED <<status, calls, owed, departures>>

\* apply_corrective_transition takes whatever status the row now has as the
\* one it leaves.
FixRead(c) ==
  /\ At(c, "fixread")
  /\ call' = [call EXCEPT ![c].pc = "fixcas",
                          ![c].from = status[call[c].task]]
  /\ UNCHANGED <<status, calls, owed, departures, releases>>

FixWrite(c) ==
  /\ At(c, "fixcas")
  /\ CasHolds(c)
  /\ WriteStatus(call[c].task, call[c].to)
  /\ Goto(c, "fixrecord")
  /\ UNCHANGED <<calls, owed, releases>>

FixLost(c) ==
  /\ At(c, "fixcas")
  /\ ~CasHolds(c)
  /\ Return(c)
  /\ UNCHANGED <<status, calls, owed, departures, releases>>

FixRecord(c) ==
  /\ At(c, "fixrecord")
  /\ TryWriteStatus(call[c].task, call[c].to)
  /\ Return(c)
  /\ UNCHANGED <<calls, owed, releases>>

-----------------------------------------------------------------------------
Start(c) ==
  \E t \in Task :
    \/ \E to \in Requests : Request(c, t, to)
    \/ Reenter(c, t)
    \/ \E to \in CorrectiveTargets, withExit \in BOOLEAN :
         CorrectiveRequest(c, t, to, withExit)

Continue(c) ==
  \/ CasUpdate(c) \/ CasLost(c) \/ RecordHistory(c) \/ ExitActions(c)
  \/ PlainEntry(c) \/ PrepareRead(c) \/ PersistWorktree(c) \/ KeepWorktree(c)
  \/ EntryDone(c) \/ EntryBlocked(c) \/ EntryConflict(c)
  \/ ConflictExit(c) \/ RestoreWorktree(c) \/ EntryWorktreeMissing(c)
  \/ AutoWrite(c) \/ AutoRecord(c) \/ Finish(c)
  \/ FixExit(c) \/ FixRead(c) \/ FixWrite(c) \/ FixLost(c)
  \/ FixRecord(c)

Next == \E c \in Caller : Start(c) \/ Continue(c)

Spec == Init /\ [][Next]_vars

\* A call in progress is a task of the async runtime, which keeps polling it;
\* nobody is obliged to make a call.
FairSpec == Spec /\ \A c \in Caller : WF_vars(Continue(c))

-----------------------------------------------------------------------------
(***************************************************************************)
(* Properties                                                              *)
(***************************************************************************)

\* The variables have their types: every call is at a known point with a
\* task and statuses in hand.
TypeOK ==
  /\ status \in [Task -> Status]
  /\ call \in [Caller -> Calls]
  /\ calls \in Nat
  /\ owed \in [Task -> Nat]
  /\ departures \in [Task -> Nat]
  /\ releases \in [Task -> Nat]

\* Where a call has committed a validated departure and not yet settled it.
Unsettled == {"record", "exit"}

Owing(t) ==
  {c \in Caller : /\ call[c].pc \in Unsettled
                  /\ call[c].task = t
                  /\ call[c].from \in SlotHolding}

\* Callers race to move a task out of a slot-holding status with
\* transition_task.  Exactly one of them must run the exit actions that give
\* the slot back: every departure committed by a validated transition has one
\* caller, and only one, about to run them, whatever corrective, automatic and
\* row-rewriting writes happen in between.
ExitActionsOncePerDeparture ==
  \A t \in Task : owed[t] = Cardinality(Owing(t))

\* Points at which a call writes a status without checking that its move is
\* legal: history records, automatic and corrective transitions, and the row
\* rewritten by entry actions.
Recording == {"record", "autorecord", "fixrecord"}
Bypassing == Recording \cup {"auto", "setup", "restore", "fixcas"}

WrittenAt(t, pcs) ==
  \E c \in Caller :
    call[c].pc \in pcs /\ call'[c] # call[c] /\ call[c].task = t

\* A row changes to a status its current one does not allow only at the
\* writes that bypass the check.  The write of a validated transition never
\* does, however old the status it validated.
ValidatedMovesAreLegal ==
  [][\A t \in Task :
       \/ status'[t] = status[t]
       \/ WrittenAt(t, Bypassing)
       \/ CanTransition(status[t], status'[t])]_vars

\* Every call returns: error routing and automatic transitions never send a
\* task round between two statuses inside one call.
CallsReturn == \A c \in Caller : ~At(c, "idle") ~> At(c, "idle")

\* What the comment on the optimistic lock says: of two callers that move a
\* task, the one whose conditional write succeeds decides its status.  So
\* recording a transition in the history does not change the status again.
HistoryKeepsStatus ==
  [][\A t \in Task :
       WrittenAt(t, {"record"}) => status'[t] = status[t]]_vars

\* What the documentation of the corrective transition with exit actions
\* says of them: running_count is decremented when a task exits an
\* agent-active state, so, once no call is in progress, it has not been
\* decremented more often than tasks have left one.
ReleaseOnlyOnDeparture ==
  (\A c \in Caller : At(c, "idle")) =>
    \A t \in Task : releases[t] <= departures[t]
=============================================================================
