--------------------------- MODULE MergePipeline ---------------------------
(***************************************************************************)
(* The merges of approved tasks into one target branch: the attempt that   *)
(* runs on entry of PendingMerge, the guard against concurrent merges, the *)
(* validation of what was merged and its reversal, and the reconciler that *)
(* retries what was deferred or left behind.                               *)
(*                                                                         *)
(* An attempt holds a copy of its task's row and writes the whole of it    *)
(* after each step.  Each caller builds a transition service of its own,   *)
(* so no lock and no set of merges in flight is common to two attempts.    *)
(* Merges squash; conflicts, and the agents that resolve them, are left    *)
(* out.                                                                    *)
(***************************************************************************)
EXTENDS Naturals, Sequences, FiniteSets

CONSTANTS
  Task,
  Arrivals,    \* the tasks in the order of their approvals
  CheckedOut,  \* is the target the branch that the project's root is on?
  Validates,   \* does the project validate merges (mode Block)?
  MaxRetries,  \* merge_incomplete_max_retries
  MaxSetbacks  \* bound: timeouts, restarts, marks that expire early

ASSUME ProjectAssumption == CheckedOut \in BOOLEAN /\ Validates \in BOOLEAN
ASSUME BoundAssumption == MaxRetries \in Nat /\ MaxSetbacks \in Nat
ASSUME ArrivalAssumption ==
  /\ Arrivals \in [1 .. Cardinality(Task) -> Task]
  /\ \A t \in Task : \E i \in DOMAIN Arrivals : Arrivals[i] = t
ASSUME NameAssumption == Task \cap {"retry", "reconciler", "none"} = {}

Status == {"Approved", "PendingMerge", "MergeIncomplete", "Merged"}

\* Who runs attempts: whoever approved the task, the retry of deferred merges
\* that the exit of another one spawns, and the reconciler (startup included).
Runner == Task \cup {"retry", "reconciler"}
Pc == {"idle", "enter", "guard", "defer", "merge", "validating", "complete",
       "clear"}

VARIABLES
  row,     \* Task -> the task's row
  tries,   \* Task -> automatic retries of MergeIncomplete
  run,     \* Runner -> its attempt: [pc, task, row, seen, commit, place]
  wakes,   \* is a retry of deferred merges about to run?
  boot,    \* tasks that startup still has to look at
  line,    \* the target's commits: the changes that each contains
  holder,  \* the task whose merge worktree has the target checked out
  root,    \* commits the root's branch has lost, if it is not the target
  setbacks,
  overlap  \* history: did two attempts ever rely on it together?

table == <<row, tries>>
git == <<line, holder, root>>
vars == <<table, run, wakes, boot, git, setbacks, overlap>>

\* The row: merge_deferred, merge_pipeline_active, validation_in_progress.
Fresh ==
  [status |-> "Approved", deferred |-> FALSE, active |-> FALSE,
   validating |-> FALSE]
Idle ==
  [pc |-> "idle", task |-> "none", row |-> Fresh, seen |-> {},
   commit |-> {}, place |-> "none"]

Init ==
  /\ row = [t \in Task |-> Fresh]
  /\ tries = [t \in Task |-> 0]
  /\ run = [r \in Runner |-> Idle] /\ wakes = FALSE /\ boot = {}
  /\ line = << {} >> /\ holder = "none" /\ root = 0
  /\ setbacks = 0 /\ overlap = FALSE

Last(s) == s[Len(s)]
Front(s) == SubSeq(s, 1, Len(s) - 1)
OnTarget(commit) == \E i \in 1 .. Len(line) : line[i] = commit
Content == Last(line)

At(r, p) == run[r].pc = p
Mine(r) == run[r].task
Others(r) == {o \in Task : o # Mine(r)}

\* Has the attempt passed the guard, without having come to its end?
PastGuard(a) == a.pc \in {"merge", "validating", "complete"}
\* Does it rely on what it has seen of the target?
Relies(a) == PastGuard(a) \/ a.pc = "guard"

-----------------------------------------------------------------------------
(***************************************************************************)
(* Steps of an attempt                                                     *)
(***************************************************************************)

Setback == setbacks < MaxSetbacks /\ setbacks' = setbacks + 1

Goes(r, a) ==
  /\ run' = [run EXCEPT ![r] = a]
  /\ overlap' = (overlap \/ \E r1, r2 \in Runner :
                   r1 # r2 /\ Relies(run'[r1]) /\ Relies(run'[r2]))
Stays == UNCHANGED <<run, overlap>>
Starts(r, t) ==
  At(r, "idle") /\ Goes(r, [Idle EXCEPT !.pc = "enter", !.task = t])
Ends(r) == Goes(r, [Idle EXCEPT !.pc = "clear", !.task = Mine(r)])

\* TaskRepository::update of the attempt's copy of the row.
Saves(t, mine) == row' = [row EXCEPT ![t] = mine]

Drops(t) == holder' = IF holder = t THEN "none" ELSE holder

\* The row is read, marked as being merged and written with the branches in
\* it; worktrees of earlier attempts of the task are deleted, its branch is
\* brought up to date with the target.
Prepare(r) ==
  /\ At(r, "enter")
  /\ Saves(Mine(r), [row[Mine(r)] EXCEPT !.active = TRUE])
  /\ Goes(r, [run[r] EXCEPT !.pc = "guard", !.row = row'[Mine(r)],
                            !.seen = Content \cup {Mine(r)}])
  /\ Drops(Mine(r))
  /\ UNCHANGED <<tries, wakes, boot, line, root, setbacks>>

\* By the first entry of PendingMerge.
Before(o, t) ==
  \E i, j \in DOMAIN Arrivals : i < j /\ Arrivals[i] = o /\ Arrivals[j] = t

\* Another task merges to the target, and came to PendingMerge earlier.
Blocks(o, t) ==
  row[o].status = "PendingMerge" /\ ~row[o].deferred /\ Before(o, t)

GuardDefers(r) ==
  /\ At(r, "guard") /\ \E o \in Others(r) : Blocks(o, Mine(r))
  /\ Goes(r, [run[r] EXCEPT !.pc = "defer", !.seen = {}])
  /\ UNCHANGED <<table, wakes, boot, git, setbacks>>

Defer(r) ==
  /\ At(r, "defer")
  /\ Saves(Mine(r), [run[r].row EXCEPT !.deferred = TRUE])
  /\ Ends(r)
  /\ UNCHANGED <<tries, wakes, boot, git, setbacks>>

\* record_deferred_retry writes the row if the attempt was deferred before.
GuardPasses(r) ==
  LET mine == [run[r].row EXCEPT !.deferred = FALSE]
  IN  /\ At(r, "guard") /\ \A o \in Others(r) : ~Blocks(o, Mine(r))
      /\ IF run[r].row.deferred THEN Saves(Mine(r), mine) ELSE UNCHANGED row
      /\ Goes(r, [run[r] EXCEPT !.pc = "merge", !.row = mine])
      /\ UNCHANGED <<tries, wakes, boot, git, setbacks>>

\* The attempt runs out of time, before or in git's work; the task is handed
\* to the reconciler and the exit of PendingMerge wakes deferred merges.
TimeOut(r) ==
  /\ At(r, "guard") \/ At(r, "merge")
  /\ Setback
  /\ Saves(Mine(r), [run[r].row EXCEPT !.status = "MergeIncomplete"])
  /\ Ends(r)
  /\ wakes' = TRUE
  /\ holder' \in IF At(r, "merge") /\ ~CheckedOut THEN {holder, Mine(r)}
                 ELSE {holder}
  /\ UNCHANGED <<tries, boot, line, root>>

\* Git's work is done; the row is written if the merge is to be validated.
Committed(r, place) ==
  LET mine == [run[r].row EXCEPT !.validating = TRUE]
      a == [run[r] EXCEPT !.seen = {}, !.commit = Last(line'),
                          !.place = place]
  IN  IF Validates
      THEN /\ Saves(Mine(r), mine)
           /\ Goes(r, [a EXCEPT !.pc = "validating", !.row = mine])
      ELSE /\ Goes(r, [a EXCEPT !.pc = "complete"])
           /\ UNCHANGED row

\* Source and target are the same: there is nothing to merge, and the root of
\* the project stands for the worktree.
MergeSame(r) ==
  /\ At(r, "merge") /\ run[r].seen = Content
  /\ UNCHANGED git
  /\ Committed(r, "root")
  /\ UNCHANGED <<tries, wakes, boot, setbacks>>

\* A commit is made without a checkout if the target is checked out, else in
\* a worktree, which has nothing to commit if the target has the change.
Squash(t) == IF t \in Content /\ ~CheckedOut THEN line
             ELSE Append(line, Content \cup {t})

\* A worktree that has the target checked out is deleted, whosever it is.
Merge(r) ==
  /\ At(r, "merge") /\ run[r].seen # Content
  /\ line' = Squash(Mine(r))
  /\ holder' = IF CheckedOut THEN holder ELSE Mine(r)
  /\ Committed(r, IF CheckedOut THEN "root" ELSE "own")
  /\ UNCHANGED <<tries, wakes, boot, root, setbacks>>

-----------------------------------------------------------------------------
(***************************************************************************)
(* Validation and completion                                               *)
(***************************************************************************)

\* The flag goes with a write of the whole row, its status included.
ValidationPasses(r) ==
  LET mine == [run[r].row EXCEPT !.validating = FALSE]
  IN  /\ At(r, "validating")
      /\ Saves(Mine(r), mine)
      /\ Goes(r, [run[r] EXCEPT !.pc = "complete", !.row = mine])
      /\ UNCHANGED <<tries, wakes, boot, git, setbacks>>

\* Mutant of ResetsTarget: the place of the merge is not looked at.
ResetsTargetAnyway(r) == run[r].place # "none"

\* git reset --hard HEAD~1, where the merge is said to have been made; in a
\* worktree that is gone it fails.
ResetsTarget(r) ==
  IF run[r].place = "own" THEN holder = Mine(r) ELSE CheckedOut

Reset(r) ==
  /\ line' = IF ResetsTarget(r) /\ Len(line) > 1 THEN Front(line) ELSE line
  /\ root' = IF run[r].place = "root" /\ ~CheckedOut THEN root + 1 ELSE root

DropsOwn(r) ==
  IF run[r].place = "own" THEN Drops(Mine(r)) ELSE UNCHANGED holder

\* The exit of PendingMerge is not run.
ValidationFails(r) ==
  /\ At(r, "validating")
  /\ Reset(r) /\ DropsOwn(r)
  /\ Saves(Mine(r), [run[r].row EXCEPT !.status = "MergeIncomplete",
                                       !.validating = FALSE])
  /\ Ends(r)
  /\ UNCHANGED <<tries, wakes, boot, setbacks>>

\* The merge is complete if the commit is on the target, and if the row, read
\* once more, has not left the merge: then it stays as it is.
Complete(r) ==
  /\ At(r, "complete") /\ OnTarget(run[r].commit)
  /\ IF row[Mine(r)].status = "PendingMerge"
     THEN Saves(Mine(r), [run[r].row EXCEPT !.status = "Merged"])
     ELSE UNCHANGED row
  /\ DropsOwn(r) /\ Ends(r)
  /\ UNCHANGED <<tries, wakes, boot, line, root, setbacks>>

CommitIsGone(r) ==
  /\ At(r, "complete") /\ ~OnTarget(run[r].commit)
  /\ Saves(Mine(r), [run[r].row EXCEPT !.status = "MergeIncomplete"])
  /\ DropsOwn(r) /\ Ends(r)
  /\ UNCHANGED <<tries, wakes, boot, line, root, setbacks>>

\* The mark goes by a write of the row as it is then.
Clear(r) ==
  /\ At(r, "clear")
  /\ row' = [row EXCEPT ![Mine(r)].active = FALSE]
  /\ Goes(r, Idle)
  /\ UNCHANGED <<tries, wakes, boot, git, setbacks>>

Attempt(r) ==
  \/ Prepare(r) \/ GuardDefers(r) \/ Defer(r) \/ GuardPasses(r)
  \/ MergeSame(r) \/ Merge(r) \/ ValidationPasses(r) \/ ValidationFails(r)
  \/ Complete(r) \/ CommitIsGone(r) \/ Clear(r)

-----------------------------------------------------------------------------
(***************************************************************************)
(* What starts attempts                                                    *)
(***************************************************************************)

Moves(t, s) == row' = [row EXCEPT ![t].status = s]

\* A review approves the task; the transition runs the attempt.
Approve(t) ==
  /\ row[t].status = "Approved"
  /\ \A o \in Task : Before(o, t) => row[o].status # "Approved"
  /\ Moves(t, "PendingMerge")
  /\ Starts(t, t)
  /\ UNCHANGED <<tries, wakes, boot, git, setbacks>>

Deferred(t) == row[t].status = "PendingMerge" /\ row[t].deferred

\* retry_deferred_merges takes one deferred task, whatever it waits for.
Retry(t) ==
  /\ wakes /\ Deferred(t)
  /\ wakes' = FALSE
  /\ row' = [row EXCEPT ![t].deferred = FALSE]
  /\ Starts("retry", t)
  /\ UNCHANGED <<tries, boot, git, setbacks>>

NothingToRetry ==
  /\ wakes /\ At("retry", "idle") /\ \A t \in Task : ~Deferred(t)
  /\ wakes' = FALSE
  /\ Stays /\ UNCHANGED <<table, boot, git, setbacks>>

AttemptAt(t, pcs) == \E r \in Runner : Mine(r) = t /\ run[r].pc \in pcs

\* The marks carry the time at which they were set, and expire.  An attempt
\* has a deadline as long as merge_pipeline_active is valid, and validation
\* one as long as validation_in_progress is: a mark may be found expired once
\* what its deadline covers is over.
MayBeExpired(t) ==
  row[t].active /\ ~AttemptAt(t, {"guard", "defer", "merge"})
MayBeInvalid(t) == row[t].validating => ~AttemptAt(t, {"validating"})

\* merge_pipeline_active is judged first, validation_in_progress after it.  It
\* may be found expired while the attempt goes on.
ReconcileExpired(t) ==
  /\ At("reconciler", "idle") /\ boot = {}
  /\ row[t].status = "PendingMerge" /\ MayBeExpired(t)
  /\ IF AttemptAt(t, Pc \ {"idle"}) THEN Setback ELSE UNCHANGED setbacks
  /\ Moves(t, "MergeIncomplete") /\ wakes' = TRUE
  /\ Stays
  /\ UNCHANGED <<tries, boot, git>>

\* Mutant of Stale: who is deferred is left to the exit of the others.
StaleUndeferred(t) ==
  /\ At("reconciler", "idle") /\ boot = {} /\ ~row[t].deferred
  /\ row[t].status = "PendingMerge" /\ ~row[t].active /\ MayBeInvalid(t)

Stale(t) ==
  /\ At("reconciler", "idle") /\ boot = {}
  /\ row[t].status = "PendingMerge" /\ ~row[t].active /\ MayBeInvalid(t)

\* The blocker of a deferred task is gone, or it has waited for two minutes.
ReconcileDeferred(t) ==
  /\ Stale(t) /\ row[t].deferred
  /\ Starts("reconciler", t)
  /\ UNCHANGED <<table, wakes, boot, git, setbacks>>

\* A task that has just come to PendingMerge is not stale yet.
ReconcileStale(t) ==
  /\ Stale(t) /\ ~row[t].deferred
  /\ ~(At(t, "enter") /\ Mine(t) = t)
  /\ Moves(t, "MergeIncomplete") /\ wakes' = TRUE
  /\ Stays
  /\ UNCHANGED <<tries, boot, git, setbacks>>

\* Mutant of MayRetry: one retry too many.
MayRetryLate(t) == tries[t] <= MaxRetries

MayRetry(t) == tries[t] < MaxRetries

\* A new attempt, while the budget lasts; the record of the retry ends the
\* deferral.
ReconcileIncomplete(t) ==
  /\ At("reconciler", "idle") /\ boot = {}
  /\ row[t].status = "MergeIncomplete" /\ MayBeInvalid(t)
  /\ MayRetry(t)
  /\ tries' = [tries EXCEPT ![t] = @ + 1]
  /\ row' = [row EXCEPT ![t].status = "PendingMerge", ![t].deferred = FALSE]
  /\ Starts("reconciler", t)
  /\ UNCHANGED <<wakes, boot, git, setbacks>>

\* Startup reconciles each task in PendingMerge, by the same rules, and enters
\* the state again if that does nothing.  It leaves a task alone whose marks
\* are valid, or for which there is no room.
Startup(t) ==
  /\ t \in boot /\ At("reconciler", "idle")
  /\ boot' = boot \ {t}
  /\ \/ /\ \/ MayBeExpired(t)
           \/ ~row[t].active /\ ~row[t].deferred /\ MayBeInvalid(t)
        /\ Moves(t, "MergeIncomplete") /\ wakes' = TRUE /\ Stays
     \/ /\ ~row[t].active /\ MayBeInvalid(t)
        /\ Starts("reconciler", t) /\ UNCHANGED <<row, wakes>>
     \/ UNCHANGED <<row, wakes, run, overlap>>
  /\ UNCHANGED <<tries, git, setbacks>>

Reconcile(t) ==
  \/ ReconcileExpired(t) \/ ReconcileDeferred(t) \/ ReconcileStale(t)
  \/ ReconcileIncomplete(t) \/ Startup(t)

Crash ==
  /\ Setback
  /\ run' = [r \in Runner |-> Idle] /\ wakes' = FALSE
  /\ boot' = {t \in Task : row[t].status = "PendingMerge"}
  /\ UNCHANGED <<table, git, overlap>>

Next ==
  \/ \E r \in Runner : Attempt(r) \/ TimeOut(r)
  \/ \E t \in Task : Approve(t) \/ Retry(t) \/ Reconcile(t)
  \/ NothingToRetry \/ Crash

Spec == Init /\ [][Next]_vars

\* Attempts go on, and the reconciler comes by every task again and again: it
\* finds expired what expires, in a state that may last for a while only.
Fairness ==
  /\ \A r \in Runner : WF_vars(Attempt(r))
  /\ \A t \in Task : SF_vars(Reconcile(t))

FairSpec == Spec /\ Fairness

-----------------------------------------------------------------------------
(***************************************************************************)
(* Properties                                                              *)
(***************************************************************************)

Place == {"none", "own", "root"}
Row == [status : Status, deferred : BOOLEAN, active : BOOLEAN,
        validating : BOOLEAN]

\* Every variable has its type (the table, the attempts and git's state).
TypeOK ==
  /\ row \in [Task -> Row]
  /\ boot \in SUBSET Task
  /\ tries \in [Task -> 0 .. MaxRetries]
  /\ run \in [Runner -> [pc : Pc, task : Task \cup {"none"}, row : Row,
                         seen : SUBSET Task, commit : SUBSET Task,
                         place : Place]]
  /\ wakes \in BOOLEAN /\ overlap \in BOOLEAN
  /\ line \in Seq(SUBSET Task) /\ holder \in Task \cup {"none"}
  /\ root \in Nat
  /\ setbacks \in 0 .. MaxSetbacks

\* What is Merged is on the target: no reset takes away the change of a task
\* whose merge was completed (reset_hard, complete_merge_internal_impl).
MergedIsOnTarget ==
  \A t \in Task : row[t].status = "Merged" => t \in Content

\* While attempts keep out of each other's way, whatever crashes, expires or
\* runs out of time, no reset takes away what was Merged.
AloneIsSafe == ~overlap => MergedIsOnTarget

\* One merge at a time: no two attempts are past the guard together
\* (run_concurrent_merge_guard).
OneMergeAtATime ==
  \A r1, r2 \in Runner :
    r1 # r2 => ~(PastGuard(run[r1]) /\ PastGuard(run[r2]))

\* The branch that the user has checked out is left alone by the merges into
\* another (dispatch_merge_strategy, handle_validation_failure).
CheckoutIsLeftAlone == root = 0

\* Every merge is settled: a task leaves PendingMerge, deferred or not
\* (reconcile_pending_merge_task).
Settles ==
  \A t \in Task : row[t].status = "PendingMerge" ~>
                    row[t].status \in {"Merged", "MergeIncomplete"}
=============================================================================
