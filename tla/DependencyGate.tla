--------------------------- MODULE DependencyGate ---------------------------
(***************************************************************************)
(* How a task waits for the tasks it depends on.  Four parties move it     *)
(* across the gate between Blocked and Ready:                              *)
(*                                                                         *)
(*   - unblock_dependents, run when a blocker is merged: one walk over the *)
(*     dependents of the merged task;                                      *)
(*   - the scheduler, which blocks a Ready task again when its blockers    *)
(*     are not satisfied, and starts it when they are;                     *)
(*   - the two dependency passes of startup;                               *)
(*   - everybody else: users, agents, the merge pipeline.                  *)
(*                                                                         *)
(* The first three are workers here.  Each reads its blockers one query at *)
(* a time, and writes with what it read: every query is a step.            *)
(***************************************************************************)
EXTENDS Naturals, FiniteSets, TaskStatus

CONSTANTS
  Task,
  Blockers,    \* Task -> the tasks it depends on
  PlanMerge,   \* tasks the scheduler sends to PendingMerge, not to Executing
  Scheduler,   \* scheduler instances: each command and each agent makes one
  Startup,     \* the startup job
  Initial,     \* Task -> the statuses it may have at first
  Moves,       \* the statuses users, agents and the pipeline move tasks to
  DbMayFail,   \* whether a query may fail
  MaxMoves,    \* bound: moves made by users, agents and the pipeline
  MaxCrashes   \* bound: crashes, each followed by a restart

ASSUME WorkerAssumption ==
  Scheduler \cap Task = {} /\ Startup \notin Scheduler \cup Task
ASSUME GraphAssumption ==
  Task # {} /\ Blockers \in [Task -> SUBSET Task] /\ PlanMerge \subseteq Task
ASSUME StatusAssumption ==
  Initial \in [Task -> SUBSET Status] /\ Moves \subseteq Status
ASSUME BoundAssumption ==
  DbMayFail \in BOOLEAN /\ MaxMoves \in Nat /\ MaxCrashes \in Nat

VARIABLES
  status,    \* Task -> Status, the persisted internal_status
  job,       \* Worker -> what it is doing; a task stands for its own walk
  reopened,  \* history: Worker -> blockers of the task it is at that ceased
             \* to be satisfied since it took that task up
  moves, crashes

vars == <<status, job, reopened, moves, crashes>>

Worker == Task \cup Scheduler \cup {Startup}

Satisfied(t) == status[t] \in DependencySatisfied

(***************************************************************************)
(* A job: the tasks still to be looked at (todo), the one it is at (dep),  *)
(* the blockers of it still to be read (left) and those whose query failed *)
(* (unread, a history), and the status it read: of the row of dep in a     *)
(* walk, of the list todo was made from otherwise (row).                   *)
(***************************************************************************)
Idle == [at |-> "idle"]

Jobs == {Idle} \cup
  [at : {"list", "next", "check", "read", "unblock", "unblockrecord",
         "readwaiting", "names", "reason", "reblock", "reblockrecord",
         "mark", "claim", "start", "startrecord", "entry", "write",
         "writerecord"},
   todo : SUBSET Task, dep : Task, left : SUBSET Task, unread : SUBSET Task,
   row : Status]

\* A job that is at no task yet.
Listed(todo, at, row) ==
  [at |-> at, todo |-> todo, dep |-> CHOOSE t \in Task : TRUE, left |-> {},
   unread |-> {}, row |-> row]

At(w, p) == job[w].at = p

Becomes(w, j) == job' = [job EXCEPT ![w] = j]

Goto(w, p) == Becomes(w, [job[w] EXCEPT !.at = p])

Quiet == UNCHANGED <<status, reopened, moves, crashes>>

\* Whether w is at a task that waits for t.
Concerns(w, t) ==
  job[w].at \notin {"idle", "list", "next"} /\ t \in Blockers[job[w].dep]

\* Every write of a row that makes a blocker unsatisfied is remembered.
Write(t, s) ==
  /\ status' = [status EXCEPT ![t] = s]
  /\ reopened' = [w \in Worker |->
       IF Satisfied(t) /\ s \notin DependencySatisfied /\ Concerns(w, t)
       THEN reopened[w] \cup {t} ELSE reopened[w]]

\* The update that comes with a history record, WHERE id = ? only: it writes
\* the status once more, whatever the row now says.
Record(w, s) ==
  \/ Write(job[w].dep, s)
  \/ DbMayFail /\ UNCHANGED <<status, reopened>>

\* The whole row as it was read, written back unless nothing in it changed.
Rewrite(w, s) ==
  \/ Write(job[w].dep, s)
  \/ UNCHANGED <<status, reopened>>

Init ==
  /\ status \in {f \in [Task -> Status] : \A t \in Task : f[t] \in Initial[t]}
  /\ job = [w \in Worker |-> Idle]
  /\ reopened = [w \in Worker |-> {}]
  /\ moves = 0
  /\ crashes = 0

-----------------------------------------------------------------------------
(***************************************************************************)
(* Users, agents and the merge pipeline                                    *)
(***************************************************************************)

\* A walk over the dependents of t.
Walk(t) == Listed({d \in Task : t \in Blockers[d]}, "next", "Merged")

\* transition_task: entry of Merged unblocks the dependents.
Move(t, to) ==
  /\ moves < MaxMoves
  /\ CanTransition(status[t], to)
  /\ to = "Merged" => At(t, "idle")
  /\ Write(t, to)
  /\ IF to = "Merged" THEN Becomes(t, Walk(t)) ELSE UNCHANGED job
  /\ moves' = moves + 1
  /\ UNCHANGED crashes

\* The end of a merge agent's stream unblocks once more a task it finds merged.
UnblockAgain(t) ==
  /\ moves < MaxMoves
  /\ status[t] = "Merged" /\ At(t, "idle")
  /\ Becomes(t, Walk(t))
  /\ moves' = moves + 1
  /\ UNCHANGED <<status, reopened, crashes>>

-----------------------------------------------------------------------------
(***************************************************************************)
(* What the workers share: take up a task, and read its blockers           *)
(***************************************************************************)
Take(w) ==
  /\ At(w, "next")
  /\ \E d \in job[w].todo :
       Becomes(w, [job[w] EXCEPT !.at = "check", !.todo = @ \ {d}, !.dep = d,
                                 !.left = Blockers[d], !.unread = {}])
  /\ reopened' = [reopened EXCEPT ![w] = {}]
  /\ UNCHANGED <<status, moves, crashes>>

\* The blockers cannot be read: the scheduler takes that for none, the others
\* skip the task.
TakeFails(w) ==
  /\ DbMayFail /\ At(w, "next")
  /\ \E d \in job[w].todo :
       Becomes(w, IF w \in Scheduler
                  THEN [job[w] EXCEPT !.at = "check", !.todo = @ \ {d},
                                      !.dep = d, !.left = {},
                                      !.unread = Blockers[d]]
                  ELSE [job[w] EXCEPT !.todo = @ \ {d}])
  /\ reopened' = [reopened EXCEPT ![w] = {}]
  /\ UNCHANGED <<status, moves, crashes>>

\* A blocker that cannot be read counts as satisfied, except in the first
\* pass of startup.
FailOpen(w) == ~(w = Startup /\ job[w].row = "Blocked")

\* Mutant of BlockerSatisfied: any terminal status satisfies a dependency.
BlockerTerminal(w) ==
  /\ At(w, "check")
  /\ \E b \in job[w].left :
       /\ status[b] \in Terminal
       /\ Becomes(w, [job[w] EXCEPT !.left = @ \ {b}])
  /\ Quiet

BlockerSatisfied(w) ==
  /\ At(w, "check")
  /\ \E b \in job[w].left :
       /\ Satisfied(b)
       /\ Becomes(w, [job[w] EXCEPT !.left = @ \ {b}])
  /\ Quiet

BlockerUnread(w) ==
  /\ DbMayFail /\ At(w, "check")
  /\ FailOpen(w)
  /\ \E b \in job[w].left :
       Becomes(w, [job[w] EXCEPT !.left = @ \ {b}, !.unread = @ \cup {b}])
  /\ Quiet

\* Mutant of Reconciling: both passes of startup look for violations.
ReconcilingAlways(w) == w = Startup

Reconciling(w) == w = Startup /\ job[w].row # "Blocked"

\* Where a worker goes once every blocker is satisfied ...
Cleared(w) ==
  IF w \in Task THEN "read"
  ELSE IF w \in Scheduler THEN "mark"
  ELSE IF Reconciling(w) THEN "next" ELSE "write"

\* ... and once one is not.
Held(w) ==
  IF w \in Task THEN "readwaiting"
  ELSE IF w \in Scheduler THEN "reblock"
  ELSE IF Reconciling(w) THEN "write" ELSE "next"

AllSatisfied(w) ==
  /\ At(w, "check") /\ job[w].left = {}
  /\ Goto(w, Cleared(w))
  /\ Quiet

BlockerUnsatisfied(w) ==
  /\ At(w, "check")
  /\ \E b \in job[w].left : ~Satisfied(b) \/ (DbMayFail /\ ~FailOpen(w))
  /\ Goto(w, Held(w))
  /\ Quiet

\* The statuses the second pass of startup scans.
Scanned == {"Ready", "Executing", "ReExecuting", "QaRefining", "QaTesting",
            "Reviewing"}

\* Mutant of NextList: tasks under review are forgotten.
NextListShort ==
  [ Blocked     |-> "Ready",
    Ready       |-> "Executing",
    Executing   |-> "ReExecuting",
    ReExecuting |-> "QaRefining",
    QaRefining  |-> "QaTesting" ]

\* Nothing is left to look at: startup goes on to its next list.
NextList ==
  [ Blocked     |-> "Ready",
    Ready       |-> "Executing",
    Executing   |-> "ReExecuting",
    ReExecuting |-> "QaRefining",
    QaRefining  |-> "QaTesting",
    QaTesting   |-> "Reviewing" ]

Done(w) ==
  /\ At(w, "next") /\ job[w].todo = {}
  /\ IF w = Startup /\ job[w].row \in DOMAIN NextList
     THEN Becomes(w, [job[w] EXCEPT !.at = "list", !.row = NextList[@]])
     ELSE Becomes(w, Idle)
  /\ Quiet

-----------------------------------------------------------------------------
(***************************************************************************)
(* unblock_dependents                                                      *)
(***************************************************************************)

\* Every blocker is satisfied: the row is read, and left alone unless Blocked.
ReadRow(w) ==
  /\ At(w, "read")
  /\ Becomes(w, [job[w] EXCEPT !.row = status[job[w].dep],
       !.at = IF status[job[w].dep] = "Blocked" THEN "unblock" ELSE "next"])
  /\ Quiet

\* One is not: the row is read, and the names of the blockers follow.
ReadWaitingRow(w) ==
  /\ At(w, "readwaiting")
  /\ Becomes(w, [job[w] EXCEPT !.at = "names", !.row = status[job[w].dep],
                               !.left = Blockers[job[w].dep]])
  /\ Quiet

ReadRowFails(w) ==
  /\ DbMayFail
  /\ job[w].at \in {"read", "readwaiting"}
  /\ Goto(w, "next")
  /\ Quiet

Unblock(w) ==
  /\ At(w, "unblock")
  /\ Write(job[w].dep, "Ready")
  /\ Goto(w, "unblockrecord")
  /\ UNCHANGED <<moves, crashes>>

UnblockRecord(w) ==
  /\ At(w, "unblockrecord")
  /\ Record(w, "Ready")
  /\ Goto(w, "next")
  /\ UNCHANGED <<moves, crashes>>

\* Blockers in these are not named in the reason a task is blocked for.
Unnamed == {"Merged", "Cancelled", "Stopped", "MergeIncomplete"}

BlockerUnnamed(w) ==
  /\ At(w, "names")
  /\ \E b \in job[w].left :
       /\ DbMayFail \/ status[b] \in Unnamed
       /\ Becomes(w, [job[w] EXCEPT !.left = @ \ {b}])
  /\ Quiet

BlockerNamed(w) ==
  /\ At(w, "names")
  /\ \E b \in job[w].left : status[b] \notin Unnamed
  /\ Goto(w, "reason")
  /\ Quiet

\* Nothing to name: the function returns, whatever is left in todo.
NothingNamed(w) ==
  /\ At(w, "names") /\ job[w].left = {}
  /\ Becomes(w, Idle)
  /\ Quiet

\* Mutant of WriteReason: the reason is bound to the status column.
WriteReasonSwapped(w) ==
  /\ At(w, "reason")
  /\ Rewrite(w, "Waiting for")
  /\ Goto(w, "next")
  /\ UNCHANGED <<moves, crashes>>

\* A reason that differs from the stored one is written, with the row read.
WriteReason(w) ==
  /\ At(w, "reason")
  /\ Rewrite(w, job[w].row)
  /\ Goto(w, "next")
  /\ UNCHANGED <<moves, crashes>>

WalkStep(w) ==
  \/ ReadRow(w) \/ ReadWaitingRow(w) \/ ReadRowFails(w)
  \/ Unblock(w) \/ UnblockRecord(w)
  \/ BlockerUnnamed(w) \/ BlockerNamed(w) \/ NothingNamed(w) \/ WriteReason(w)

-----------------------------------------------------------------------------
(***************************************************************************)
(* try_schedule_ready_tasks                                                *)
(***************************************************************************)
Schedule(w) ==
  /\ At(w, "idle")
  /\ \E t \in Task : status[t] = "Ready"
  /\ Becomes(w, Listed({t \in Task : status[t] = "Ready"}, "next", "Ready"))
  /\ Quiet

\* reblock_task: only if the task is still Ready.
Reblock(w) ==
  /\ At(w, "reblock")
  /\ IF status[job[w].dep] = "Ready"
     THEN Write(job[w].dep, "Blocked") /\ Goto(w, "reblockrecord")
     ELSE Goto(w, "next") /\ UNCHANGED <<status, reopened>>
  /\ UNCHANGED <<moves, crashes>>

ReblockRecord(w) ==
  /\ At(w, "reblockrecord")
  /\ Record(w, "Blocked")
  /\ Goto(w, "next")
  /\ UNCHANGED <<moves, crashes>>

\* Inactive plan, backoff, capacity or a project it does not serve.
PassOver(w) ==
  /\ At(w, "mark")
  /\ Goto(w, "next")
  /\ Quiet

\* The origin of the start is stored, unless one is, with the row as listed.
Mark(w) ==
  /\ At(w, "mark")
  /\ Rewrite(w, job[w].row)
  /\ Goto(w, "claim")
  /\ UNCHANGED <<moves, crashes>>

\* The per-task guard, try_start_scheduling ... finish_scheduling.
Starting(w, t) ==
  job[w].at \in {"start", "startrecord", "entry"} /\ job[w].dep = t

Claim(w) ==
  /\ At(w, "claim")
  /\ IF \E v \in Scheduler : Starting(v, job[w].dep)
     THEN Becomes(w, Idle)
     ELSE Goto(w, "start")
  /\ Quiet

StartTarget(t) == IF t \in PlanMerge THEN "PendingMerge" ELSE "Executing"

\* transition_task, the read and the conditional write in one.  It goes by
\* what the row now says: a task paused meanwhile is started all the same.
StartTask(w) ==
  /\ At(w, "start")
  /\ IF CanTransition(status[job[w].dep], StartTarget(job[w].dep))
     THEN Write(job[w].dep, StartTarget(job[w].dep)) /\ Goto(w, "startrecord")
     ELSE Becomes(w, Idle) /\ UNCHANGED <<status, reopened>>
  /\ UNCHANGED <<moves, crashes>>

StartRecord(w) ==
  /\ At(w, "startrecord")
  /\ Record(w, StartTarget(job[w].dep))
  /\ Goto(w, "entry")
  /\ UNCHANGED <<moves, crashes>>

\* Entry actions are over; the scheduler looks for more.
Entered(w) ==
  /\ At(w, "entry")
  /\ Becomes(w, Idle)
  /\ Quiet

ScheduleStep(w) ==
  \/ Reblock(w) \/ ReblockRecord(w) \/ PassOver(w) \/ Mark(w) \/ Claim(w)
  \/ StartTask(w) \/ StartRecord(w) \/ Entered(w)

-----------------------------------------------------------------------------
(***************************************************************************)
(* Startup: unblock_ready_tasks, then reconcile_dependency_violations      *)
(***************************************************************************)

\* A crash ends every job; the status column is all that remains.
Crash ==
  /\ crashes < MaxCrashes
  /\ job' = [w \in Worker |->
       IF w = Startup THEN Listed({}, "list", "Blocked") ELSE Idle]
  /\ crashes' = crashes + 1
  /\ UNCHANGED <<status, reopened, moves>>

List(w) ==
  /\ At(w, "list")
  /\ \E listed \in {{t \in Task : status[t] = job[w].row}}
                    \cup (IF DbMayFail THEN {{}} ELSE {}) :
       Becomes(w, [job[w] EXCEPT !.at = "next", !.todo = listed])
  /\ Quiet

\* Blocked is not a legal target from the later statuses.
RepairTarget(s) ==
  IF s = "Blocked" THEN "Ready"
  ELSE IF s \in {"Ready", "Executing", "ReExecuting"} THEN "Blocked"
  ELSE "Stopped"

Repair(w) ==
  /\ At(w, "write")
  /\ IF status[job[w].dep] = job[w].row
     THEN /\ Write(job[w].dep, RepairTarget(job[w].row))
          /\ Goto(w, "writerecord")
     ELSE Goto(w, "next") /\ UNCHANGED <<status, reopened>>
  /\ UNCHANGED <<moves, crashes>>

RepairRecord(w) ==
  /\ At(w, "writerecord")
  /\ Record(w, RepairTarget(job[w].row))
  /\ Goto(w, "next")
  /\ UNCHANGED <<moves, crashes>>

StartupStep(w) == List(w) \/ Repair(w) \/ RepairRecord(w)

-----------------------------------------------------------------------------
\* A failed write is logged, and the worker goes on to its next task; the
\* scheduler gives up if it was a start that failed.
WriteFails(w) ==
  /\ DbMayFail
  /\ \/ job[w].at \in {"unblock", "reblock", "write"} /\ Goto(w, "next")
     \/ At(w, "start") /\ Becomes(w, Idle)
  /\ Quiet

Step(w) ==
  \/ Take(w) \/ TakeFails(w) \/ Done(w)
  \/ BlockerSatisfied(w) \/ BlockerUnread(w) \/ BlockerUnsatisfied(w)
  \/ AllSatisfied(w)
  \/ WalkStep(w) \/ ScheduleStep(w) \/ StartupStep(w) \/ WriteFails(w)

Next ==
  \/ \E t \in Task : UnblockAgain(t) \/ \E to \in Moves : Move(t, to)
  \/ \E w \in Worker : Step(w)
  \/ \E w \in Scheduler : Schedule(w)
  \/ Crash

Spec == Init /\ [][Next]_vars

\* A walk and the startup job are tasks of the async runtime, which polls
\* them to their end; nothing obliges anybody to move or to schedule a task.
FairSpec == Spec /\ \A w \in Task \cup {Startup} : WF_vars(Step(w))

-----------------------------------------------------------------------------
(***************************************************************************)
(* Properties                                                              *)
(***************************************************************************)
TypeOK ==
  /\ status \in [Task -> Status]
  /\ job \in [Worker -> Jobs]
  /\ reopened \in [Worker -> SUBSET Task]
  /\ moves \in Nat /\ crashes \in Nat

\* Points at which a worker has found the task it is at free to go, and is
\* about to make it Ready or to start it.
Releasing(w) ==
  \/ job[w].at \in {"read", "unblock", "mark", "claim", "start"}
  \/ At(w, "write") /\ ~Reconciling(w)

\* A blocker of the task w is at: satisfied, or reopened since w took the task
\* up, or its query failed.  Startup lets no task through on a failed query.
Accounted(w, b) ==
  Satisfied(b) \/ b \in reopened[w] \/ (w # Startup /\ b \in job[w].unread)

FoundSatisfied(w) == \A b \in Blockers[job[w].dep] : Accounted(w, b)

\* Nobody lets a task through while a blocker holds it: whoever is about to
\* make it Ready or to start it read every blocker as Merged or Cancelled
\* since it took the task up, so each of them still is, or has been reopened
\* meanwhile; or the query for it failed.  The blockers are read one by one
\* while merges, restarts, cancellations and stale writes go on.
NeverUnblockedEarly == \A w \in Worker : Releasing(w) => FoundSatisfied(w)

\* A restart finds every task that a crash, or a walk that missed it, left
\* behind: a task blocked with all blockers satisfied when startup begins
\* ceases to be one or the other.
WakesAtStartup ==
  \A t \in Task :
    /\ At(Startup, "list") /\ job[Startup].row = "Blocked"
    /\ status[t] = "Blocked" /\ \A b \in Blockers[t] : Satisfied(b)
    ~> \/ status[t] # "Blocked"
       \/ \E b \in Blockers[t] : ~Satisfied(b)

\* And it takes back every task that got ahead of a blocker: a task ready or
\* at work when startup begins moves, or the blocker is satisfied.
ReblocksAtStartup ==
  \A t \in Task : \A b \in Blockers[t], s \in Scanned :
    /\ At(Startup, "list") /\ job[Startup].row = "Blocked"
    /\ status[t] = s /\ ~Satisfied(b)
    ~> status[t] # s \/ Satisfied(b)

Waiting(t) == status[t] = "Blocked" /\ Blockers[t] # {}

\* What the user guide says of a merge: the dependents it was the last
\* blocker of become Ready.
MergeUnblocks ==
  \A t \in Task :
    (Waiting(t) /\ \A b \in Blockers[t] : status[b] = "Merged")
    ~> (status[t] # "Blocked" \/ \E b \in Blockers[t] : status[b] # "Merged")

\* What the comment on the per-task guard says: two schedulers do not start
\* the same task.  So none puts back to Ready a task another has started.
StartedStaysStarted ==
  [][\A w \in Scheduler, t \in Task :
       At(w, "mark") /\ job'[w] # job[w] /\ status[t] = "Executing"
       => status'[t] = "Executing"]_vars
=============================================================================
