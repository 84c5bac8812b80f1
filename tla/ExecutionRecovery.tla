-------------------------- MODULE ExecutionRecovery --------------------------
(***************************************************************************)
(* What becomes of a task in execution whose agent dies, and of one that   *)
(* failed: the reconciler starts the agent anew, or the whole task, within *)
(* budgets that are kept in the metadata of the task's row.                *)
(*                                                                         *)
(* The row is written as a whole by some, by its metadata alone by others, *)
(* from what each of them read some awaits before.  Executing stands for   *)
(* ReExecuting too.                                                        *)
(***************************************************************************)
EXTENDS Naturals

CONSTANTS
  MaxRespawns,   \* executing_max_retries
  MaxRetries,    \* execution_failed_max_retries
  MaxIsolation,  \* git_isolation_max_retries
  MayBlock,      \* may the worktree of a task be out of reach?
  MaxDeaths,     \* bound: agents that do not complete
  MaxActs,       \* bound: what the user and reviews do
  MaxBreaks      \* bound: restarts of the program, and long pauses of it

ASSUME BudgetAssumption ==
  MaxRespawns \in Nat /\ MaxRetries \in Nat /\ MaxIsolation \in Nat
ASSUME BoundAssumption ==
  /\ MayBlock \in BOOLEAN
  /\ MaxDeaths \in Nat /\ MaxActs \in Nat /\ MaxBreaks \in Nat

Status == {"Ready", "Executing", "PendingReview", "Failed", "Stopped"}
Causes == {"none", "crash", "isolation", "overtime", "unknown"}

\* Entry actions run for whoever moved the task, and for the reconciler.
Enterer == {"mover", "reconciler"}

VARIABLES
  row,         \* the task's row
  run,         \* the run that was linked to the task last
  registered,  \* is there a live registry entry?
  entry,       \* Enterer -> entry actions under way: [pc, row]
  handler,     \* the handler of a failed stream: [pc, row]
  loop,        \* the reconciler: [pc, row]
  deaths, acts, breaks,
  respawns     \* history: new agents since the task last began to execute

bounds == <<deaths, acts, breaks>>
agent == <<run, registered>>
vars == <<row, agent, entry, handler, loop, bounds, respawns>>

\* Metadata of the row: is_timeout; auto_retry_count_{status}; failed_at, as
\* far as it is older than recovery_staleness_secs; and execution_recovery with
\* its state, stop_retrying, the number of its AutoRetryTriggered events and the
\* failure source of its last event.
NoRecovery == [last |-> "none", stop |-> FALSE, tries |-> 0, cause |-> "none"]
Fresh ==
  [status |-> "Ready", timeout |-> FALSE, retries |-> 0, failedAt |-> "never",
   recovery |-> NoRecovery]

Init ==
  /\ row = Fresh /\ run = "none" /\ registered = FALSE
  /\ entry = [e \in Enterer |-> [pc |-> "idle", row |-> Fresh]]
  /\ handler = [pc |-> "idle", row |-> Fresh]
  /\ loop = [pc |-> "idle", row |-> Fresh]
  /\ deaths = 0 /\ acts = 0 /\ breaks = 0
  /\ respawns = 0

-----------------------------------------------------------------------------
(***************************************************************************)
(* Writes of the row                                                       *)
(***************************************************************************)

\* TaskRepository::update writes everything, the status included.
WriteRow(r) == row' = r

\* TaskRepository::update_metadata leaves the status alone.
WriteMetadata(r) == row' = [r EXCEPT !.status = row.status]

Failure(recovery, cause) ==
  [recovery EXCEPT !.last = "retrying", !.cause = cause]

\* (mutant: the flag is forgotten)
HaltedOpenly(recovery, cause) ==
  [recovery EXCEPT !.last = "failed", !.cause = cause]
Halted(recovery, cause) ==
  [recovery EXCEPT !.last = "failed", !.stop = TRUE, !.cause = cause]

\* Entry of Failed adds a record that allows retries where there is none, and
\* failed_at, which nobody takes away again.
Failed(r) ==
  [r EXCEPT !.status = "Failed",
            !.failedAt = IF @ = "never" THEN "recent" ELSE @,
            !.recovery = IF @.last = "none" THEN Failure(@, "unknown") ELSE @]

\* Validated transitions of what the row says now; others are errors.
MoveFrom(s, r) == IF row.status = s THEN WriteRow(r) ELSE UNCHANGED row

-----------------------------------------------------------------------------
(***************************************************************************)
(* Execution                                                               *)
(***************************************************************************)

EntryGoes(e, p, r) == entry' = [entry EXCEPT ![e] = [pc |-> p, row |-> r]]
EntryAt(e, p) == entry[e].pc = p

Fails ==
  deaths < MaxDeaths /\ deaths' = deaths + 1 /\ UNCHANGED <<acts, breaks>>
Acts ==
  acts < MaxActs /\ acts' = acts + 1 /\ UNCHANGED <<deaths, breaks>>

\* A Ready task starts; a review sends it back to its worker.
Begin ==
  /\ EntryAt("mover", "idle")
  /\ \/ row.status = "Ready" /\ UNCHANGED bounds
     \/ row.status = "PendingReview" /\ Acts
  /\ WriteRow([row EXCEPT !.status = "Executing"])
  /\ EntryGoes("mover", "git", row')
  /\ respawns' = 0
  /\ UNCHANGED <<agent, handler, loop>>

\* setup_execution_worktree has read the row when it began, and writes it back
\* after its work with git, with the task's branch if that is new.
Prepared(e) ==
  /\ EntryAt(e, "git")
  /\ WriteRow(entry[e].row) \/ UNCHANGED row
  /\ EntryGoes(e, "spawn", Fresh)
  /\ UNCHANGED <<agent, handler, loop, bounds, respawns>>

\* The worktree is out of reach: the task is made Failed, whatever it was.
Blocked(e) ==
  /\ MayBlock /\ EntryAt(e, "git") /\ Fails
  /\ WriteRow([row EXCEPT !.status = "Failed"])
  /\ EntryGoes(e, "isolated", [row EXCEPT !.status = "Failed"])
  /\ UNCHANGED <<agent, handler, loop, respawns>>

\* A new record of the failure takes the place of the one before.
RecordIsolation(e) ==
  /\ EntryAt(e, "isolated")
  /\ WriteMetadata([entry[e].row EXCEPT
                      !.recovery = Failure(NoRecovery, "isolation")])
  /\ EntryGoes(e, "idle", Fresh)
  /\ UNCHANGED <<agent, handler, loop, bounds, respawns>>

\* If an agent is registered already the prompt is queued for it.
Spawn(e) ==
  /\ EntryAt(e, "spawn")
  /\ registered' = TRUE /\ run' = "running"
  /\ EntryGoes(e, "idle", Fresh)
  /\ UNCHANGED <<row, handler, loop, bounds, respawns>>

\* The agent completes; its transition may fail.
Complete ==
  /\ registered
  /\ registered' = FALSE /\ run' = "completed"
  /\ MoveFrom("Executing", [row EXCEPT !.status = "PendingReview"])
     \/ UNCHANGED row
  /\ UNCHANGED <<entry, handler, loop, bounds, respawns>>

\* The agent dies and nobody hears of it: its run may be marked or not.
Die ==
  /\ registered /\ Fails
  /\ registered' = FALSE /\ run' \in {"running", "failed"}
  /\ UNCHANGED <<row, entry, handler, loop, respawns>>

\* Its stream ends with an error, and a handler takes that up ...
Fail ==
  /\ registered /\ Fails /\ handler.pc = "idle"
  /\ registered' = FALSE /\ run' = "failed"
  /\ handler' = [pc |-> "read", row |-> Fresh]
  /\ UNCHANGED <<row, entry, loop, respawns>>

\* ... unless the task has left execution or has a newer run.
HandlerReads ==
  /\ handler.pc = "read"
  /\ handler' = [pc |-> IF row.status = "Executing" /\ ~registered
                          THEN "write" ELSE "idle",
                 row |-> row]
  /\ UNCHANGED <<row, agent, entry, loop, bounds, respawns>>

\* The event is added to the record that was read.
HandlerWrites ==
  /\ handler.pc = "write"
  /\ \E timeout \in BOOLEAN :
       WriteRow([handler.row EXCEPT !.recovery = Failure(@, "crash"),
                                    !.timeout = @ \/ timeout])
  /\ handler' = [pc |-> "fail", row |-> Fresh]
  /\ UNCHANGED <<agent, entry, loop, bounds, respawns>>

\* Work whose steps are all done goes on to review; either transition may fail.
HandlerFails ==
  /\ handler.pc = "fail"
  /\ \/ MoveFrom("Executing", Failed(row))
     \/ MoveFrom("Executing", [row EXCEPT !.status = "PendingReview"])
     \/ UNCHANGED row
  /\ handler' = [pc |-> "idle", row |-> Fresh]
  /\ UNCHANGED <<agent, entry, loop, bounds, respawns>>

-----------------------------------------------------------------------------
(***************************************************************************)
(* The reconciler: tasks in execution                                      *)
(***************************************************************************)

LoopAt(p) == loop.pc = p
LoopGoes(p) == loop' = [loop EXCEPT !.pc = p]
LoopForgets(p) == loop' = [pc |-> p, row |-> Fresh]
LoopEnds == LoopForgets("idle")

\* One task after the other, from a list by status.
LoopReads ==
  /\ LoopAt("idle") /\ EntryAt("reconciler", "idle")
  /\ row.status = "Executing"
  /\ loop' = [pc |-> "look", row |-> row]
  /\ UNCHANGED <<row, agent, entry, handler, bounds, respawns>>

\* reconcile_completed_execution: an agent at work is left alone (mutant: so is
\* one whose run is not over).
AtWorkByRun == run = "running"
AtWork == registered /\ run = "running"

\* The count is that of the row as listed (mutant: off by one).
ExhaustedLate(r) == r.retries > MaxRespawns
Exhausted(r) == r.retries >= MaxRespawns

LoopLeaves ==
  /\ LoopAt("look") /\ AtWork
  /\ LoopEnds
  /\ UNCHANGED <<row, agent, entry, handler, bounds, respawns>>

\* The run may be that of an earlier execution.
LoopReviews ==
  /\ LoopAt("look") /\ ~AtWork /\ run = "completed"
  /\ MoveFrom("Executing", [row EXCEPT !.status = "PendingReview"])
  /\ LoopEnds
  /\ UNCHANGED <<agent, entry, handler, bounds, respawns>>

\* Too long in execution, or no respawns left: no more retries, and Failed.
\* If the record cannot be written, Failed all the same.
LoopHalts ==
  /\ LoopAt("look") /\ ~AtWork
  /\ \/ WriteMetadata([loop.row EXCEPT !.recovery = Halted(@, "overtime")])
     \/ /\ run # "completed" /\ Exhausted(loop.row)
        /\ WriteMetadata([loop.row EXCEPT !.recovery = Halted(@, "none"),
                                          !.failedAt = "recent"])
     \/ UNCHANGED row
  /\ LoopForgets("fail")
  /\ UNCHANGED <<agent, entry, handler, bounds, respawns>>

LoopFails ==
  /\ LoopAt("fail")
  /\ MoveFrom("Executing", Failed(row))
  /\ LoopEnds
  /\ UNCHANGED <<agent, entry, handler, bounds, respawns>>

\* record_auto_retry_metadata; if that is impossible the task is given up.
LoopCounts ==
  /\ LoopAt("look") /\ ~AtWork /\ run # "completed"
  /\ ~Exhausted(loop.row)
  /\ \/ WriteRow([loop.row EXCEPT !.retries = @ + 1]) /\ LoopGoes("respawn")
     \/ UNCHANGED row /\ LoopForgets("fail")
  /\ UNCHANGED <<agent, entry, handler, bounds, respawns>>

\* apply_recovery_decision: clears the registry entry, writes the row (as it
\* was read, with a trigger origin) and runs the entry actions.  A process that
\* is alive after all is left alone, if it has a stdin.
LoopRespawns ==
  /\ LoopAt("respawn")
  /\ LoopEnds
  /\ \/ registered /\ UNCHANGED <<row, agent, entry, respawns>>
     \/ /\ registered' = FALSE
        /\ run' = IF registered THEN "failed" ELSE run
        /\ WriteRow(loop.row)
        /\ EntryGoes("reconciler", "git", loop.row)
        /\ respawns' = IF respawns > MaxRespawns THEN respawns ELSE respawns + 1
  /\ UNCHANGED <<handler, bounds>>

-----------------------------------------------------------------------------
(***************************************************************************)
(* The reconciler: failed tasks                                            *)
(***************************************************************************)

Budget(recovery) ==
  IF recovery.cause = "isolation" THEN MaxIsolation ELSE MaxRetries

\* (mutant: the flag is not looked at)
RetryingStill(recovery) == recovery.last = "retrying"
Retrying(recovery) == recovery.last = "retrying" /\ ~recovery.stop

\* A failure of long ago is passed over, and stays as it is.
Stale(r) == r.failedAt = "old"

\* git's message, the last event until a retry is recorded, may say that the
\* repository will not do (structural) or that the branch is lost (permanent).
MayBeHopeless(recovery) == recovery.cause = "isolation" /\ recovery.tries = 0

\* reconcile_failed_execution_task reads the row itself.
LoopChecks ==
  /\ LoopAt("idle") /\ EntryAt("reconciler", "idle")
  /\ row.status = "Failed" /\ ~Stale(row)
  /\ Retrying(row.recovery) /\ row.recovery.cause # "overtime"
  /\ LET exhausted == row.recovery.tries >= Budget(row.recovery) IN
     \/ /\ exhausted \/ MayBeHopeless(row.recovery)
        /\ WriteMetadata([row EXCEPT !.recovery = Halted(@, "none")])
        /\ LoopEnds
     \/ /\ ~exhausted /\ UNCHANGED row
        /\ loop' = [pc |-> "clean", row |-> row]
  /\ UNCHANGED <<agent, entry, handler, bounds, respawns>>

\* The worktree goes, and the row is written without it; one that was out of
\* reach is only tidied.  clear_execution_flat_metadata writes the metadata.
LoopCleans ==
  /\ LoopAt("clean")
  /\ LET cleared == [loop.row EXCEPT !.timeout = FALSE] IN
     IF loop.row.recovery.cause = "isolation" THEN WriteMetadata(cleared)
                                              ELSE WriteRow(cleared)
  /\ LoopGoes("record")
  /\ UNCHANGED <<agent, entry, handler, bounds, respawns>>

\* The attempt is counted in the row as it is now, after the cleanup.
LoopRecords ==
  /\ LoopAt("record")
  /\ WriteMetadata([row EXCEPT !.recovery.tries = @ + 1,
                               !.recovery.last = "retrying",
                               !.recovery.cause = loop.row.recovery.cause])
  /\ LoopForgets("retry")
  /\ UNCHANGED <<agent, entry, handler, bounds, respawns>>

LoopRetries ==
  /\ LoopAt("retry")
  /\ MoveFrom("Failed", [row EXCEPT !.status = "Ready"])
  /\ LoopEnds
  /\ UNCHANGED <<agent, entry, handler, bounds, respawns>>

-----------------------------------------------------------------------------
(***************************************************************************)
(* Restarts of the program, and the user                                   *)
(***************************************************************************)

\* The threshold has passed for every time stamp so far.
Aged(r) == [r EXCEPT !.failedAt = IF @ = "recent" THEN "old" ELSE @]

Breaks ==
  breaks < MaxBreaks /\ breaks' = breaks + 1 /\ UNCHANGED <<deaths, acts>>

\* Agents go with the program, which may be closed for a day.  It enters a task
\* in execution again, and looks at failed tasks once before the loop does
\* (recover_timeout_failures).
Crash ==
  /\ Breaks
  /\ registered' = FALSE
  /\ run' = IF run = "running" THEN "failed" ELSE run
  /\ handler' = [pc |-> "idle", row |-> Fresh]
  /\ \E r \in {row, Aged(row)} :
       \/ row' = r
       \/ row.status = "Executing" /\ row' = [r EXCEPT !.timeout = FALSE]
  /\ entry' = [e \in Enterer |->
       IF e = "mover" /\ row.status = "Executing"
         THEN [pc |-> "git", row |-> row'] ELSE [pc |-> "idle", row |-> Fresh]]
  /\ loop' = IF row.status = "Failed" THEN [pc |-> "startup", row |-> row']
             ELSE [pc |-> "idle", row |-> Fresh]
  /\ UNCHANGED respawns

\* The program is paused, or a task executes, for as long.
Ages ==
  /\ Breaks
  /\ row' = Aged(row)
  /\ entry' = [e \in Enterer |-> [entry[e] EXCEPT !.row = Aged(@)]]
  /\ handler' = [handler EXCEPT !.row = Aged(@)]
  /\ loop' = [loop EXCEPT !.row = Aged(@)]
  /\ UNCHANGED <<agent, respawns>>

\* One that is marked as a timeout is taken up whatever its record says.
Attempts(r) ==
  IF r.recovery.cause = "isolation" \/ Retrying(r.recovery)
    THEN r.recovery.tries ELSE r.retries

Eligible(r) == (r.timeout \/ Retrying(r.recovery)) /\ ~Stale(r)
Recoverable(r) == Eligible(r) /\ Attempts(r) < Budget(r.recovery)

StartupRecovers ==
  /\ LoopAt("startup") /\ Recoverable(loop.row)
  /\ WriteMetadata([loop.row EXCEPT
       !.recovery.tries = @ + 1, !.recovery.last = "retrying",
       !.recovery.cause = IF @ = "isolation" THEN @ ELSE "crash"])
  /\ LoopForgets("retry")
  /\ UNCHANGED <<agent, entry, handler, bounds, respawns>>

\* A record without events: the task is executed as if for the first time.
Emptied == [NoRecovery EXCEPT !.last = "retrying"]

\* auto_recover_task, where the branch is lost.  Its own count is in the record
\* that each isolation error replaces, so that its limit is not reached.
StartupStartsOver ==
  /\ LoopAt("startup") /\ Eligible(loop.row)
  /\ MayBeHopeless(loop.row.recovery)
  /\ WriteRow([loop.row EXCEPT !.recovery = Emptied])
  /\ LoopForgets("retry")
  /\ UNCHANGED <<agent, entry, handler, bounds, respawns>>

StartupSkips ==
  /\ LoopAt("startup") /\ ~Recoverable(loop.row)
  /\ LoopEnds
  /\ UNCHANGED <<row, agent, entry, handler, bounds, respawns>>

UserStops ==
  /\ Acts /\ row.status = "Executing"
  /\ WriteRow([row EXCEPT !.status = "Stopped"])
  /\ registered' = FALSE
  /\ run' = IF registered THEN "failed" ELSE run
  /\ UNCHANGED <<entry, handler, loop, respawns>>

\* move_task to Ready gives a new budget.
UserRestarts ==
  /\ Acts /\ row.status \in {"Failed", "Stopped"}
  /\ WriteRow([row EXCEPT
       !.status = "Ready",
       !.recovery = IF @.last = "none" THEN @ ELSE Emptied])
  /\ UNCHANGED <<agent, entry, handler, loop, respawns>>

UserEndsRetries ==
  /\ Acts /\ row.status = "Failed"
  /\ WriteMetadata([row EXCEPT !.recovery = Halted(@, "none")])
  /\ UNCHANGED <<agent, entry, handler, loop, respawns>>

-----------------------------------------------------------------------------
Enters(e) ==
  Prepared(e) \/ Blocked(e) \/ RecordIsolation(e) \/ Spawn(e)

Handles == HandlerReads \/ HandlerWrites \/ HandlerFails

Loops ==
  \/ LoopReads \/ LoopLeaves \/ LoopReviews \/ LoopHalts \/ LoopFails
  \/ LoopCounts \/ LoopRespawns
  \/ LoopChecks \/ LoopCleans \/ LoopRecords \/ LoopRetries
  \/ StartupRecovers \/ StartupStartsOver \/ StartupSkips

Next ==
  \/ Begin \/ \E e \in Enterer : Enters(e)
  \/ Complete \/ Die \/ Fail \/ Handles
  \/ Loops
  \/ Crash
  \/ UserStops \/ UserRestarts \/ UserEndsRetries
  \/ Ages

Spec == Init /\ [][Next]_vars

\* Entry actions and handlers are tasks of the runtime; the reconciler comes by
\* every 30 seconds.
FairSpec ==
  /\ Spec
  /\ \A e \in Enterer : WF_vars(Enters(e))
  /\ WF_vars(Handles) /\ WF_vars(Loops)

-----------------------------------------------------------------------------
(***************************************************************************)
(* Properties                                                              *)
(***************************************************************************)

Rows ==
  [status : Status, timeout : BOOLEAN, retries : 0 .. MaxRespawns,
   failedAt : {"never", "recent", "old"},
   recovery : [last : {"none", "retrying", "failed"}, stop : BOOLEAN,
               tries : Nat, cause : Causes]]

\* Type correctness, with the stored count of new agents within its budget
\* (auto_retry_count_executing against executing_max_retries).
TypeOK ==
  /\ row \in Rows /\ run \in {"none", "running", "completed", "failed"}
  /\ registered \in BOOLEAN
  /\ entry \in [Enterer -> [pc : {"idle", "git", "isolated", "spawn"},
                            row : Rows]]
  /\ handler \in [pc : {"idle", "read", "write", "fail"}, row : Rows]
  /\ loop \in [pc : {"idle", "look", "fail", "respawn",
                     "clean", "record", "retry", "startup"},
               row : Rows]
  /\ registered => run = "running"
  /\ deaths \in 0 .. MaxDeaths /\ acts \in 0 .. MaxActs
  /\ breaks \in 0 .. MaxBreaks /\ respawns \in 0 .. MaxRespawns + 1

\* E7: no more new agents for one execution than executing_max_retries.  The
\* row written in apply_recovery_decision is the one listed, without the count
\* that was stored just before.
RespawnsAreBounded == respawns <= MaxRespawns

\* Whoever read the row before retries were stopped may still write it back.
GivenUp == row.status = "Failed" /\ row.recovery.stop

NobodyHoldsRow ==
  /\ handler.pc \in {"idle", "read"}
  /\ \/ loop.pc = "idle"
     \/ loop.pc = "startup" /\ loop.row = row
  /\ \A e \in Enterer : entry[e].pc \notin {"git", "isolated"}

\* And so it stays, from step to step.
LeftAlone == (GivenUp /\ NobodyHoldsRow)' /\ row'.timeout = row.timeout

\* stop_retrying is for good: neither the reconciler, nor a restart, nor an
\* agent that ends late takes the task up again, unless the user does.
GivenUpIsLeftAlone ==
  [][GivenUp /\ NobodyHoldsRow /\ ~row.timeout
       => (LeftAlone \/ acts' # acts)]_vars

\* The same of a task that failed by a timeout: recover_timeout_failures takes
\* the mark is_timeout for a failure of the time before stop_retrying.
TimeoutGivenUpIsLeftAlone ==
  [][GivenUp /\ NobodyHoldsRow
       => (LeftAlone \/ acts' # acts)]_vars

\* A task in execution without an agent does not stay so: it is given a new one
\* or leaves its status, whatever was stored of its last run.
DeathIsNoticed ==
  (row.status = "Executing" /\ ~registered) ~>
    (row.status # "Executing" \/ registered)

\* A failed task that waits for a retry gets it, or is given up, unless its
\* first failure is, or comes to be, older than recovery_staleness_secs.
FailedIsSettled ==
  (row.status = "Failed" /\ row.recovery.last = "retrying"
     /\ ~Stale(row)) ~>
    (row.status # "Failed" \/ row.recovery.stop
       \/ Stale(row))

\* The same without exception.  It fails: a task whose first failure was long
\* ago stays as it is, waiting for a retry, and is not said to be given up.
OldFailureIsSettled ==
  (row.status = "Failed" /\ row.recovery.last = "retrying") ~>
    (row.status # "Failed" \/ row.recovery.stop)
=============================================================================
