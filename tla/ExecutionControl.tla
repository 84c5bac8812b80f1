-------------------------- MODULE ExecutionControl --------------------------
(***************************************************************************)
(* Pause, resume and stop of the whole execution or of one task, by the    *)
(* user or by an error of the model's provider, the reconciler that brings *)
(* back what the provider interrupted, and the restart of the program at   *)
(* any point.                                                              *)
(*                                                                         *)
(* A halt is three things that change one after the other: a flag in       *)
(* memory, a mode in the database, and the status of every task an agent   *)
(* works on.  A paused task remembers where it was twice: in its metadata  *)
(* (pause_reason) and in its status history.                               *)
(***************************************************************************)
EXTENDS TaskStatus, Integers, FiniteSets

CONSTANTS
  Task,
  Initial,            \* statuses a task may start in
  Outcomes,           \* statuses an agent may report
  MaxConcurrent,      \* agents at work at once
  MaxResumeAttempts,  \* max_resume_attempts
  ReadFails,          \* startup may fail to read its settings
  MaxCommands,        \* bound: how many halts and resumes are begun
  MaxRestarts         \* bound: how often the program ends and is started again

ASSUME TaskAssumption == IsFiniteSet(Task)
ASSUME StatusAssumption == Initial \subseteq Status /\ Outcomes \subseteq Status
ASSUME BoundAssumption ==
  /\ MaxConcurrent \in Nat /\ MaxResumeAttempts \in Nat
  /\ MaxCommands \in Nat /\ MaxRestarts \in Nat /\ ReadFails \in BOOLEAN

VARIABLES
  row,      \* Task -> what its row holds: status and pause_reason
  from,     \* Task -> the status it left at its last recorded pause
  flag,     \* ExecutionState: paused
  halt,     \* execution_halt_mode, in the database
  working,  \* tasks an agent works on
  queued,   \* tasks with a start prompt in the message queue, in memory
  moving,   \* tasks whose last transition is to go on by itself
  op,       \* Caller -> the command it is in the middle of
  rec,      \* the reconciler's handling of a paused task
  up,       \* the program runs, and startup has read its settings
  begun,    \* commands begun so far
  restarts, \* restarts so far
  held      \* history: the user halted the execution and has not resumed it

tasks == <<row, from>>
agents == <<working, queued, moving>>
program == <<up, begun, restarts>>
vars == <<row, from, flag, halt, working, queued, moving, op, rec, up,
          begun, restarts, held>>

\* The user's commands come one after the other; a provider error pauses
\* everything from the handler of the stream that met it; startup recovers the
\* tasks it finds at work.
Caller == {"user", "provider", "startup"}

None == "none"
PauseReason == [kind : {None} \cup Caller, prev : Status \cup {None},
                attempts : 0 .. MaxResumeAttempts]
NoReason == [kind |-> None, prev |-> None, attempts |-> 0]
Rows == [status : Status, reason : PauseReason]

Points == {"idle", "flag", "persist", "kill", "list", "each", "move", "enter",
           "queues", "start"}
Names == {None, "pause", "stop", "resume", "pause_task", "stop_task",
          "resume_task"}
Pauses == {"pause", "pause_task"}
Stops == {"stop", "stop_task"}

\* A command: which, where, the tasks it has still to visit, the rows it
\* listed, the task in hand and how many it restored.
Ops == [name : Names, pc : Points, todo : SUBSET Task, rows : [Task -> Rows],
        at : Task \cup {None}, restored : 0 .. Cardinality(Task)]

Blank == [t \in Task |-> [status |-> "Backlog", reason |-> NoReason]]
IdleOp == [name |-> None, pc |-> "idle", todo |-> {}, rows |-> Blank,
           at |-> None, restored |-> 0]
Recs == [pc : {"idle", "seen", "over", "fail", "counted", "clear"},
         at : Task \cup {None}, row : Rows]
IdleRec == [pc |-> "idle", at |-> None,
            row |-> [status |-> "Backlog", reason |-> NoReason]]

Init ==
  /\ row \in [Task -> {[status |-> s, reason |-> NoReason] : s \in Initial}]
  /\ from = [t \in Task |-> None]
  /\ flag = FALSE
  /\ halt = "Running"
  /\ working = {} /\ queued = {} /\ moving = {}
  /\ op = [c \in Caller |-> IdleOp]
  /\ rec = IdleRec
  /\ up = FALSE /\ begun = 0 /\ restarts = 0
  /\ held = FALSE

At(c, p) == up /\ op[c].pc = p
Run(c, name, p) == At(c, p) /\ op[c].name = name
Goes(c, p) == op' = [op EXCEPT ![c].pc = p]
Ends(c) == op' = [op EXCEPT ![c] = IdleOp]
\* t is in hand, or done with.
Takes(c, t, p, s) ==
  op' = [op EXCEPT ![c].pc = p, ![c].at = t, ![c].rows[t].status = s]
Visited(c, t) ==
  op' = [op EXCEPT ![c].todo = @ \ {t}, ![c].rows[t] = Blank[t]]
Leaves(c, done) ==
  LET t == op[c].at IN
  op' = [op EXCEPT ![c].todo = @ \ {t}, ![c].rows[t] = Blank[t],
                   ![c].pc = "each", ![c].at = None,
                   ![c].restored = @ + done]

Now(t) == row[t].status
Halts == {"pause", "stop"}
Halted(name) == IF name = "stop" THEN "Stopped" ELSE "Paused"

\* can_start_any_execution_context, without the flag.
HasRoom == Cardinality(working) < MaxConcurrent

-----------------------------------------------------------------------------
(***************************************************************************)
(* Entry actions, as far as they launch an agent                           *)
(***************************************************************************)

\* The row of t becomes r and the entry actions of s run.  While the execution
\* is halted the start prompt is queued in memory; it is also queued when an
\* agent is there already.  A launch for which there is no room fails, and
\* with it the execution of the task.
Entered(t, r, s) ==
  LET active == s \in SlotHolding
      waits == flag \/ t \in working
      fails == active /\ ~waits /\ ~HasRoom
  IN
  /\ row' = [row EXCEPT ![t] =
               IF fails /\ r.status = s /\ s \in {"Executing", "ReExecuting"}
                 THEN [r EXCEPT !.status = "Failed"] ELSE r]
  /\ queued' = IF active /\ waits THEN queued \cup {t} ELSE queued
  /\ working' = IF active /\ ~waits /\ HasRoom THEN working \cup {t}
                                               ELSE working
  /\ moving' = IF s \in DOMAIN AutoTransition THEN moving \cup {t}
                                              ELSE moving \ {t}

EntersStatus(t, s) == Entered(t, [row[t] EXCEPT !.status = s], s)

-----------------------------------------------------------------------------
(***************************************************************************)
(* Pause and stop                                                          *)
(***************************************************************************)

Begin(c, name, p) ==
  /\ At(c, "idle") /\ begun < MaxCommands
  /\ op' = [op EXCEPT ![c] = [IdleOp EXCEPT !.name = name, !.pc = p]]
  /\ begun' = begun + 1
  /\ UNCHANGED <<tasks, flag, halt, rec, up, restarts>>

UserHalts ==
  /\ \E name \in Halts : Begin("user", name, "flag")
  /\ UNCHANGED <<agents, held>>

\* The provider refuses an agent at work: its stream ends with an error.
ProviderHalts ==
  /\ \E t \in working : working' = working \ {t}
  /\ Begin("provider", "pause", "flag")
  /\ UNCHANGED <<queued, moving, held>>

SetFlag(c) ==
  /\ At(c, "flag")
  /\ flag' = TRUE
  /\ Goes(c, "persist")
  /\ UNCHANGED <<tasks, halt, agents, rec, program, held>>

PersistHalt(c) ==
  /\ op[c].name \in Halts /\ At(c, "persist")
  /\ halt' = Halted(op[c].name)
  /\ Goes(c, "kill")
  /\ UNCHANGED <<tasks, flag, agents, rec, program, held>>

\* Mutant: a failed write does not end the user's command.
PersistFailsSilently(c) ==
  /\ At(c, "persist")
  /\ Goes(c, "kill")
  /\ UNCHANGED <<tasks, flag, halt, agents, rec, program, held>>

\* The write fails: the user's command returns an error, the flag stays set.
\* The handler of a provider error goes on.
PersistFails(c) ==
  /\ At(c, "persist")
  /\ IF c = "user" THEN Ends(c) ELSE Goes(c, "kill")
  /\ UNCHANGED <<tasks, flag, halt, agents, rec, program, held>>

Listed(name) ==
  IF name = "resume" THEN {t \in Task : Now(t) = "Paused"}
                     ELSE {t \in Task : Now(t) \in AgentActive}

\* The rows of the tasks to visit are read once, before the first is visited.
ListTasks(c) ==
  LET ts == Listed(op[c].name) IN
  op' = [op EXCEPT ![c].pc = "each", ![c].todo = ts,
                   ![c].rows = [t \in Task |-> IF t \in ts THEN row[t]
                                                         ELSE Blank[t]]]

\* stop_all kills the agents; a stop also empties the message queue.
KillAgents(c) ==
  /\ At(c, "kill")
  /\ working' = {}
  /\ queued' = IF op[c].name = "stop" THEN {} ELSE queued
  /\ ListTasks(c)
  /\ UNCHANGED <<tasks, flag, halt, moving, rec, program, held>>

List(c) ==
  /\ At(c, "list")
  /\ ListTasks(c)
  /\ UNCHANGED <<tasks, flag, halt, agents, rec, program, held>>

\* The tasks, or the projects, cannot be read.
ListFails(c) ==
  /\ At(c, "kill") \/ At(c, "list")
  /\ working' = IF op[c].pc = "kill" THEN {} ELSE working
  /\ queued' = IF op[c].name = "stop" THEN {} ELSE queued
  /\ Ends(c)
  /\ UNCHANGED <<tasks, flag, halt, moving, rec, program, held>>

\* pause_reason is stored with the whole row as listed, status included.
Mark(c, t) ==
  /\ op[c].name \in Pauses /\ At(c, "each") /\ t \in op[c].todo
  /\ LET s == op[c].rows[t].status IN
       /\ row' = [row EXCEPT ![t] =
                    [status |-> s,
                     reason |-> [kind |-> c, prev |-> s, attempts |-> 0]]]
       /\ Takes(c, t, "move", s)
  /\ UNCHANGED <<from, flag, halt, agents, rec, program, held>>

\* transition_task to Paused or Stopped; an illegal move is logged.
Halt(t, target) ==
  IF CanTransition(Now(t), target)
    THEN /\ row' = [row EXCEPT ![t].status = target]
         /\ from' = IF target = "Paused" THEN [from EXCEPT ![t] = Now(t)]
                                         ELSE from
    ELSE UNCHANGED tasks

MovePaused(c) ==
  /\ At(c, "move")
  /\ Halt(op[c].at, "Paused")
  /\ Leaves(c, 0)
  /\ UNCHANGED <<flag, halt, agents, rec, program, held>>

MoveStopped(c, t) ==
  /\ op[c].name \in Stops /\ At(c, "each") /\ t \in op[c].todo
  /\ Halt(t, "Stopped")
  /\ Visited(c, t)
  /\ UNCHANGED <<flag, halt, agents, rec, program, held>>

HaltDone(c) ==
  /\ op[c].name \in Halts /\ At(c, "each") /\ op[c].todo = {}
  /\ Ends(c)
  /\ held' = (held \/ c = "user")
  /\ UNCHANGED <<tasks, flag, halt, agents, rec, program>>

\* The command for one task reads its row and leaves the agent alone.
UserHaltsTask(t) ==
  /\ At("user", "idle") /\ begun < MaxCommands
  /\ \E name \in {"pause_task", "stop_task"} :
       op' = [op EXCEPT !["user"] =
                [IdleOp EXCEPT !.name = name, !.pc = "each", !.todo = {t},
                               !.rows[t] = row[t]]]
  /\ begun' = begun + 1
  /\ UNCHANGED <<tasks, flag, halt, agents, rec, up, restarts, held>>

TaskDone ==
  /\ op["user"].name \in {"pause_task", "stop_task", "resume_task"}
  /\ At("user", "each") /\ op["user"].todo = {}
  /\ Ends("user")
  /\ UNCHANGED <<tasks, flag, halt, agents, rec, program, held>>

-----------------------------------------------------------------------------
(***************************************************************************)
(* Resume                                                                  *)
(***************************************************************************)

UserResumes ==
  /\ Begin("user", "resume", "persist")
  /\ held' = FALSE
  /\ UNCHANGED agents

PersistRun(c) ==
  /\ Run(c, "resume", "persist")
  /\ halt' = "Running"
  /\ Goes(c, "list")
  /\ UNCHANGED <<tasks, flag, agents, rec, program, held>>

\* determine_paused_restore_status: the reason as listed, else the history.
RestoreStatus(c, t) ==
  LET reason == op[c].rows[t].reason IN
  IF reason.kind = None THEN from[t] ELSE reason.prev

RoomToRestore(c) == Cardinality(working) + op[c].restored < MaxConcurrent

Restorable(c, t) == RestoreStatus(c, t) \in AgentActive

\* A task that cannot be restored is passed over ...
SkipRestore(c, t) ==
  /\ Run(c, "resume", "each") /\ t \in op[c].todo
  /\ LET s == RestoreStatus(c, t) IN
       \/ ~Restorable(c, t)
       \/ RoomToRestore(c) /\ Now(t) # s /\ ~CanTransition(Now(t), s)
  /\ Visited(c, t)
  /\ UNCHANGED <<tasks, flag, halt, agents, rec, program, held>>

\* ... and the first for which there is no room ends the loop.
StopRestoring(c, t) ==
  /\ Run(c, "resume", "each") /\ t \in op[c].todo
  /\ Restorable(c, t) /\ ~RoomToRestore(c)
  /\ op' = [op EXCEPT ![c].todo = {}, ![c].rows = Blank]
  /\ UNCHANGED <<tasks, flag, halt, agents, rec, program, held>>

\* transition_task runs the entry actions; none if the status is the same.
Restore(c, t) ==
  LET s == RestoreStatus(c, t) IN
  /\ Run(c, "resume", "each") /\ t \in op[c].todo
  /\ Restorable(c, t) /\ RoomToRestore(c)
  /\ \/ Now(t) = s /\ UNCHANGED <<row, agents>>
     \/ CanTransition(Now(t), s) /\ EntersStatus(t, s)
  /\ Takes(c, t, "enter", s)
  /\ UNCHANGED <<from, flag, halt, rec, program, held>>

\* resume_task, for one paused task: refused while the execution is halted,
\* and if the move is illegal.  The status is not checked to be active.
UserResumesTask(t) ==
  LET s == IF row[t].reason.kind = None THEN from[t] ELSE row[t].reason.prev
  IN
  /\ At("user", "idle") /\ begun < MaxCommands
  /\ Now(t) = "Paused" /\ ~flag /\ HasRoom
  /\ \/ s = "Paused" /\ UNCHANGED <<row, agents>>
     \/ CanTransition("Paused", s) /\ EntersStatus(t, s)
  /\ op' = [op EXCEPT !["user"] = [IdleOp EXCEPT !.name = "resume_task",
                                                !.pc = "enter", !.at = t,
                                                !.rows[t].status = s]]
  /\ begun' = begun + 1
  /\ UNCHANGED <<from, flag, halt, rec, up, restarts, held>>

\* The reason is cleared and the entry actions of the restored status run once
\* more, wherever the task is by then.
EnterAgain(c) ==
  LET t == op[c].at IN
  /\ At(c, "enter")
  /\ Entered(t, [row[t] EXCEPT !.reason = NoReason], op[c].rows[t].status)
  /\ Leaves(c, 1)
  /\ UNCHANGED <<from, flag, halt, rec, program, held>>

Unflag(c) ==
  /\ Run(c, "resume", "each") /\ op[c].todo = {}
  /\ flag' = FALSE
  /\ op' = [op EXCEPT ![c].pc = "queues", ![c].todo = queued]
  /\ UNCHANGED <<tasks, halt, agents, rec, program, held>>

\* resume_paused_slot_consuming_queues: a prompt whose task is still where an
\* agent works is sent, if there is room; the others stay in the queue.
Relaunch(c, t) ==
  /\ At(c, "queues") /\ t \in op[c].todo
  /\ IF /\ t \in queued /\ t \notin working /\ ~flag /\ HasRoom
        /\ Now(t) \in SlotHolding
       THEN working' = working \cup {t} /\ queued' = queued \ {t}
       ELSE UNCHANGED <<working, queued>>
  /\ Visited(c, t)
  /\ UNCHANGED <<tasks, flag, halt, moving, rec, program, held>>

ResumeDone(c) ==
  /\ At(c, "queues") /\ op[c].todo = {}
  /\ Ends(c)
  /\ UNCHANGED <<tasks, flag, halt, agents, rec, program, held>>

-----------------------------------------------------------------------------
(***************************************************************************)
(* The tasks go on                                                         *)
(***************************************************************************)

\* An agent reports and its process ends.  Prompts that waited for it are
\* answered or dropped at the end of its stream, unless execution is halted.
Report(t) ==
  /\ up /\ t \in working
  /\ \E s \in Outcomes :
       IF CanTransition(Now(t), s)
         THEN /\ row' = [row EXCEPT ![t].status = s]
              /\ moving' = IF s \in DOMAIN AutoTransition
                             THEN moving \cup {t} ELSE moving
         ELSE UNCHANGED <<row, moving>>
  /\ working' = working \ {t}
  /\ queued' = IF flag THEN queued ELSE queued \ {t}
  /\ UNCHANGED <<from, flag, halt, op, rec, program, held>>

\* The transition of an automatic status goes on to the next one.
GoesOn(t) ==
  /\ up /\ t \in moving
  /\ IF Now(t) \in DOMAIN AutoTransition
       THEN EntersStatus(t, AutoTransition[Now(t)])
       ELSE moving' = moving \ {t} /\ UNCHANGED <<row, working, queued>>
  /\ UNCHANGED <<from, flag, halt, op, rec, program, held>>

\* The programmatic merge of a task that waits for it.
Merge(t) ==
  /\ up /\ Now(t) = "PendingMerge"
  /\ \E s \in {"Merged", "Merging"} : EntersStatus(t, s)
  /\ UNCHANGED <<from, flag, halt, op, rec, program, held>>

-----------------------------------------------------------------------------
(***************************************************************************)
(* The reconciler, which begins when the startup is over and does nothing  *)
(* to tasks while the flag is set                                          *)
(***************************************************************************)

RecLooks == up /\ rec.pc = "idle" /\ ~flag /\ op["startup"].pc = "idle"

RecGoes(p) == rec' = [rec EXCEPT !.pc = p]

\* It lists a task that a provider error paused, and finds that retry_after
\* has passed and that there is room ...
Sees(t, p) ==
  /\ RecLooks
  /\ Now(t) = "Paused" /\ row[t].reason.kind = "provider"
  /\ rec' = [pc |-> p, at |-> t, row |-> row[t]]
  /\ UNCHANGED <<tasks, flag, halt, agents, op, program, held>>

\* Mutant: nobody looks at the number of attempts.
SeePausedAlways(t) == HasRoom /\ Sees(t, "seen")

SeePaused(t) ==
  /\ row[t].reason.attempts < MaxResumeAttempts /\ HasRoom
  /\ Sees(t, "seen")

\* ... or that it has been resumed too often.
SeeTired(t) ==
  /\ row[t].reason.attempts >= MaxResumeAttempts
  /\ Sees(t, "over")

\* The attempt is counted in the row as listed.
CountAttempt ==
  /\ up /\ rec.pc = "seen"
  /\ row' = [row EXCEPT ![rec.at] =
               [rec.row EXCEPT !.reason.attempts = @ + 1]]
  /\ RecGoes("counted")
  /\ UNCHANGED <<from, flag, halt, agents, op, program, held>>

\* The statuses the reconciler knows how to resume; any other is taken for
\* Executing.
ResumeStatus(s) ==
  IF s \in {"Executing", "ReExecuting", "QaRefining", "QaTesting", "Reviewing",
            "Merging"} THEN s ELSE "Executing"

ResumePaused ==
  LET t == rec.at
      s == ResumeStatus(rec.row.reason.prev)
  IN
  /\ up /\ rec.pc = "counted"
  /\ \/ /\ CanTransition(Now(t), s) /\ EntersStatus(t, s)
        /\ RecGoes("clear")
     \/ /\ Now(t) = s /\ RecGoes("clear")
        /\ UNCHANGED <<row, agents>>
     \/ /\ Now(t) # s /\ ~CanTransition(Now(t), s) /\ rec' = IdleRec
        /\ UNCHANGED <<row, agents>>
  /\ UNCHANGED <<from, flag, halt, op, program, held>>

ClearResumed ==
  /\ up /\ rec.pc = "clear"
  /\ row' = [row EXCEPT ![rec.at].reason = NoReason]
  /\ rec' = IdleRec
  /\ UNCHANGED <<from, flag, halt, agents, op, program, held>>

\* The reason is cleared, with the row as listed, and a
\* corrective transition fails the task.
GiveUp ==
  /\ up /\ rec.pc = "over"
  /\ row' = [row EXCEPT ![rec.at] = [rec.row EXCEPT !.reason = NoReason]]
  /\ RecGoes("fail")
  /\ UNCHANGED <<from, flag, halt, agents, op, program, held>>

FailTask ==
  /\ up /\ rec.pc = "fail"
  /\ row' = [row EXCEPT ![rec.at].status = "Failed"]
  /\ rec' = IdleRec
  /\ UNCHANGED <<from, flag, halt, agents, op, program, held>>

\* Mutant: only executions are entered again.
RespawnExecution(t) ==
  /\ RecLooks /\ HasRoom
  /\ Now(t) \in {"Executing", "ReExecuting"} /\ t \notin working
  /\ EntersStatus(t, Now(t))
  /\ UNCHANGED <<from, flag, halt, op, rec, program, held>>

\* A task in a status an agent works for, without one, is entered again.
Respawn(t) ==
  /\ RecLooks /\ HasRoom
  /\ Now(t) \in SlotHolding /\ t \notin working
  /\ EntersStatus(t, Now(t))
  /\ UNCHANGED <<from, flag, halt, op, rec, program, held>>

-----------------------------------------------------------------------------
(***************************************************************************)
(* The program ends, at any point, and starts again                        *)
(***************************************************************************)

Crash ==
  /\ up /\ restarts < MaxRestarts
  /\ up' = FALSE /\ restarts' = restarts + 1
  /\ flag' = FALSE
  /\ working' = {} /\ queued' = {} /\ moving' = {}
  /\ op' = [c \in Caller |-> IdleOp]
  /\ rec' = IdleRec
  /\ UNCHANGED <<tasks, halt, begun, held>>

\* With the persisted halt put back as paused, the startup ends; otherwise the
\* tasks agents worked on, and those in automatic statuses, are entered again.
Starts(paused) ==
  /\ ~up
  /\ up' = TRUE
  /\ flag' = paused
  /\ op' = IF paused THEN op
           ELSE [op EXCEPT !["startup"] =
                   [IdleOp EXCEPT !.pc = "start", !.todo = Task]]
  /\ UNCHANGED <<tasks, halt, agents, rec, begun, restarts, held>>

\* Mutant: a stop does not outlive the program.
StartAfterPause == Starts(halt = "Paused")

Start == Starts(halt # "Running")

\* If the settings cannot be read, the defaults count: not halted, and no
\* active project, so that nothing is recovered.
StartBlind ==
  /\ ~up /\ ReadFails
  /\ up' = TRUE /\ flag' = FALSE
  /\ UNCHANGED <<tasks, halt, agents, op, rec, begun, restarts, held>>

\* The first task for which there is no room ends the startup.
StartTask(t) ==
  /\ At("startup", "start") /\ t \in op["startup"].todo
  /\ IF Now(t) \in AgentActive \cup DOMAIN AutoTransition
       THEN IF HasRoom /\ ~flag
              THEN EntersStatus(t, Now(t)) /\ Visited("startup", t)
              ELSE /\ op' = [op EXCEPT !["startup"].todo = {}]
                   /\ UNCHANGED <<row, agents>>
       ELSE Visited("startup", t) /\ UNCHANGED <<row, agents>>
  /\ UNCHANGED <<from, flag, halt, rec, program, held>>

StartDone ==
  /\ At("startup", "start") /\ op["startup"].todo = {}
  /\ Ends("startup")
  /\ UNCHANGED <<tasks, flag, halt, agents, rec, program, held>>

-----------------------------------------------------------------------------
\* A command in progress.
Proceed(c) ==
  \/ SetFlag(c) \/ PersistHalt(c) \/ PersistRun(c) \/ PersistFails(c)
  \/ KillAgents(c) \/ List(c) \/ ListFails(c)
  \/ MovePaused(c) \/ HaltDone(c)
  \/ EnterAgain(c) \/ Unflag(c) \/ ResumeDone(c)
  \/ \E t \in Task :
       \/ Mark(c, t) \/ MoveStopped(c, t)
       \/ SkipRestore(c, t) \/ StopRestoring(c, t) \/ Restore(c, t)
       \/ Relaunch(c, t)

Startup == Start \/ StartBlind \/ StartDone \/ \E t \in Task : StartTask(t)

Reconcile(t) ==
  rec.at = t /\ (\/ CountAttempt \/ ResumePaused \/ ClearResumed
                 \/ GiveUp \/ FailTask)

Next ==
  \/ UserHalts \/ UserResumes \/ ProviderHalts
  \/ \E c \in Caller : Proceed(c)
  \/ \E t \in Task : UserHaltsTask(t) \/ UserResumesTask(t)
  \/ TaskDone
  \/ \E t \in Task : Report(t) \/ GoesOn(t) \/ Merge(t)
  \/ \E t \in Task : \/ SeePaused(t) \/ SeeTired(t) \/ Reconcile(t)
                     \/ Respawn(t)
  \/ Startup \/ Crash

Spec == Init /\ [][Next]_vars

\* Commands, transitions and the startup are tasks of the runtime, the
\* reconciler is a loop of the program; agents come to an end.
FairSpec ==
  /\ Spec
  /\ \A c \in Caller : WF_vars(Proceed(c))
  /\ WF_vars(TaskDone) /\ WF_vars(Startup)
  /\ \A t \in Task :
       /\ WF_vars(Report(t)) /\ WF_vars(GoesOn(t))
       /\ WF_vars(Reconcile(t))
       /\ SF_vars(SeePaused(t)) /\ SF_vars(SeeTired(t)) /\ SF_vars(Respawn(t))

-----------------------------------------------------------------------------
(***************************************************************************)
(* Properties                                                              *)
(***************************************************************************)

\* The variables have their types.
TypeOK ==
  /\ row \in [Task -> Rows]
  /\ from \in [Task -> Status \cup {None}]
  /\ flag \in BOOLEAN /\ up \in BOOLEAN /\ held \in BOOLEAN
  /\ halt \in {"Running", "Paused", "Stopped"}
  /\ working \subseteq Task /\ queued \subseteq Task /\ moving \subseteq Task
  /\ op \in [Caller -> Ops]
  /\ rec \in Recs
  /\ begun \in 0 .. MaxCommands /\ restarts \in 0 .. MaxRestarts

\* Once the user's pause or stop is over, and until the user resumes, the
\* execution is halted: in the database at all times, in memory whenever the
\* program runs, whatever the provider does and however often the program is
\* started again.
HaltHolds == held => halt # "Running" /\ (up => flag)

\* What a halt promises: the switch of HaltSwitch, closed by the flag.
Switch == INSTANCE HaltSwitch WITH closed <- flag, stored <- halt

\* Pause, stop, resume, provider errors, failed writes and restarts change the
\* flag and the stored mode only as the switch allows: the user's halt is in
\* force only when both are set, and neither is reset before the user resumes.
HaltIsASwitch == Switch!Spec

\* A task left without an agent in a status agents work for, by a failed
\* launch, an error, a crash or a resume without room, gets one again (or
\* moves on) as long as the execution is not halted.
WorkGoesOn ==
  \A t \in Task :
    (up /\ Now(t) \in SlotHolding /\ t \notin working /\ ~flag) ~>
    (t \in working \/ Now(t) \notin SlotHolding \/ flag \/ ~up)

\* docs/user-guides/execution.md, on tasks paused by the provider: "Nothing --
\* RalphX automatically resumes when the rate limit clears."
ProviderPauseEnds ==
  \A t \in Task :
    (up /\ Now(t) = "Paused" /\ row[t].reason.kind = "provider") ~>
    (Now(t) # "Paused" \/ row[t].reason.kind # "provider" \/ held \/ ~up)

\* resume_execution: "This restores only Paused tasks (NOT Stopped) to their
\* previous agent-active state."  A task that leaves Paused goes where its
\* history says it was paused, or fails.
ResumesWherePaused ==
  [][\A t \in Task :
       Now(t) = "Paused" /\ row'[t].status # "Paused"
         => row'[t].status \in {from[t], "Failed"}]_vars
=============================================================================
