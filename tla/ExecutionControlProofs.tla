------------------------ MODULE ExecutionControlProofs ------------------------
(***************************************************************************)
(* Type correctness of ExecutionControl, and that the user's halt of the   *)
(* execution holds until the user resumes: as an invariant, and as the     *)
(* refinement of HaltSwitch.  For any tasks, limits and numbers of         *)
(* commands and restarts.                                                  *)
(***************************************************************************)
EXTENDS ExecutionControl, FiniteSetTheorems, TLAPS

-----------------------------------------------------------------------------
(***************************************************************************)
(* Type correctness.  A command counts the tasks it restored, and what it  *)
(* restored and what it has still to visit are together no more than all   *)
(* tasks; when it has a task in hand there is one.                         *)
(***************************************************************************)

Fits(o) ==
  /\ o.pc \in {"idle", "flag", "persist", "kill", "list", "start"}
       => o.restored = 0
  /\ o.pc \in {"each", "move", "enter"}
       => o.restored + Cardinality(o.todo) <= Cardinality(Task)
  /\ o.pc \in {"move", "enter"}
       => /\ o.at \in Task
          /\ o.at \notin o.todo => o.restored = 0 /\ o.todo = {}

\* The reconciler has a task in hand, and room for one more attempt when it is
\* about to count one.
RecFits ==
  /\ rec.pc # "idle" => rec.at \in Task
  /\ rec.pc = "seen" => rec.row.reason.attempts < MaxResumeAttempts

TypeInv == TypeOK /\ (\A c \in Caller : Fits(op[c])) /\ RecFits

\* The user's command, from the point where the flag and the mode are set; no
\* resume of the user is under way while the halt is in force; and nobody but
\* the user resumes.
HaltInv ==
  /\ HaltHolds
  /\ ~up => op["user"].pc = "idle"
  /\ op["user"].name \in Halts =>
       /\ op["user"].pc \notin {"idle", "flag"} => flag
       /\ op["user"].pc \notin {"idle", "flag", "persist"} => halt # "Running"
  /\ held => op["user"].name # "resume"
  /\ \A c \in Caller \ {"user"} : op[c].name # "resume"

-----------------------------------------------------------------------------
\* The sets of statuses the commands use hold statuses, and the state machine
\* leads from statuses to statuses.
LEMMA StatusFacts ==
  /\ AgentActive \subseteq Status /\ SlotHolding \subseteq Status
  /\ \A s \in Status : ValidTransitions[s] \subseteq Status
  /\ \A s \in DOMAIN AutoTransition : AutoTransition[s] \in Status
  /\ {"Backlog", "Paused", "Stopped", "Failed", "Executing", "Merged",
      "Merging"} \subseteq Status
  BY DEF AgentActive, SlotHolding, Status, ValidTransitions, AutoTransition

\* A status in, a row out; the reasons the program writes are reasons.
LEMMA RowFacts ==
  /\ NoReason \in PauseReason
  /\ Blank \in [Task -> Rows]
  /\ \A r \in Rows, s \in Status : [r EXCEPT !.status = s] \in Rows
  /\ \A r \in Rows, q \in PauseReason : [r EXCEPT !.reason = q] \in Rows
<1>1. NoReason \in PauseReason
  BY BoundAssumption DEF NoReason, PauseReason
<1>2. Blank \in [Task -> Rows]
  BY <1>1, StatusFacts DEF Blank, Rows
<1> QED
  BY <1>1, <1>2 DEF Rows

\* The tasks a command visits are finitely many.
LEMMA TodoFinite ==
  \A S \in SUBSET Task : /\ IsFiniteSet(S) /\ Cardinality(S) \in Nat
                         /\ Cardinality(S) <= Cardinality(Task)
  BY TaskAssumption, FS_Subset, FS_CardinalityType

\* The idle command and the idle reconciler are well formed.
LEMMA IdleFacts ==
  /\ IdleOp \in Ops /\ Fits(IdleOp)
  /\ IdleRec \in Recs
<1>1. Cardinality(Task) \in Nat
  BY TaskAssumption, FS_CardinalityType
<1>2. IdleOp \in Ops
  BY <1>1, RowFacts DEF IdleOp, Ops, Names, Points
<1>3. Fits(IdleOp)
  BY DEF IdleOp, Fits
<1>4. IdleRec \in Recs
  BY RowFacts, StatusFacts DEF IdleRec, Recs, Rows
<1> QED
  BY <1>2, <1>3, <1>4

\* A step that gives one command a well-formed value keeps all well formed.
LEMMA OpStep ==
  ASSUME TypeInv, NEW c \in Caller, NEW o \in Ops, Fits(o),
         op' = [op EXCEPT ![c] = o]
  PROVE  op' \in [Caller -> Ops] /\ \A d \in Caller : Fits(op'[d])
  BY DEF TypeInv, TypeOK

\* Entry actions write a row, the prompts in the queue, the agents at work and
\* the tasks that go on.
LEMMA EnteredType ==
  ASSUME TypeOK, NEW t \in Task, NEW r \in Rows, NEW s, Entered(t, r, s)
  PROVE  /\ row' \in [Task -> Rows]
         /\ queued' \subseteq Task /\ working' \subseteq Task
         /\ moving' \subseteq Task
<1>1. [r EXCEPT !.status = "Failed"] \in Rows
  BY RowFacts, StatusFacts
<1>2. row' \in [Task -> Rows]
  BY <1>1 DEF TypeOK, Entered
<1>3. /\ queued' \in {queued, queued \cup {t}}
      /\ working' \in {working, working \cup {t}}
      /\ moving' \in {moving \ {t}, moving \cup {t}}
  BY DEF Entered
<1> QED
  BY <1>2, <1>3 DEF TypeOK

\* Entering a status keeps the types of what it changes.
LEMMA EntersStatusType ==
  ASSUME TypeOK, NEW t \in Task, NEW s \in Status, EntersStatus(t, s)
  PROVE  /\ row' \in [Task -> Rows]
         /\ queued' \subseteq Task /\ working' \subseteq Task
         /\ moving' \subseteq Task
<1>1. [row[t] EXCEPT !.status = s] \in Rows
  BY RowFacts DEF TypeOK
<1> QED
  BY <1>1, EnteredType DEF EntersStatus

\* So it does with the other variables as they were or well typed.
LEMMA CommandStep ==
  ASSUME TypeInv, NEW c \in Caller, NEW o \in Ops, Fits(o),
         op' = [op EXCEPT ![c] = o],
         row' \in [Task -> Rows], from' \in [Task -> Status \cup {None}],
         flag' \in BOOLEAN, halt' \in {"Running", "Paused", "Stopped"},
         working' \subseteq Task, queued' \subseteq Task,
         moving' \subseteq Task, held' \in BOOLEAN,
         begun' \in 0 .. MaxCommands, UNCHANGED <<rec, up, restarts>>
  PROVE  TypeInv'
<1>1. op' \in [Caller -> Ops] /\ \A d \in Caller : Fits(op'[d])
  BY OpStep
<1>2. RecFits'
  BY DEF TypeInv, RecFits
<1> QED
  BY <1>1, <1>2 DEF TypeInv, TypeOK

\* A command that only goes on to its next point, with nothing restored yet.
LEMMA GoesFits ==
  ASSUME NEW o \in Ops, Fits(o), o.pc \in {"flag", "persist"},
         NEW p \in {"flag", "persist", "kill", "list"}
  PROVE  [o EXCEPT !.pc = p] \in Ops /\ Fits([o EXCEPT !.pc = p])
  BY DEF Ops, Fits, Points

\* Listing tasks.
LEMMA ListTasksFits ==
  ASSUME TypeInv, NEW c \in Caller, op[c].pc \in {"kill", "list"}, ListTasks(c)
  PROVE  \E o \in Ops : Fits(o) /\ op' = [op EXCEPT ![c] = o]
<1> DEFINE ts == Listed(op[c].name)
           rs == [t \in Task |-> IF t \in ts THEN row[t] ELSE Blank[t]]
           o == [op[c] EXCEPT !.pc = "each", !.todo = ts, !.rows = rs]
<1>1. op[c] \in Ops /\ Fits(op[c])
  BY DEF TypeInv, TypeOK
<1>2. op' = [op EXCEPT ![c] = o]
  BY DEF ListTasks
<1>3. ts \in SUBSET Task
  BY DEF Listed
<1>4. rs \in [Task -> Rows]
  BY RowFacts DEF TypeInv, TypeOK
<1>5. o \in Ops
  BY <1>1, <1>3, <1>4 DEF Ops, Points
<1>6. Fits(o)
  BY <1>1, <1>3, TodoFinite DEF Ops, Fits
<1> QED
  BY <1>2, <1>5, <1>6

\* A task that is passed over, or halted, is no longer to be visited.
LEMMA VisitedFits ==
  ASSUME TypeInv, NEW c \in Caller, NEW t \in Task,
         op[c].pc \in {"each", "queues", "start"}, Visited(c, t)
  PROVE  \E o \in Ops : Fits(o) /\ op' = [op EXCEPT ![c] = o]
<1> DEFINE o == [op[c] EXCEPT !.todo = @ \ {t}, !.rows[t] = Blank[t]]
<1>1. op[c] \in Ops /\ Fits(op[c])
  BY DEF TypeInv, TypeOK
<1>2. op' = [op EXCEPT ![c] = o]
  BY DEF Visited
<1>3. o \in Ops
  BY <1>1, RowFacts DEF Ops
<1>4. Cardinality(op[c].todo \ {t}) <= Cardinality(op[c].todo)
  BY <1>1, TodoFinite, FS_Subset DEF Ops
<1>5. Fits(o)
  <2>1. /\ Cardinality(op[c].todo) \in Nat /\ Cardinality(Task) \in Nat
        /\ Cardinality(op[c].todo \ {t}) \in Nat
    BY <1>1, TodoFinite DEF Ops
  <2> QED
    BY <1>1, <1>4, <2>1 DEF Ops, Fits
<1> QED
  BY <1>2, <1>3, <1>5

\* A task taken in hand is one of those to be visited.
LEMMA TakesFits ==
  ASSUME TypeInv, NEW c \in Caller, op[c].pc = "each",
         NEW t \in op[c].todo, NEW p \in {"move", "enter"},
         NEW s \in Status, Takes(c, t, p, s)
  PROVE  \E o \in Ops : Fits(o) /\ op' = [op EXCEPT ![c] = o]
<1> DEFINE o == [op[c] EXCEPT !.pc = p, !.at = t, !.rows[t].status = s]
<1>1. op[c] \in Ops /\ Fits(op[c]) /\ t \in Task
  BY DEF TypeInv, TypeOK, Ops
<1>2. op' = [op EXCEPT ![c] = o]
  BY DEF Takes
<1>3. [op[c].rows EXCEPT ![t].status = s] \in [Task -> Rows]
  BY <1>1, RowFacts DEF Ops
<1>4. o \in Ops
  BY <1>1, <1>3 DEF Ops, Points
<1>5. Fits(o)
  BY <1>1 DEF Ops, Fits
<1> QED
  BY <1>2, <1>4, <1>5

\* A command done with the task in hand has counted it at most once.
LEMMA LeavesFits ==
  ASSUME TypeInv, NEW c \in Caller, op[c].pc \in {"move", "enter"},
         NEW done \in {0, 1}, Leaves(c, done)
  PROVE  \E o \in Ops : Fits(o) /\ op' = [op EXCEPT ![c] = o]
<1> DEFINE t == op[c].at
           o == [op[c] EXCEPT !.todo = @ \ {t}, !.rows[t] = Blank[t],
                              !.pc = "each", !.at = None,
                              !.restored = @ + done]
<1>1. op[c] \in Ops /\ Fits(op[c])
  BY DEF TypeInv, TypeOK
<1>2. op' = [op EXCEPT ![c] = o]
  BY DEF Leaves
<1>3. /\ t \in Task /\ Cardinality(Task) \in Nat
      /\ Cardinality(op[c].todo) \in Nat
      /\ Cardinality(op[c].todo \ {t}) \in Nat
      /\ op[c].restored \in Nat
  BY <1>1, TodoFinite DEF Ops, Fits
<1>4. op[c].restored + done + Cardinality(op[c].todo \ {t})
        <= Cardinality(Task)
  <2>1. CASE t \in op[c].todo
    <3>1. Cardinality(op[c].todo \ {t}) = Cardinality(op[c].todo) - 1
      BY <1>1, <2>1, TodoFinite, FS_RemoveElement DEF Ops
    <3>2. op[c].restored + Cardinality(op[c].todo) <= Cardinality(Task)
      BY <1>1 DEF Fits
    <3> QED
      BY <1>3, <3>1, <3>2
  <2>2. CASE t \notin op[c].todo
    <3>1. op[c].restored = 0 /\ op[c].todo \ {t} = {}
      BY <1>1, <2>2 DEF Fits
    <3>2. Cardinality(Task) # 0
      BY <1>3, TaskAssumption, FS_EmptySet
    <3>3. Cardinality(op[c].todo \ {t}) = 0
      BY <3>1, FS_EmptySet
    <3> QED
      BY <1>3, <3>1, <3>2, <3>3
  <2> QED
    BY <2>1, <2>2
<1>5. o \in Ops
  <2>1. [op[c].rows EXCEPT ![t] = Blank[t]] \in [Task -> Rows]
    BY <1>1, <1>3, RowFacts DEF Ops
  <2>2. op[c].restored + done \in 0 .. Cardinality(Task)
    BY <1>3, <1>4
  <2> QED
    BY <1>1, <2>1, <2>2 DEF Ops, Points
<1>6. Fits(o)
  BY <1>1, <1>3, <1>4 DEF Ops, Fits
<1> QED
  BY <1>2, <1>5, <1>6

\* A step that leaves the commands and the reconciler alone.
LEMMA QuietStep ==
  ASSUME TypeInv,
         row' \in [Task -> Rows], working' \subseteq Task,
         queued' \subseteq Task, moving' \subseteq Task,
         UNCHANGED <<from, flag, halt, op, rec, program, held>>
  PROVE  TypeInv'
  BY DEF TypeInv, TypeOK, RecFits, program

\* Beginning a command.
LEMMA BeginType ==
  ASSUME TypeInv, NEW c \in Caller, NEW name \in Names,
         NEW p \in {"flag", "persist"}, Begin(c, name, p),
         working' \subseteq Task, UNCHANGED <<queued, moving>>,
         held' \in BOOLEAN
  PROVE  TypeInv'
<1> DEFINE o == [IdleOp EXCEPT !.name = name, !.pc = p]
<1>1. o \in Ops /\ Fits(o)
  <2>1. IdleOp \in Ops /\ IdleOp.restored = 0
    BY IdleFacts DEF IdleOp
  <2> QED
    BY <2>1 DEF Ops, Points, Fits
<1>2. op' = [op EXCEPT ![c] = o] /\ begun' \in 0 .. MaxCommands
  BY BoundAssumption DEF Begin, TypeInv, TypeOK
<1> QED
  BY <1>1, <1>2, CommandStep DEF Begin, TypeInv, TypeOK, tasks

\* The end of a command.
LEMMA EndsType ==
  ASSUME TypeInv, NEW c \in Caller, Ends(c), working' \subseteq Task,
         queued' \subseteq Task, held' \in BOOLEAN,
         UNCHANGED <<tasks, flag, halt, moving, rec, program>>
  PROVE  TypeInv'
<1>1. op' = [op EXCEPT ![c] = IdleOp]
  BY DEF Ends
<1> QED
  BY <1>1, IdleFacts, CommandStep DEF TypeInv, TypeOK, tasks, program

\* A pause or stop of everything, up to the list of tasks to visit.
LEMMA HaltBeginsType ==
  ASSUME TypeInv, NEW c \in Caller,
         \/ SetFlag(c) \/ PersistHalt(c) \/ PersistRun(c) \/ PersistFails(c)
  PROVE  TypeInv'
<1>1. op[c] \in Ops /\ Fits(op[c]) /\ op[c].pc \in {"flag", "persist"}
  BY DEF TypeInv, TypeOK, SetFlag, PersistHalt, PersistRun, PersistFails, At,
         Run
<1>2. CASE Ends(c)
  <2>1. UNCHANGED <<tasks, flag, halt, agents, rec, program, held>>
    <3>1. ~SetFlag(c) /\ ~PersistHalt(c) /\ ~PersistRun(c)
      BY <1>1, <1>2 DEF SetFlag, PersistHalt, PersistRun, Ends, Goes, IdleOp,
                        Ops, TypeInv, TypeOK
    <3> QED
      BY <3>1 DEF PersistFails
  <2> QED
    BY <1>2, <2>1, EndsType DEF TypeInv, TypeOK, agents
<1>3. CASE \E p \in {"persist", "kill", "list"} : Goes(c, p)
  <2>1. PICK p \in {"persist", "kill", "list"} : Goes(c, p)
    BY <1>3
  <2> DEFINE o == [op[c] EXCEPT !.pc = p]
  <2>2. op' = [op EXCEPT ![c] = o]
    BY <2>1 DEF Goes
  <2>3. o \in Ops /\ Fits(o)
    BY <1>1, GoesFits
  <2>4. /\ flag' \in BOOLEAN
        /\ halt' \in {"Running", "Paused", "Stopped"}
    BY DEF SetFlag, PersistHalt, PersistRun, PersistFails, Halted, TypeInv,
           TypeOK
  <2>5. UNCHANGED <<tasks, agents, rec, program, held>>
    BY DEF SetFlag, PersistHalt, PersistRun, PersistFails
  <2> QED
    BY <2>2, <2>3, <2>4, <2>5, CommandStep
       DEF TypeInv, TypeOK, tasks, agents, program
<1> QED
  BY <1>2, <1>3 DEF SetFlag, PersistHalt, PersistRun, PersistFails

\* Listing the tasks, or failing to.
LEMMA ListType ==
  ASSUME TypeInv, NEW c \in Caller, KillAgents(c) \/ List(c) \/ ListFails(c)
  PROVE  TypeInv'
<1>1. /\ working' \subseteq Task /\ queued' \subseteq Task
      /\ UNCHANGED <<tasks, flag, halt, moving, rec, program, held>>
  BY DEF KillAgents, List, ListFails, agents, TypeInv, TypeOK
<1>2. CASE ListFails(c)
  BY <1>1, <1>2, EndsType DEF ListFails, TypeInv, TypeOK
<1>3. CASE ListTasks(c) /\ op[c].pc \in {"kill", "list"}
  <2>1. PICK o \in Ops : Fits(o) /\ op' = [op EXCEPT ![c] = o]
    BY <1>3, ListTasksFits
  <2> QED
    BY <1>1, <2>1, CommandStep DEF TypeInv, TypeOK, tasks, program
<1> QED
  BY <1>2, <1>3 DEF KillAgents, List, At

\* Moving a task to Paused or Stopped.
LEMMA HaltType ==
  ASSUME TypeOK, NEW t \in Task, NEW s \in {"Paused", "Stopped"}, Halt(t, s)
  PROVE  row' \in [Task -> Rows] /\ from' \in [Task -> Status \cup {None}]
<1>1. s \in Status /\ Now(t) \in Status
  BY StatusFacts DEF TypeOK, Rows, Now
<1>2. [row[t] EXCEPT !.status = s] \in Rows
  BY <1>1, RowFacts DEF TypeOK
<1> QED
  BY <1>1, <1>2 DEF Halt, TypeOK, tasks

\* Pausing and stopping the tasks listed, one after the other.
LEMMA HaltTasksType ==
  ASSUME TypeInv, NEW c \in Caller,
         \/ MovePaused(c)
         \/ \E t \in Task : Mark(c, t) \/ MoveStopped(c, t)
  PROVE  TypeInv'
<1>1. op[c] \in Ops /\ Fits(op[c])
  BY DEF TypeInv, TypeOK
<1>2. CASE MovePaused(c)
  <2>1. op[c].at \in Task
    BY <1>1, <1>2 DEF MovePaused, At, Fits
  <2>2. row' \in [Task -> Rows] /\ from' \in [Task -> Status \cup {None}]
    BY <1>2, <2>1, HaltType DEF MovePaused, TypeInv
  <2>3. PICK o \in Ops : Fits(o) /\ op' = [op EXCEPT ![c] = o]
    BY <1>2, LeavesFits DEF MovePaused, At
  <2> QED
    BY <1>2, <2>2, <2>3, CommandStep
       DEF MovePaused, TypeInv, TypeOK, agents, program
<1>3. ASSUME NEW t \in Task, Mark(c, t)
      PROVE  TypeInv'
  <2> DEFINE s == op[c].rows[t].status
             q == [kind |-> c, prev |-> s, attempts |-> 0]
  <2>1. t \in op[c].todo /\ op[c].pc = "each" /\ s \in Status
    BY <1>1, <1>3 DEF Mark, At, Ops, Rows
  <2>2. row' \in [Task -> Rows]
    <3>1. [status |-> s, reason |-> q] \in Rows
      BY <2>1, BoundAssumption DEF Rows, PauseReason
    <3> QED
      BY <1>3, <3>1 DEF Mark, TypeInv, TypeOK
  <2>3. PICK o \in Ops : Fits(o) /\ op' = [op EXCEPT ![c] = o]
    BY <1>3, <2>1, TakesFits DEF Mark
  <2> QED
    BY <1>3, <2>2, <2>3, CommandStep
       DEF Mark, TypeInv, TypeOK, agents, program
<1>4. ASSUME NEW t \in Task, MoveStopped(c, t)
      PROVE  TypeInv'
  <2>1. row' \in [Task -> Rows] /\ from' \in [Task -> Status \cup {None}]
    BY <1>4, HaltType DEF MoveStopped, TypeInv
  <2>2. PICK o \in Ops : Fits(o) /\ op' = [op EXCEPT ![c] = o]
    BY <1>4, VisitedFits DEF MoveStopped, At
  <2> QED
    BY <1>4, <2>1, <2>2, CommandStep
       DEF MoveStopped, TypeInv, TypeOK, agents, program
<1> QED
  BY <1>2, <1>3, <1>4

\* The user's commands for one task.
LEMMA TaskCommandType ==
  ASSUME TypeInv, NEW t \in Task, UserHaltsTask(t) \/ UserResumesTask(t)
  PROVE  TypeInv'
<1>1. /\ row[t] \in Rows /\ IdleOp.rows \in [Task -> Rows]
      /\ IdleOp \in Ops /\ IdleOp.restored = 0 /\ IdleOp.todo = {}
      /\ begun < MaxCommands => begun + 1 \in 0 .. MaxCommands
  BY IdleFacts, RowFacts, BoundAssumption DEF IdleOp, TypeInv, TypeOK
<1>2. CASE UserHaltsTask(t)
  <2>1. PICK name \in {"pause_task", "stop_task"} :
          op' = [op EXCEPT !["user"] =
                   [IdleOp EXCEPT !.name = name, !.pc = "each", !.todo = {t},
                                  !.rows[t] = row[t]]]
    BY <1>2 DEF UserHaltsTask
  <2> DEFINE o == [IdleOp EXCEPT !.name = name, !.pc = "each", !.todo = {t},
                                 !.rows[t] = row[t]]
  <2>2. o \in Ops
    BY <1>1 DEF Ops, Names, Points
  <2>3. Fits(o)
    <3>1. Cardinality({t}) <= Cardinality(Task) /\ Cardinality({t}) \in Nat
      BY TodoFinite
    <3>2. o.pc = "each" /\ o.restored = 0 /\ o.todo = {t}
      BY <1>1 DEF Ops
    <3> QED
      BY <3>1, <3>2 DEF Fits
  <2> HIDE DEF o
  <2> QED
    BY <1>1, <1>2, <2>1, <2>2, <2>3, CommandStep
       DEF o, UserHaltsTask, TypeInv, TypeOK, tasks, agents, Caller
<1>3. CASE UserResumesTask(t)
  <2> DEFINE s == IF row[t].reason.kind = None THEN from[t]
                                               ELSE row[t].reason.prev
             o == [IdleOp EXCEPT !.name = "resume_task", !.pc = "enter",
                                 !.at = t, !.rows[t].status = s]
  <2>1. op' = [op EXCEPT !["user"] = o]
    BY <1>3 DEF UserResumesTask
  <2>2. s \in Status
    BY <1>3, StatusFacts DEF UserResumesTask, CanTransition
  <2>3. o \in Ops
    <3>1. [IdleOp.rows EXCEPT ![t].status = s] \in [Task -> Rows]
      BY <1>1, <2>2, RowFacts
    <3> QED
      BY <1>1, <3>1 DEF Ops, Names, Points
  <2>4. Fits(o)
    <3>1. Cardinality({}) = 0 /\ Cardinality(Task) \in Nat
      BY TodoFinite, FS_EmptySet
    <3>2. o.pc = "enter" /\ o.restored = 0 /\ o.todo = {} /\ o.at = t
      BY <1>1 DEF Ops
    <3> QED
      BY <3>1, <3>2 DEF Fits
  <2>5. /\ row' \in [Task -> Rows] /\ queued' \subseteq Task
        /\ working' \subseteq Task /\ moving' \subseteq Task
    BY <1>3, <2>2, EntersStatusType
       DEF UserResumesTask, TypeInv, TypeOK, agents
  <2> HIDE DEF o
  <2> QED
    BY <1>1, <1>3, <2>1, <2>3, <2>4, <2>5, CommandStep
       DEF UserResumesTask, TypeInv, TypeOK, Caller
<1> QED
  BY <1>2, <1>3

\* The resume: tasks passed over or taken in hand, and the prompts afterwards.
LEMMA ResumeStepType ==
  ASSUME TypeInv, NEW c \in Caller, NEW t \in Task,
         \/ SkipRestore(c, t) \/ StopRestoring(c, t) \/ Restore(c, t)
         \/ Relaunch(c, t)
  PROVE  TypeInv'
<1>1. op[c] \in Ops /\ Fits(op[c])
  BY DEF TypeInv, TypeOK
<1>2. CASE SkipRestore(c, t)
  <2>1. PICK o \in Ops : Fits(o) /\ op' = [op EXCEPT ![c] = o]
    BY <1>2, VisitedFits DEF SkipRestore, Run, At
  <2> QED
    BY <1>2, <2>1, CommandStep
       DEF SkipRestore, TypeInv, TypeOK, tasks, agents, program
<1>3. CASE StopRestoring(c, t)
  <2> DEFINE o == [op[c] EXCEPT !.todo = {}, !.rows = Blank]
  <2>1. op' = [op EXCEPT ![c] = o] /\ o \in Ops
    BY <1>1, <1>3, RowFacts DEF StopRestoring, Ops
  <2>2. Fits(o)
    <3>1. /\ Cardinality({}) = 0 /\ Cardinality(Task) \in Nat
          /\ op[c].restored \in 0 .. Cardinality(Task)
      BY <1>1, TodoFinite, FS_EmptySet DEF Ops
    <3>2. /\ o.pc = "each" /\ o.restored = op[c].restored /\ o.todo = {}
      BY <1>1, <1>3 DEF StopRestoring, Run, At, Ops
    <3> QED
      BY <3>1, <3>2 DEF Fits
  <2> QED
    BY <1>3, <2>1, <2>2, CommandStep
       DEF StopRestoring, TypeInv, TypeOK, tasks, agents, program
<1>4. CASE Restore(c, t)
  <2> DEFINE s == RestoreStatus(c, t)
  <2>1. s \in Status /\ t \in op[c].todo /\ op[c].pc = "each"
    BY <1>4, StatusFacts DEF Restore, Restorable, Run, At
  <2>2. /\ row' \in [Task -> Rows] /\ queued' \subseteq Task
        /\ working' \subseteq Task /\ moving' \subseteq Task
    BY <1>4, <2>1, EntersStatusType
       DEF Restore, TypeInv, TypeOK, agents
  <2>3. PICK o \in Ops : Fits(o) /\ op' = [op EXCEPT ![c] = o]
    BY <1>4, <2>1, TakesFits DEF Restore
  <2> QED
    BY <1>4, <2>2, <2>3, CommandStep
       DEF Restore, TypeInv, TypeOK, program
<1>5. CASE Relaunch(c, t)
  <2>1. PICK o \in Ops : Fits(o) /\ op' = [op EXCEPT ![c] = o]
    BY <1>5, VisitedFits DEF Relaunch, At
  <2>2. working' \subseteq Task /\ queued' \subseteq Task
    BY <1>5 DEF Relaunch, TypeInv, TypeOK
  <2> QED
    BY <1>5, <2>1, <2>2, CommandStep
       DEF Relaunch, TypeInv, TypeOK, tasks, program
<1> QED
  BY <1>2, <1>3, <1>4, <1>5

\* The entry actions of a restored task run once more, and the flag is reset.
LEMMA ResumeEndsType ==
  ASSUME TypeInv, NEW c \in Caller, EnterAgain(c) \/ Unflag(c)
  PROVE  TypeInv'
<1>1. op[c] \in Ops /\ Fits(op[c])
  BY DEF TypeInv, TypeOK
<1>2. CASE EnterAgain(c)
  <2> DEFINE t == op[c].at
             r == [row[t] EXCEPT !.reason = NoReason]
  <2>1. t \in Task /\ op[c].pc = "enter"
    BY <1>1, <1>2 DEF EnterAgain, At, Fits
  <2>2. r \in Rows
    BY <2>1, RowFacts DEF TypeInv, TypeOK
  <2>3. /\ row' \in [Task -> Rows] /\ queued' \subseteq Task
        /\ working' \subseteq Task /\ moving' \subseteq Task
    BY <1>2, <2>1, <2>2, EnteredType DEF EnterAgain, TypeInv
  <2>4. PICK o \in Ops : Fits(o) /\ op' = [op EXCEPT ![c] = o]
    BY <1>2, <2>1, LeavesFits DEF EnterAgain
  <2> QED
    BY <1>2, <2>3, <2>4, CommandStep
       DEF EnterAgain, TypeInv, TypeOK, program
<1>3. CASE Unflag(c)
  <2> DEFINE o == [op[c] EXCEPT !.pc = "queues", !.todo = queued]
  <2>1. op' = [op EXCEPT ![c] = o] /\ o \in Ops
    BY <1>1, <1>3 DEF Unflag, Ops, Points, TypeInv, TypeOK
  <2>2. Fits(o)
    BY <1>1 DEF Fits, Ops
  <2> QED
    BY <1>3, <2>1, <2>2, CommandStep
       DEF Unflag, TypeInv, TypeOK, tasks, agents, program
<1> QED
  BY <1>2, <1>3

\* Every command in progress.
LEMMA ProceedType ==
  ASSUME TypeInv, NEW c \in Caller, Proceed(c)
  PROVE  TypeInv'
<1>1. CASE HaltDone(c) \/ ResumeDone(c)
  BY <1>1, EndsType DEF HaltDone, ResumeDone, TypeInv, TypeOK, agents
<1> QED
  BY <1>1, HaltBeginsType, ListType, HaltTasksType, ResumeStepType,
     ResumeEndsType DEF Proceed

\* The tasks going on by themselves.
LEMMA TaskStepType ==
  ASSUME TypeInv, NEW t \in Task,
         Report(t) \/ GoesOn(t) \/ Merge(t) \/ Respawn(t)
  PROVE  TypeInv'
<1>1. Now(t) \in Status /\ row[t] \in Rows
  BY DEF TypeInv, TypeOK, Rows, Now
<1>2. CASE Report(t)
  <2>1. PICK s \in Outcomes :
          IF CanTransition(Now(t), s)
            THEN /\ row' = [row EXCEPT ![t].status = s]
                 /\ moving' = IF s \in DOMAIN AutoTransition
                                THEN moving \cup {t} ELSE moving
            ELSE UNCHANGED <<row, moving>>
    BY <1>2 DEF Report
  <2>2. [row[t] EXCEPT !.status = s] \in Rows
    BY <1>1, RowFacts, StatusAssumption
  <2>3. row' \in [Task -> Rows] /\ moving' \subseteq Task
    BY <2>1, <2>2 DEF TypeInv, TypeOK
  <2>4. working' \subseteq Task /\ queued' \subseteq Task
    BY <1>2 DEF Report, TypeInv, TypeOK
  <2> QED
    BY <1>2, <2>3, <2>4, QuietStep DEF Report
<1>3. CASE GoesOn(t)
  <2>1. /\ row' \in [Task -> Rows] /\ queued' \subseteq Task
        /\ working' \subseteq Task /\ moving' \subseteq Task
    <3>1. CASE Now(t) \in DOMAIN AutoTransition
      BY <1>3, <3>1, StatusFacts, EntersStatusType DEF GoesOn, TypeInv
    <3>2. CASE Now(t) \notin DOMAIN AutoTransition
      BY <1>3, <3>2 DEF GoesOn, TypeInv, TypeOK
    <3> QED
      BY <3>1, <3>2
  <2> QED
    BY <1>3, <2>1, QuietStep DEF GoesOn
<1>4. CASE Merge(t)
  <2>1. PICK s \in {"Merged", "Merging"} : EntersStatus(t, s)
    BY <1>4 DEF Merge
  <2>2. s \in Status
    BY StatusFacts
  <2> QED
    BY <1>4, <2>1, <2>2, EntersStatusType, QuietStep DEF Merge, TypeInv
<1>5. CASE Respawn(t)
  BY <1>1, <1>5, EntersStatusType, QuietStep DEF Respawn, TypeInv
<1> QED
  BY <1>2, <1>3, <1>4, <1>5

\* A step of the reconciler.
LEMMA RecStep ==
  ASSUME TypeInv, rec' \in Recs, RecFits',
         row' \in [Task -> Rows], working' \subseteq Task,
         queued' \subseteq Task, moving' \subseteq Task,
         UNCHANGED <<from, flag, halt, op, program, held>>
  PROVE  TypeInv'
  BY DEF TypeInv, TypeOK, program

\* It sees a paused task, and counts an attempt only while one is left.
LEMMA SeesType ==
  ASSUME TypeInv, NEW t \in Task, SeePaused(t) \/ SeeTired(t)
  PROVE  TypeInv'
<1>1. PICK p \in {"seen", "over"} :
        /\ Sees(t, p)
        /\ p = "seen" => row[t].reason.attempts < MaxResumeAttempts
  BY DEF SeePaused, SeeTired
<1>2. rec' = [pc |-> p, at |-> t, row |-> row[t]]
  BY <1>1 DEF Sees
<1>3. rec' \in Recs /\ RecFits'
  BY <1>1, <1>2 DEF Recs, RecFits, TypeInv, TypeOK
<1> QED
  BY <1>1, <1>3, RecStep DEF Sees, TypeInv, TypeOK, tasks, agents

\* The reconciler's steps keep the types.
LEMMA ReconcileType ==
  ASSUME TypeInv, NEW t \in Task, Reconcile(t)
  PROVE  TypeInv'
<1>1. /\ rec \in Recs /\ rec.at = t /\ rec.row \in Rows /\ row[t] \in Rows
      /\ IdleRec \in Recs /\ IdleRec.pc = "idle"
  BY IdleFacts DEF Reconcile, TypeInv, TypeOK, Recs, IdleRec
<1>2. ASSUME NEW p \in {"counted", "clear", "fail"}, RecGoes(p)
      PROVE  rec' \in Recs /\ RecFits'
  BY <1>1, <1>2 DEF RecGoes, Recs, RecFits
<1>3. ASSUME rec' = IdleRec
      PROVE  rec' \in Recs /\ RecFits'
  BY <1>1, <1>3 DEF RecFits
<1>4. CASE CountAttempt
  <2> DEFINE r == [rec.row EXCEPT !.reason.attempts = @ + 1]
  <2>1. rec.row.reason.attempts < MaxResumeAttempts
    BY <1>4 DEF CountAttempt, TypeInv, RecFits
  <2>2. rec.row.reason.attempts + 1 \in 0 .. MaxResumeAttempts
    BY <1>1, <2>1, BoundAssumption DEF Rows, PauseReason
  <2>3. r \in Rows
    BY <1>1, <2>2 DEF Rows, PauseReason
  <2>4. row' \in [Task -> Rows]
    BY <1>1, <1>4, <2>3 DEF CountAttempt, TypeInv, TypeOK
  <2> QED
    BY <1>2, <1>4, <2>4, RecStep DEF CountAttempt, TypeInv, TypeOK, agents
<1>5. CASE ResumePaused
  <2> DEFINE s == ResumeStatus(rec.row.reason.prev)
  <2>1. s \in Status
    BY DEF ResumeStatus, Status, ValidTransitions
  <2>2. /\ row' \in [Task -> Rows] /\ working' \subseteq Task
        /\ queued' \subseteq Task /\ moving' \subseteq Task
    BY <1>1, <1>5, <2>1, EntersStatusType
       DEF ResumePaused, TypeInv, TypeOK, agents
  <2>3. rec' \in Recs /\ RecFits'
    BY <1>2, <1>3, <1>5 DEF ResumePaused
  <2> QED
    BY <1>5, <2>2, <2>3, RecStep DEF ResumePaused
<1>6. CASE ClearResumed \/ GiveUp \/ FailTask
  <2>1. /\ [row[t] EXCEPT !.reason = NoReason] \in Rows
        /\ [rec.row EXCEPT !.reason = NoReason] \in Rows
        /\ [row[t] EXCEPT !.status = "Failed"] \in Rows
    BY <1>1, RowFacts, StatusFacts
  <2>2. row' \in [Task -> Rows]
    BY <1>1, <1>6, <2>1 DEF ClearResumed, GiveUp, FailTask, TypeInv, TypeOK
  <2>3. rec' \in Recs /\ RecFits'
    BY <1>2, <1>3, <1>6 DEF ClearResumed, GiveUp, FailTask
  <2>4. UNCHANGED <<from, flag, halt, agents, op, program, held>>
    BY <1>6 DEF ClearResumed, GiveUp, FailTask
  <2> QED
    BY <2>2, <2>3, <2>4, RecStep DEF TypeInv, TypeOK, agents
<1> QED
  BY <1>4, <1>5, <1>6 DEF Reconcile

\* The program ends: what it had in memory is gone.
LEMMA CrashType ==
  ASSUME TypeInv, Crash
  PROVE  TypeInv'
<1>1. op' \in [Caller -> Ops] /\ \A c \in Caller : Fits(op'[c])
  BY IdleFacts DEF Crash
<1>2. rec' \in Recs /\ RecFits'
  BY IdleFacts DEF Crash, RecFits, IdleRec
<1>3. restarts' \in 0 .. MaxRestarts
  BY BoundAssumption DEF Crash, TypeInv, TypeOK
<1> QED
  BY <1>1, <1>2, <1>3 DEF Crash, TypeInv, TypeOK, tasks

\* It starts again, with what the database says.
LEMMA StartType ==
  ASSUME TypeInv, Start \/ StartBlind
  PROVE  TypeInv'
<1>1. /\ UNCHANGED <<tasks, halt, agents, rec, begun, restarts, held>>
      /\ flag' \in BOOLEAN /\ up' \in BOOLEAN
  BY DEF Start, Starts, StartBlind
<1>2. op' \in [Caller -> Ops] /\ \A c \in Caller : Fits(op'[c])
  <2>1. CASE op' = op
    BY <2>1 DEF TypeInv, TypeOK
  <2>2. CASE op' # op
    <3> DEFINE o == [IdleOp EXCEPT !.pc = "start", !.todo = Task]
    <3>1. op' = [op EXCEPT !["startup"] = o]
      BY <2>2 DEF Start, Starts, StartBlind
    <3>2. IdleOp \in Ops /\ IdleOp.restored = 0
      BY IdleFacts DEF IdleOp
    <3>3. o \in Ops /\ Fits(o)
      BY <3>2 DEF Ops, Points, Fits
    <3> HIDE DEF o
    <3> QED
      BY <3>1, <3>3, OpStep DEF Caller
  <2> QED
    BY <2>1, <2>2
<1>3. RecFits'
  BY <1>1 DEF RecFits, TypeInv
<1> QED
  BY <1>1, <1>2, <1>3 DEF TypeInv, TypeOK, tasks, agents

\* Startup recovery of the tasks, one after the other.
LEMMA StartTaskType ==
  ASSUME TypeInv, NEW t \in Task, StartTask(t)
  PROVE  TypeInv'
<1> DEFINE c == "startup"
<1>1. /\ c \in Caller /\ op[c] \in Ops /\ Fits(op[c]) /\ op[c].pc = "start"
      /\ Now(t) \in Status
  BY DEF TypeInv, TypeOK, Caller, StartTask, At, Rows, Now
<1>2. /\ row' \in [Task -> Rows] /\ queued' \subseteq Task
      /\ working' \subseteq Task /\ moving' \subseteq Task
  <2>1. CASE EntersStatus(t, Now(t))
    BY <1>1, <2>1, EntersStatusType DEF TypeInv
  <2>2. CASE UNCHANGED <<row, agents>>
    BY <2>2 DEF TypeInv, TypeOK, agents
  <2> QED
    BY <2>1, <2>2 DEF StartTask
<1>3. PICK o \in Ops : Fits(o) /\ op' = [op EXCEPT ![c] = o]
  <2>1. CASE Visited(c, t)
    BY <1>1, <2>1, VisitedFits
  <2>2. CASE op' = [op EXCEPT ![c].todo = {}]
    <3>1. /\ [op[c] EXCEPT !.todo = {}] \in Ops
          /\ Fits([op[c] EXCEPT !.todo = {}])
      BY <1>1 DEF Ops, Fits
    <3> QED
      BY <2>2, <3>1
  <2> QED
    BY <2>1, <2>2 DEF StartTask
<1> HIDE DEF c
<1> QED
  BY <1>1, <1>2, <1>3, CommandStep DEF StartTask, TypeInv, TypeOK, program

\* The initial state is well typed.
LEMMA InitType == ASSUME Init PROVE TypeInv
<1>1. row \in [Task -> Rows]
  BY RowFacts, StatusAssumption DEF Init, Rows
<1>2. op \in [Caller -> Ops] /\ \A c \in Caller : Fits(op[c])
  BY IdleFacts DEF Init
<1>3. rec \in Recs /\ RecFits
  BY IdleFacts DEF Init, RecFits, IdleRec
<1>4. from \in [Task -> Status \cup {None}]
  BY DEF Init
<1>5. begun \in 0 .. MaxCommands /\ restarts \in 0 .. MaxRestarts
  BY BoundAssumption DEF Init
<1> QED
  BY <1>1, <1>2, <1>3, <1>4, <1>5 DEF Init, TypeInv, TypeOK

\* Every step keeps the types.
LEMMA NextType == ASSUME TypeInv, [Next]_vars PROVE TypeInv'
<1>1. CASE UNCHANGED vars
  BY <1>1 DEF vars, tasks, agents, program, TypeInv, TypeOK, RecFits
<1>2. CASE UserHalts \/ UserResumes \/ ProviderHalts
  <2>1. PICK c \in Caller, name \in Names, p \in {"flag", "persist"} :
          Begin(c, name, p)
    BY <1>2 DEF UserHalts, UserResumes, ProviderHalts, Caller, Names, Halts
  <2>2. /\ working' \subseteq Task /\ UNCHANGED <<queued, moving>>
        /\ held' \in BOOLEAN
    BY <1>2 DEF UserHalts, UserResumes, ProviderHalts, TypeInv, TypeOK, agents
  <2> QED
    BY <2>1, <2>2, BeginType
<1>3. CASE TaskDone \/ StartDone
  <2>1. PICK c \in Caller : Ends(c)
    BY <1>3 DEF TaskDone, StartDone, Caller
  <2> QED
    BY <1>3, <2>1, EndsType DEF TaskDone, StartDone, TypeInv, TypeOK, agents
<1> QED
  BY <1>1, <1>2, <1>3, ProceedType, TaskCommandType, TaskStepType, SeesType,
     ReconcileType, StartType, StartTaskType, CrashType DEF Next, Startup

\* Every variable has its type at all times: what a command restored never
\* outnumbers the tasks, and no attempt is counted beyond the last.
THEOREM TypeCorrect == Spec => []TypeOK
<1>1. Init => TypeInv
  BY InitType
<1>2. TypeInv /\ [Next]_vars => TypeInv'
  BY NextType
<1>3. TypeInv => TypeOK
  BY DEF TypeInv
<1> QED
  BY <1>1, <1>2, <1>3, PTL DEF Spec

-----------------------------------------------------------------------------
(***************************************************************************)
(* The halt holds.  The parts of the invariant are needed together: the    *)
(* user's halt is in force only at the end of a command that has set the   *)
(* flag and the mode, and the two are reset only by a resume, which is the *)
(* user's and therefore never under way at the same time.                  *)
(***************************************************************************)

Settled == {"idle", "flag", "persist"}

\* A step that does not touch the halt, and where a command at most goes on
\* past the point where its halt is persisted, or ends.
LEMMA HaltUntouched ==
  ASSUME HaltInv, up, UNCHANGED <<flag, halt, up, held>>,
         \A c \in Caller : op'[c].name \in {op[c].name, None},
         \/ op'["user"].name = None
         \/ op["user"].pc \notin Settled
         \/ op'["user"].pc = op["user"].pc
  PROVE  HaltInv'
  BY DEF HaltInv, HaltHolds, Settled, Halts, None, Caller

\* A command that begins, while the halt holds.
LEMMA BeginHalt ==
  ASSUME TypeOK, HaltInv, UserHalts \/ UserResumes \/ ProviderHalts
  PROVE  HaltInv'
<1>1. op \in [Caller -> Ops] /\ up /\ UNCHANGED <<flag, halt, up>>
  BY DEF TypeOK, UserHalts, UserResumes, ProviderHalts, Begin, At
<1>2. CASE UserHalts
  <2>1. PICK name \in Halts :
          op' = [op EXCEPT !["user"] =
                   [IdleOp EXCEPT !.name = name, !.pc = "flag"]]
    BY <1>2 DEF UserHalts, Begin
  <2>2. /\ op'["user"].name = name /\ op'["user"].pc = "flag"
        /\ \A c \in Caller \ {"user"} : op'[c] = op[c]
    BY <1>1, <2>1, IdleFacts DEF Caller, Ops
  <2> QED
    BY <1>1, <1>2, <2>2 DEF UserHalts, HaltInv, HaltHolds, Halts, Caller
<1>3. CASE UserResumes
  <2>1. /\ op'["user"].name = "resume"
        /\ \A c \in Caller \ {"user"} : op'[c] = op[c]
    BY <1>1, <1>3, IdleFacts DEF UserResumes, Begin, Caller, Ops
  <2> QED
    BY <1>1, <1>3, <2>1 DEF UserResumes, HaltInv, HaltHolds, Halts, Caller
<1>4. CASE ProviderHalts
  <2>1. /\ op'["provider"].name = "pause"
        /\ \A c \in Caller \ {"provider"} : op'[c] = op[c]
    BY <1>1, <1>4, IdleFacts DEF ProviderHalts, Begin, Caller, Ops
  <2> QED
    BY <1>1, <1>4, <2>1 DEF ProviderHalts, HaltInv, HaltHolds, Caller
<1> QED
  BY <1>2, <1>3, <1>4

\* Setting the flag and persisting the mode.
LEMMA PersistHaltInv ==
  ASSUME TypeOK, HaltInv, NEW c \in Caller,
         \/ SetFlag(c) \/ PersistHalt(c) \/ PersistRun(c) \/ PersistFails(c)
  PROVE  HaltInv'
<1>1. /\ op \in [Caller -> Ops] /\ up /\ UNCHANGED <<up, held>>
      /\ op[c].pc \in {"flag", "persist"}
  BY DEF TypeOK, SetFlag, PersistHalt, PersistRun, PersistFails, At, Run,
         program
<1>2. \A d \in Caller \ {c} : op'[d] = op[d]
  BY <1>1 DEF SetFlag, PersistHalt, PersistRun, PersistFails, Goes, Ends
<1>3. ASSUME NEW p, Goes(c, p)
      PROVE  op'[c].name = op[c].name /\ op'[c].pc = p
  BY <1>1, <1>3 DEF Goes, Ops
<1>4. CASE SetFlag(c)
  <2>1. flag' = TRUE /\ UNCHANGED halt
        /\ op'[c].name = op[c].name /\ op'[c].pc = "persist"
    BY <1>3, <1>4 DEF SetFlag
  <2> QED
    BY <1>1, <1>2, <2>1 DEF HaltInv, HaltHolds, Caller
<1>5. CASE PersistHalt(c)
  <2>1. /\ op[c].name \in Halts /\ op[c].pc = "persist"
        /\ halt' # "Running" /\ UNCHANGED flag
        /\ op'[c].name = op[c].name /\ op'[c].pc = "kill"
    BY <1>3, <1>5 DEF PersistHalt, Halted, At
  <2> QED
    BY <1>1, <1>2, <2>1 DEF HaltInv, HaltHolds, Caller
<1>6. CASE PersistRun(c)
  <2>1. /\ op[c].name = "resume" /\ UNCHANGED flag
        /\ op'[c].name = op[c].name
    BY <1>3, <1>6 DEF PersistRun, Run
  <2>2. c = "user" /\ ~held
    BY <2>1 DEF HaltInv
  <2> QED
    BY <1>1, <1>2, <2>1, <2>2 DEF HaltInv, HaltHolds, Halts
<1>7. CASE PersistFails(c)
  <2>1. UNCHANGED <<flag, halt, up, held>>
    BY <1>1, <1>7 DEF PersistFails
  <2>2. CASE c = "user"
    <3>1. op'[c].name = None
      BY <1>1, <1>7, <2>2 DEF PersistFails, Ends, IdleOp
    <3> QED
      BY <1>1, <1>2, <2>1, <2>2, <3>1, HaltUntouched
  <2>3. CASE c # "user"
    <3>1. op'[c].name = op[c].name /\ op'["user"] = op["user"]
      BY <1>2, <1>3, <1>7, <2>3 DEF PersistFails, Caller
    <3> QED
      BY <1>1, <1>2, <2>1, <3>1, HaltUntouched
  <2> QED
    BY <2>2, <2>3
<1> QED
  BY <1>4, <1>5, <1>6, <1>7

\* Visiting a task, or taking it in hand, does not change the command.
LEMMA NameKept ==
  ASSUME TypeOK, NEW c \in Caller, NEW t
  PROVE  /\ Visited(c, t) => op'[c].name = op[c].name
         /\ \A p, s : Takes(c, t, p, s) => op'[c].name = op[c].name
<1>1. op \in [Caller -> Ops]
  BY DEF TypeOK
<1>2. ASSUME Visited(c, t)
      PROVE  op'[c].name = op[c].name
  <2> DEFINE o == [op[c] EXCEPT !.todo = @ \ {t}, !.rows[t] = Blank[t]]
  <2>1. op' = [op EXCEPT ![c] = o]
    BY <1>2 DEF Visited
  <2>2. o.name = op[c].name
    BY <1>1 DEF Ops
  <2> QED
    BY <1>1, <2>1, <2>2
<1>3. ASSUME NEW p, NEW s, Takes(c, t, p, s)
      PROVE  op'[c].name = op[c].name
  <2> DEFINE o == [op[c] EXCEPT !.pc = p, !.at = t, !.rows[t].status = s]
  <2>1. op' = [op EXCEPT ![c] = o]
    BY <1>3 DEF Takes
  <2>2. o.name = op[c].name
    BY <1>1 DEF Ops
  <2> QED
    BY <1>1, <2>1, <2>2
<1> QED
  BY <1>2, <1>3

\* A command at its tasks: past the point where its halt is persisted.
LEMMA AtTasksInv ==
  ASSUME TypeOK, HaltInv, NEW c \in Caller, op[c].pc \notin Settled, up,
         UNCHANGED <<flag, halt, up, held>>,
         \/ Ends(c) \/ ListTasks(c) \/ Leaves(c, 0) \/ Leaves(c, 1)
         \/ \E t \in Task : Visited(c, t)
         \/ \E t \in Task, p \in Points, s \in Status : Takes(c, t, p, s)
         \/ op' = [op EXCEPT ![c].todo = {}, ![c].rows = Blank]
  PROVE  HaltInv'
<1>1. op \in [Caller -> Ops]
  BY DEF TypeOK
<1>2. op'[c].name \in {op[c].name, None}
  <2>1. CASE Ends(c)
    BY <1>1, <2>1 DEF Ends, IdleOp
  <2>2. CASE ListTasks(c)
    BY <1>1, <2>2 DEF Ops, ListTasks
  <2>3. ASSUME NEW done \in {0, 1}, Leaves(c, done)
        PROVE  op'[c].name = op[c].name
    BY <1>1, <2>3 DEF Ops, Leaves
  <2>4. CASE op' = [op EXCEPT ![c].todo = {}, ![c].rows = Blank]
    BY <1>1, <2>4 DEF Ops
  <2> QED
    BY <2>1, <2>2, <2>3, <2>4, NameKept
<1>3. \A d \in Caller \ {c} : op'[d] = op[d]
  BY <1>1 DEF Ends, ListTasks, Leaves, Visited, Takes
<1>4. c # "user" => op'["user"] = op["user"]
  BY <1>3 DEF Caller
<1> QED
  BY <1>2, <1>3, <1>4, HaltUntouched

\* The end of the user's halt puts it in force; that of a resume opens.
LEMMA DoneHalt ==
  ASSUME TypeOK, HaltInv, NEW c \in Caller, HaltDone(c) \/ Unflag(c)
  PROVE  HaltInv'
<1>1. op \in [Caller -> Ops] /\ up /\ op[c].pc = "each"
  BY DEF TypeOK, HaltDone, Unflag, Run, At
<1>2. CASE HaltDone(c)
  <2>1. UNCHANGED <<flag, halt, up>> /\ Ends(c) /\ held' = (held \/ c = "user")
    BY <1>2 DEF HaltDone, program
  <2>2. CASE c = "user"
    <3>1. flag /\ halt # "Running"
      BY <1>1, <1>2, <2>2 DEF HaltInv, HaltDone
    <3>2. /\ op'["user"].name = None
          /\ \A d \in Caller \ {"user"} : op'[d] = op[d]
      BY <1>1, <2>1, <2>2 DEF Ends, IdleOp
    <3> QED
      BY <1>1, <2>1, <3>1, <3>2 DEF HaltInv, HaltHolds, Halts, None
  <2>3. CASE c # "user"
    BY <1>1, <2>1, <2>3, AtTasksInv DEF Settled, TypeOK
  <2> QED
    BY <2>2, <2>3
<1>3. CASE Unflag(c)
  <2>1. c = "user" /\ op["user"].name = "resume" /\ ~held
    BY <1>3 DEF Unflag, Run, HaltInv
  <2>2. /\ op'["user"].name = "resume"
        /\ \A d \in Caller \ {"user"} : op'[d] = op[d]
    BY <1>1, <1>3, <2>1 DEF Unflag, Ops
  <2>3. UNCHANGED <<halt, up, held>>
    BY <1>3 DEF Unflag, program
  <2> QED
    BY <1>1, <2>1, <2>2, <2>3 DEF HaltInv, HaltHolds, Halts
<1> QED
  BY <1>2, <1>3

\* Every command in progress.
LEMMA ProceedHalt ==
  ASSUME TypeInv, HaltInv, NEW c \in Caller, Proceed(c)
  PROVE  HaltInv'
<1>1. TypeOK
  BY DEF TypeInv
<1>2. CASE \/ SetFlag(c) \/ PersistHalt(c) \/ PersistRun(c) \/ PersistFails(c)
           \/ HaltDone(c) \/ Unflag(c)
  BY <1>1, <1>2, PersistHaltInv, DoneHalt
<1>3. CASE \/ KillAgents(c) \/ List(c) \/ ListFails(c) \/ MovePaused(c)
           \/ EnterAgain(c) \/ ResumeDone(c)
  <2>1. /\ op[c].pc \notin Settled /\ up
        /\ UNCHANGED <<flag, halt, up, held>>
        /\ Ends(c) \/ ListTasks(c) \/ Leaves(c, 0) \/ Leaves(c, 1)
    BY <1>3 DEF KillAgents, List, ListFails, MovePaused, EnterAgain,
                ResumeDone, At, Settled, program
  <2> QED
    BY <1>1, <2>1, AtTasksInv
<1>4. ASSUME NEW t \in Task, \/ MoveStopped(c, t) \/ SkipRestore(c, t)
                             \/ StopRestoring(c, t) \/ Relaunch(c, t)
      PROVE  HaltInv'
  <2>1. /\ op[c].pc \notin Settled /\ up
        /\ UNCHANGED <<flag, halt, up, held>>
        /\ \/ Visited(c, t)
           \/ op' = [op EXCEPT ![c].todo = {}, ![c].rows = Blank]
    BY <1>4 DEF MoveStopped, SkipRestore, StopRestoring, Relaunch, Run, At,
                Settled, program
  <2> QED
    BY <1>1, <2>1, AtTasksInv
<1>5. ASSUME NEW t \in Task, Mark(c, t) \/ Restore(c, t)
      PROVE  HaltInv'
  <2>1. /\ op[c].pc \notin Settled /\ up
        /\ UNCHANGED <<flag, halt, up, held>>
    BY <1>5 DEF Mark, Restore, Run, At, Settled, program
  <2>2. PICK p \in Points, s \in Status : Takes(c, t, p, s)
    BY <1>1, <1>5, StatusFacts
       DEF Mark, Restore, Restorable, Points, TypeOK, Ops, Rows
  <2> QED
    BY <1>1, <2>1, <2>2, AtTasksInv
<1> QED
  BY <1>2, <1>3, <1>4, <1>5 DEF Proceed

\* No step ends a halt but the user's resume, as long as startup can read what
\* is persisted.
LEMMA NextHalt ==
  ASSUME TypeInv, HaltInv, ~ReadFails, Next
  PROVE  HaltInv'
<1>1. TypeOK /\ op \in [Caller -> Ops]
  BY DEF TypeInv, TypeOK
<1>2. ASSUME NEW t \in Task,
             \/ Report(t) \/ GoesOn(t) \/ Merge(t) \/ Respawn(t)
             \/ SeePaused(t) \/ SeeTired(t) \/ Reconcile(t)
      PROVE  HaltInv'
  <2>1. up /\ UNCHANGED <<flag, halt, up, held, op>>
    BY <1>2 DEF Report, GoesOn, Merge, Respawn, SeePaused, SeeTired, Sees,
                RecLooks, Reconcile, CountAttempt, ResumePaused, ClearResumed,
                GiveUp, FailTask, program
  <2> QED
    BY <2>1, HaltUntouched
<1>3. ASSUME NEW t \in Task, UserHaltsTask(t) \/ UserResumesTask(t)
      PROVE  HaltInv'
  <2>1. up /\ UNCHANGED <<flag, halt, up, held>>
    BY <1>3 DEF UserHaltsTask, UserResumesTask, At
  <2>2. \A d \in Caller \ {"user"} : op'[d] = op[d]
    BY <1>1, <1>3 DEF UserHaltsTask, UserResumesTask
  <2>3. op'["user"].name \in {"pause_task", "stop_task", "resume_task"}
    <3>1. IdleOp \in Ops /\ "user" \in Caller
      BY IdleFacts DEF Caller
    <3>2. CASE UserHaltsTask(t)
      <4>1. PICK name \in {"pause_task", "stop_task"} :
              op' = [op EXCEPT !["user"] =
                       [IdleOp EXCEPT !.name = name, !.pc = "each",
                                      !.todo = {t}, !.rows[t] = row[t]]]
        BY <3>2 DEF UserHaltsTask
      <4> DEFINE o == [IdleOp EXCEPT !.name = name, !.pc = "each",
                                     !.todo = {t}, !.rows[t] = row[t]]
      <4>2. o.name = name
        BY <3>1 DEF Ops
      <4> QED
        BY <1>1, <3>1, <4>1, <4>2
    <3>3. CASE UserResumesTask(t)
      <4>1. PICK s : op' = [op EXCEPT !["user"] =
                              [IdleOp EXCEPT !.name = "resume_task",
                                             !.pc = "enter", !.at = t,
                                             !.rows[t].status = s]]
        BY <3>3 DEF UserResumesTask
      <4> DEFINE o == [IdleOp EXCEPT !.name = "resume_task",
                                     !.pc = "enter", !.at = t,
                                     !.rows[t].status = s]
      <4>2. o.name = "resume_task"
        BY <3>1 DEF Ops
      <4> QED
        BY <1>1, <3>1, <4>1, <4>2
    <3> QED
      BY <1>3, <3>2, <3>3
  <2> QED
    BY <2>1, <2>2, <2>3 DEF HaltInv, HaltHolds, Halts
<1>4. CASE TaskDone
  <2>1. up /\ UNCHANGED <<flag, halt, up, held>> /\ Ends("user")
    BY <1>4 DEF TaskDone, At, program
  <2>2. /\ op'["user"].name = None
        /\ \A d \in Caller \ {"user"} : op'[d] = op[d]
    BY <1>1, <2>1 DEF Ends, IdleOp, Caller
  <2> QED
    BY <2>1, <2>2, HaltUntouched DEF Caller
<1>5. CASE StartDone \/ \E t \in Task : StartTask(t)
  <2>1. up /\ UNCHANGED <<flag, halt, up, held>>
    BY <1>5 DEF StartDone, StartTask, At, program
  <2>2. op'["user"] = op["user"] /\ op'["provider"] = op["provider"]
    BY <1>1, <1>5 DEF StartDone, StartTask, Ends, Visited, Caller
  <2>3. op'["startup"].name \in {op["startup"].name, None}
    <3>1. CASE StartDone
      BY <1>1, <3>1 DEF StartDone, Ends, IdleOp, Caller
    <3>2. ASSUME NEW t \in Task, StartTask(t)
          PROVE  op'["startup"].name = op["startup"].name
      <4>1. CASE Visited("startup", t)
        BY <1>1, <4>1, NameKept DEF Caller
      <4>2. CASE op' = [op EXCEPT !["startup"].todo = {}]
        BY <1>1, <4>2 DEF Ops, Caller
      <4> QED
        BY <3>2, <4>1, <4>2 DEF StartTask
    <3> QED
      BY <1>5, <3>1, <3>2
  <2> QED
    BY <2>1, <2>2, <2>3, HaltUntouched DEF Caller
<1>6. CASE Start
  <2>1. /\ ~up /\ flag' = (halt # "Running") /\ UNCHANGED <<halt, held>>
        /\ op["user"].pc = "idle"
    BY <1>6 DEF Start, Starts, HaltInv
  <2>2. op'["user"] = op["user"] /\ op'["provider"] = op["provider"]
    BY <1>1, <1>6 DEF Start, Starts, Caller
  <2>3. op'["startup"].name \in {op["startup"].name, None}
    BY <1>1, <1>6, IdleFacts DEF Start, Starts, Caller, Ops, IdleOp
  <2>4. up' = TRUE
    BY <1>6 DEF Start, Starts
  <2> QED
    BY <2>1, <2>2, <2>3, <2>4 DEF HaltInv, HaltHolds, Caller, None
<1>7. CASE Crash
  <2>1. ~up' /\ UNCHANGED <<halt, held>> /\ \A c \in Caller : op'[c] = IdleOp
    BY <1>7 DEF Crash
  <2> QED
    BY <2>1 DEF HaltInv, HaltHolds, IdleOp, None, Halts, Caller
<1>8. ~StartBlind
  BY DEF StartBlind
<1> QED
  BY <1>1, <1>2, <1>3, <1>4, <1>5, <1>6, <1>7, <1>8, BeginHalt, ProceedHalt
     DEF Next, Startup

\* The invariant holds in every state of a program whose startup can read its
\* settings.
LEMMA HaltInvariant == ASSUME ~ReadFails PROVE Spec => [](TypeInv /\ HaltInv)
<1>1. Init => TypeInv
  BY InitType
<1>2. Init => HaltInv
  BY DEF Init, HaltInv, HaltHolds, IdleOp, Halts, None, Caller
<1>3. TypeInv /\ [Next]_vars => TypeInv'
  BY NextType
<1>4. TypeInv /\ HaltInv /\ [Next]_vars => HaltInv'
  <2>1. CASE UNCHANGED vars
    BY <2>1 DEF vars, program, HaltInv, HaltHolds
  <2> QED
    BY <2>1, NextHalt
<1> QED
  BY <1>1, <1>2, <1>3, <1>4, PTL DEF Spec

\* Once the user's pause or stop is over, the execution stays halted, in the
\* database and in memory, until the user resumes, whatever provider errors,
\* failed writes and restarts do in between.
THEOREM HaltsHold == ASSUME ~ReadFails PROVE Spec => []HaltHolds
<1>1. HaltInv => HaltHolds
  BY DEF HaltInv
<1> QED
  BY <1>1, HaltInvariant, PTL

-----------------------------------------------------------------------------
(***************************************************************************)
(* Every step is a step of HaltSwitch, or none                             *)
(***************************************************************************)

\* A command's step closes the switch, puts the halt in force, opens the
\* switch, or does not touch it.
LEMMA ProceedSwitch ==
  ASSUME TypeInv, HaltInv, NEW c \in Caller, Proceed(c)
  PROVE  [Switch!Next]_(Switch!vars)
<1> USE DEF Switch!Next, Switch!vars
<1>1. CASE SetFlag(c)
  BY <1>1 DEF SetFlag, At, program, Switch!Close
<1>2. CASE PersistHalt(c)
  BY <1>2 DEF PersistHalt, Halted, program, Switch!Close
<1>3. CASE PersistRun(c)
  <2>1. ~held
    BY <1>3 DEF PersistRun, Run, HaltInv
  <2> QED
    BY <1>3, <2>1 DEF PersistRun, program, Switch!Open
<1>4. CASE HaltDone(c)
  <2>1. CASE c = "user"
    BY <1>4, <2>1 DEF HaltDone, At, HaltInv, program, Switch!Hold
  <2>2. CASE c # "user"
    <3>1. held' = held
      BY <1>4, <2>2 DEF HaltDone, TypeInv, TypeOK
    <3> QED
      BY <1>4, <3>1 DEF HaltDone, program
  <2> QED
    BY <2>1, <2>2
<1>5. CASE Unflag(c)
  <2>1. ~held
    BY <1>5 DEF Unflag, Run, HaltInv
  <2> QED
    BY <1>5, <2>1 DEF Unflag, program, Switch!Open
<1>6. CASE \/ PersistFails(c) \/ KillAgents(c) \/ List(c) \/ ListFails(c)
           \/ MovePaused(c) \/ EnterAgain(c) \/ ResumeDone(c)
           \/ \E t \in Task :
                \/ Mark(c, t) \/ MoveStopped(c, t)
                \/ SkipRestore(c, t) \/ StopRestoring(c, t) \/ Restore(c, t)
                \/ Relaunch(c, t)
  BY <1>6 DEF PersistFails, KillAgents, List, ListFails, MovePaused,
              EnterAgain, ResumeDone, Mark, MoveStopped, SkipRestore,
              StopRestoring, Restore, Relaunch, program
<1> QED
  BY <1>1, <1>2, <1>3, <1>4, <1>5, <1>6 DEF Proceed

\* Every step of the control is a step of the switch, or leaves it alone.
LEMMA NextSwitch ==
  ASSUME TypeInv, HaltInv, ~ReadFails, [Next]_vars
  PROVE  [Switch!Next]_(Switch!vars)
<1> USE DEF Switch!Next, Switch!vars
<1>1. CASE UserHalts \/ ProviderHalts
  BY <1>1 DEF UserHalts, ProviderHalts, Begin
<1>2. CASE UserResumes
  BY <1>2 DEF UserResumes, Begin, Switch!Lift
<1>3. CASE Start
  BY <1>3 DEF Start, Starts, Switch!Up
<1>4. CASE Crash
  BY <1>4 DEF Crash, Switch!Down
<1>5. CASE \/ UNCHANGED vars \/ TaskDone \/ StartDone
           \/ \E t \in Task : \/ UserHaltsTask(t) \/ UserResumesTask(t)
                              \/ Report(t) \/ GoesOn(t) \/ Merge(t)
                              \/ SeePaused(t) \/ SeeTired(t) \/ Reconcile(t)
                              \/ Respawn(t) \/ StartTask(t)
  BY <1>5 DEF vars, program, TaskDone, StartDone, UserHaltsTask,
              UserResumesTask, Report, GoesOn, Merge, SeePaused, SeeTired,
              Sees, Reconcile, CountAttempt, ResumePaused, ClearResumed,
              GiveUp, FailTask, Respawn, StartTask
<1>6. ~StartBlind
  BY DEF StartBlind
<1> QED
  BY <1>1, <1>2, <1>3, <1>4, <1>5, <1>6, ProceedSwitch DEF Next, Startup

\* Pause, stop, resume, provider errors, failed writes and restarts work the
\* flag and the stored mode as the switch allows, and in no other way.
THEOREM ImplementsSwitch == ASSUME ~ReadFails PROVE Spec => HaltIsASwitch
<1>1. Init => Switch!Init
  BY DEF Init, Switch!Init
<1>2. TypeInv /\ HaltInv /\ [Next]_vars => [Switch!Next]_(Switch!vars)
  BY NextSwitch
<1> QED
  BY <1>1, <1>2, HaltInvariant, PTL DEF Spec, HaltIsASwitch, Switch!Spec

=============================================================================
