------------------------ MODULE DependencyGateProofs ------------------------
(***************************************************************************)
(* Type correctness of DependencyGate, and that nobody lets a task through *)
(* the gate while a blocker holds it, for any tasks, dependencies and      *)
(* schedulers.                                                             *)
(***************************************************************************)
EXTENDS DependencyGate, TLAPS

\* While a worker reads the blockers of a task, those no longer left were
\* accounted for; when it releases the task, all are.
Sound(w) ==
  /\ At(w, "check") /\ ~Reconciling(w) =>
       \A b \in Blockers[job[w].dep] \ job[w].left : Accounted(w, b)
  /\ Releasing(w) => FoundSatisfied(w)

IInv == TypeOK /\ \A w \in Worker : Sound(w)

\* The jobs of workers that are at a task, or at none yet.
Active == Jobs \ {Idle}

\* A job under way has its fields.
LEMMA JobType ==
  ASSUME TypeOK, NEW w \in Worker, ~At(w, "idle")
  PROVE  /\ job[w] \in Active
         /\ job[w].todo \subseteq Task /\ job[w].dep \in Task
         /\ job[w].left \subseteq Task /\ job[w].unread \subseteq Task
         /\ job[w].row \in Status
  BY DEF TypeOK, Jobs, Active, Idle, At

\* Statuses the workers write or read by name.
LEMMA StatusNames ==
  /\ {"Blocked", "Ready", "Executing", "PendingMerge", "Merged", "Stopped"}
       \subseteq Status
  /\ \A s \in DOMAIN NextList : NextList[s] \in Status
  BY DEF Status, ValidTransitions, NextList

\* A list to work through is a job.
LEMMA ListedType ==
  ASSUME NEW todo \in SUBSET Task, NEW s \in Status, NEW p \in {"list", "next"}
  PROVE  /\ Listed(todo, p, s) \in Jobs
         /\ Listed(todo, p, s).at = p
<1>1. (CHOOSE t \in Task : TRUE) \in Task
  BY GraphAssumption
<1> QED
  BY <1>1 DEF Listed, Jobs

\* What a status change must leave standing: the blockers that a worker at a
\* task found satisfied are, or are remembered as reopened.
Steady ==
  \A w \in Worker : job[w].at \notin {"idle", "list", "next"} =>
    \A b \in Blockers[job[w].dep] :
      (Satisfied(b) \/ b \in reopened[w]) =>
        (Satisfied(b)' \/ b \in reopened'[w])

\* A write of a status records the blockers it reopens.
LEMMA WriteSteady ==
  ASSUME TypeOK, NEW t \in Task, NEW s \in Status, Write(t, s)
  PROVE  /\ status' \in [Task -> Status]
         /\ reopened' \in [Worker -> SUBSET Task]
         /\ Steady
<1>1. status' \in [Task -> Status]
  BY DEF TypeOK, Write
<1>2. reopened' \in [Worker -> SUBSET Task]
  BY DEF TypeOK, Write
<1>3. ASSUME NEW w \in Worker, job[w].at \notin {"idle", "list", "next"},
             NEW b \in Blockers[job[w].dep], Satisfied(b) \/ b \in reopened[w]
      PROVE  Satisfied(b)' \/ b \in reopened'[w]
  <2>1. b \in Task
    <3>1. job[w].dep \in Task
      BY <1>3, JobType DEF At
    <3> QED
      BY <1>3, <3>1, GraphAssumption
  <2>2. reopened[w] \subseteq reopened'[w]
    BY <1>3 DEF TypeOK, Write
  <2>3. CASE b \in reopened[w]
    BY <2>2, <2>3
  <2>4. CASE Satisfied(b) /\ b # t
    BY <2>1, <2>4 DEF TypeOK, Write, Satisfied
  <2>5. CASE Satisfied(b) /\ b = t /\ s \in DependencySatisfied
    BY <2>1, <2>5 DEF TypeOK, Write, Satisfied
  <2>6. CASE Satisfied(b) /\ b = t /\ s \notin DependencySatisfied
    <3>1. Concerns(w, t)
      BY <1>3, <2>6 DEF Concerns
    <3> QED
      BY <1>3, <2>6, <3>1 DEF Write
  <2> QED
    BY <1>3, <2>3, <2>4, <2>5, <2>6
<1> QED
  BY <1>1, <1>2, <1>3 DEF Steady

\* Where no status is written, no blocker is reopened.
LEMMA KeepSteady ==
  ASSUME TypeOK, UNCHANGED <<status, reopened>>
  PROVE  /\ status' \in [Task -> Status]
         /\ reopened' \in [Worker -> SUBSET Task]
         /\ Steady
  BY DEF TypeOK, Steady, Satisfied

\* A job that is neither reading blockers nor releasing its task.
Harmless == {"list", "next", "readwaiting", "unblockrecord", "names",
             "reason", "reblock", "reblockrecord", "startrecord", "entry",
             "writerecord"}

\* A job that only moves on stays well typed and keeps what it has read.
LEMMA GotoType ==
  ASSUME TypeOK, NEW w \in Worker, ~At(w, "idle"),
         NEW p \in Harmless \cup {"check", "read", "unblock", "mark", "claim",
                                  "start", "write"},
         Goto(w, p)
  PROVE  /\ [job[w] EXCEPT !.at = p] \in Jobs
         /\ Becomes(w, [job[w] EXCEPT !.at = p])
         /\ job'[w].at = p /\ job'[w].dep = job[w].dep
         /\ job'[w].unread = job[w].unread /\ job'[w].row = job[w].row
<1>1. job[w] \in Active /\ job \in [Worker -> Jobs]
  BY JobType DEF TypeOK
<1>2. [job[w] EXCEPT !.at = p] \in Jobs
  BY <1>1 DEF Active, Jobs, Harmless
<1>3. /\ [job[w] EXCEPT !.at = p].at = p
      /\ [job[w] EXCEPT !.at = p].dep = job[w].dep
      /\ [job[w] EXCEPT !.at = p].unread = job[w].unread
      /\ [job[w] EXCEPT !.at = p].row = job[w].row
  BY <1>1 DEF Active, Jobs, Idle
<1> QED
  BY <1>1, <1>2, <1>3 DEF Goto, Becomes

\* A worker that does not move stays sound.
LEMMA OthersSound ==
  ASSUME IInv, NEW w \in Worker, job'[w] = job[w], Steady
  PROVE  Sound(w)'
<1>1. Sound(w)
  BY DEF IInv
<1>2. CASE At(w, "check")
  BY <1>1, <1>2 DEF Sound, Steady, Accounted, At, Reconciling, Releasing
<1>3. CASE Releasing(w)
  <2>1. job[w].at \notin {"idle", "list", "next", "check"}
    BY <1>3 DEF Releasing, At
  <2> QED
    BY <1>1, <1>3, <2>1
    DEF Sound, Steady, FoundSatisfied, Accounted, At, Reconciling, Releasing
<1>4. CASE ~At(w, "check") /\ ~Releasing(w)
  BY <1>4 DEF Sound, At, Reconciling, Releasing
<1> QED
  BY <1>2, <1>3, <1>4

\* A step of w leaves the other workers sound, and w if it ends up so.
LEMMA StepPreserves ==
  ASSUME IInv, NEW w \in Worker, NEW j \in Jobs, Becomes(w, j),
         status' \in [Task -> Status], reopened' \in [Worker -> SUBSET Task],
         moves' \in Nat, crashes' \in Nat, Steady, Sound(w)'
  PROVE  IInv'
<1>1. TypeOK'
  BY DEF IInv, TypeOK, Becomes
<1>2. ASSUME NEW v \in Worker, v # w PROVE Sound(v)'
  BY <1>2, OthersSound DEF IInv, TypeOK, Becomes
<1> QED
  BY <1>1, <1>2 DEF IInv

\* Idle, or at a harmless point, a worker is sound.
LEMMA HarmlessPreserves ==
  ASSUME IInv, NEW w \in Worker, NEW j \in Jobs, Becomes(w, j),
         status' \in [Task -> Status], reopened' \in [Worker -> SUBSET Task],
         moves' \in Nat, crashes' \in Nat, Steady,
         j.at \in Harmless \cup {"idle"}
  PROVE  IInv'
<1>1. job'[w] = j
  BY DEF IInv, TypeOK, Becomes
<1>2. Sound(w)'
  BY <1>1 DEF Sound, Harmless, At, Releasing
<1> QED
  BY <1>2, StepPreserves

\* So does one that keeps to a task it releases already.
LEMMA ReleasingPreserves ==
  ASSUME IInv, NEW w \in Worker, NEW j \in Jobs, Becomes(w, j),
         status' \in [Task -> Status], reopened' \in [Worker -> SUBSET Task],
         moves' \in Nat, crashes' \in Nat, Steady,
         Releasing(w), j.dep = job[w].dep, j.unread = job[w].unread,
         j.at # "check"
  PROVE  IInv'
<1>1. job'[w] = j
  BY DEF IInv, TypeOK, Becomes
<1>2. job[w].at \notin {"idle", "list", "next"}
  BY DEF Releasing, At
<1>3. Sound(w)'
  BY <1>1, <1>2 DEF IInv, Sound, At, Steady, FoundSatisfied, Accounted
<1> QED
  BY <1>3, StepPreserves

-----------------------------------------------------------------------------
\* Reading blockers.
LEMMA TakePreserves ==
  ASSUME IInv, NEW w \in Worker, Take(w)
  PROVE  IInv'
<1>1. PICK d \in job[w].todo :
        Becomes(w, [job[w] EXCEPT !.at = "check", !.todo = @ \ {d}, !.dep = d,
                                  !.left = Blockers[d], !.unread = {}])
  BY DEF Take
<1> DEFINE j == [job[w] EXCEPT !.at = "check", !.todo = @ \ {d}, !.dep = d,
                               !.left = Blockers[d], !.unread = {}]
<1>2. /\ job[w] \in Active /\ job[w].todo \subseteq Task
      /\ At(w, "next")
  BY JobType DEF IInv, Take, At
<1>3. d \in Task /\ Blockers[d] \subseteq Task
  BY <1>1, <1>2, GraphAssumption
<1>4. j \in Jobs /\ j.dep = d /\ j.left = Blockers[d] /\ j.at = "check"
  BY <1>2, <1>3 DEF Active, Jobs, Idle
<1>5. Becomes(w, j)
  BY <1>1
<1> HIDE DEF j
<1>6. job'[w] = j
  BY <1>5 DEF IInv, TypeOK, Becomes
<1>7. Sound(w)'
  BY <1>4, <1>6 DEF Sound, At, Releasing
<1>8. Steady
  BY <1>2 DEF Take, Steady, Satisfied, IInv, TypeOK, At
<1>9. /\ status' \in [Task -> Status] /\ moves' \in Nat /\ crashes' \in Nat
      /\ reopened' \in [Worker -> SUBSET Task]
  BY DEF Take, IInv, TypeOK
<1> QED
  BY <1>4, <1>5, <1>7, <1>8, <1>9, StepPreserves

\* Blockers whose list cannot be read all count as unread.
LEMMA TakeFailsPreserves ==
  ASSUME IInv, NEW w \in Worker, TakeFails(w)
  PROVE  IInv'
<1>1. PICK d \in job[w].todo :
        Becomes(w, IF w \in Scheduler
                   THEN [job[w] EXCEPT !.at = "check", !.todo = @ \ {d},
                                       !.dep = d, !.left = {},
                                       !.unread = Blockers[d]]
                   ELSE [job[w] EXCEPT !.todo = @ \ {d}])
  BY DEF TakeFails
<1>2. /\ job[w] \in Active /\ job[w].todo \subseteq Task
      /\ At(w, "next") /\ DbMayFail
  BY JobType DEF IInv, TakeFails, At
<1>3. d \in Task
  BY <1>1, <1>2
<1>4. Steady
  BY <1>2 DEF TakeFails, Steady, Satisfied, IInv, TypeOK, At
<1>5. /\ status' \in [Task -> Status] /\ moves' \in Nat /\ crashes' \in Nat
      /\ reopened' \in [Worker -> SUBSET Task]
  BY DEF TakeFails, IInv, TypeOK
<1>6. CASE w \in Scheduler
  <2> DEFINE j == [job[w] EXCEPT !.at = "check", !.todo = @ \ {d}, !.dep = d,
                                 !.left = {}, !.unread = Blockers[d]]
  <2>1. Blockers[d] \subseteq Task /\ w # Startup
    BY <1>3, <1>6, GraphAssumption, WorkerAssumption
  <2>2. /\ j \in Jobs /\ j.at = "check" /\ j.dep = d /\ j.left = {}
        /\ j.unread = Blockers[d]
    BY <1>2, <1>3, <2>1 DEF Active, Jobs, Idle
  <2>3. Becomes(w, j)
    BY <1>1, <1>6
  <2> HIDE DEF j
  <2>4. job'[w] = j
    BY <2>3 DEF IInv, TypeOK, Becomes
  <2>5. Sound(w)'
    BY <2>1, <2>2, <2>4 DEF Sound, Accounted, At, Releasing
  <2> QED
    BY <1>4, <1>5, <2>2, <2>3, <2>5, StepPreserves
<1>7. CASE w \notin Scheduler
  <2> DEFINE j == [job[w] EXCEPT !.todo = @ \ {d}]
  <2>1. j \in Jobs /\ Becomes(w, j) /\ j.at \in Harmless
    BY <1>1, <1>2, <1>7 DEF Active, Jobs, Idle, At, Harmless
  <2> QED
    BY <1>4, <1>5, <2>1, HarmlessPreserves
<1> QED
  BY <1>6, <1>7

\* Reading a blocker accounts for it; the other blockers are as before.
LEMMA ReadingPreserves ==
  ASSUME IInv, NEW w \in Worker, At(w, "check"), NEW b \in job[w].left,
         NEW j \in Jobs, Becomes(w, j), Quiet,
         j.at = "check", j.dep = job[w].dep, j.row = job[w].row,
         j.left = job[w].left \ {b}, job[w].unread \subseteq j.unread,
         \/ Satisfied(b)
         \/ Reconciling(w)
         \/ w # Startup /\ b \in j.unread
  PROVE  IInv'
<1>1. job'[w] = j
  BY DEF IInv, TypeOK, Becomes
<1>2. UNCHANGED <<status, reopened, moves, crashes>>
  BY DEF Quiet
<1>3. Sound(w)'
  <2>1. SUFFICES ASSUME ~Reconciling(w),
                        NEW c \in Blockers[job[w].dep] \ (job[w].left \ {b})
                 PROVE  \/ Satisfied(c) \/ c \in reopened[w]
                        \/ w # Startup /\ c \in j.unread
    BY <1>1, <1>2
    DEF Sound, Accounted, At, Releasing, Reconciling, Satisfied
  <2>2. CASE c = b
    BY <2>1, <2>2
  <2>3. CASE c # b
    BY <2>1, <2>3 DEF IInv, Sound, Accounted
  <2> QED
    BY <2>2, <2>3
<1>4. /\ status' \in [Task -> Status] /\ moves' \in Nat /\ crashes' \in Nat
      /\ reopened' \in [Worker -> SUBSET Task] /\ Steady
  BY <1>2, KeepSteady DEF IInv, TypeOK
<1> QED
  BY <1>3, <1>4, StepPreserves

\* A blocker read as satisfied is off the list of those left.
LEMMA BlockerSatisfiedPreserves ==
  ASSUME IInv, NEW w \in Worker, BlockerSatisfied(w)
  PROVE  IInv'
<1>1. PICK b \in job[w].left :
        /\ Satisfied(b)
        /\ Becomes(w, [job[w] EXCEPT !.left = @ \ {b}])
  BY DEF BlockerSatisfied
<1> DEFINE j == [job[w] EXCEPT !.left = @ \ {b}]
<1>2. job[w] \in Active /\ At(w, "check")
  BY JobType DEF IInv, BlockerSatisfied, At
<1>3. /\ j \in Jobs /\ j.at = "check" /\ j.dep = job[w].dep
      /\ j.left = job[w].left \ {b} /\ j.unread = job[w].unread
      /\ j.row = job[w].row
  BY <1>2 DEF Active, Jobs, Idle, At
<1>4. Becomes(w, j) /\ Quiet
  BY <1>1 DEF BlockerSatisfied
<1> HIDE DEF j
<1> QED
  BY <1>1, <1>2, <1>3, <1>4, ReadingPreserves

\* A blocker that cannot be read is recorded as such.
LEMMA BlockerUnreadPreserves ==
  ASSUME IInv, NEW w \in Worker, BlockerUnread(w)
  PROVE  IInv'
<1>1. PICK b \in job[w].left :
        Becomes(w, [job[w] EXCEPT !.left = @ \ {b}, !.unread = @ \cup {b}])
  BY DEF BlockerUnread
<1> DEFINE j == [job[w] EXCEPT !.left = @ \ {b}, !.unread = @ \cup {b}]
<1>2. /\ job[w] \in Active /\ At(w, "check") /\ job[w].left \subseteq Task
  BY JobType DEF IInv, BlockerUnread, At
<1>3. /\ j \in Jobs /\ j.at = "check" /\ j.dep = job[w].dep
      /\ j.left = job[w].left \ {b} /\ j.unread = job[w].unread \cup {b}
      /\ j.row = job[w].row
  BY <1>2 DEF Active, Jobs, Idle, At
<1>4. Becomes(w, j) /\ Quiet
  BY <1>1 DEF BlockerUnread
<1> HIDE DEF j
<1>5. Reconciling(w) \/ w # Startup
  BY DEF BlockerUnread, FailOpen, Reconciling
<1> QED
  BY <1>2, <1>3, <1>4, <1>5, ReadingPreserves

\* With no blocker left, all are accounted for.
LEMMA AllSatisfiedPreserves ==
  ASSUME IInv, NEW w \in Worker, AllSatisfied(w)
  PROVE  IInv'
<1>1. At(w, "check") /\ job[w].left = {} /\ Goto(w, Cleared(w))
  BY DEF AllSatisfied
<1>2. /\ Cleared(w) \in {"read", "mark", "next", "write"}
      /\ Reconciling(w) => Cleared(w) = "next"
  BY WorkerAssumption DEF Cleared, Reconciling
<1> DEFINE j == [job[w] EXCEPT !.at = Cleared(w)]
<1>3. /\ j \in Jobs /\ Becomes(w, j)
      /\ job'[w].at = Cleared(w) /\ job'[w].dep = job[w].dep
      /\ job'[w].unread = job[w].unread
  BY <1>1, <1>2, GotoType DEF IInv, At, Harmless
<1>4. UNCHANGED <<status, reopened, moves, crashes>>
  BY DEF AllSatisfied, Quiet
<1>5. Sound(w)'
  <2>1. CASE Reconciling(w)
    BY <1>2, <1>3, <2>1 DEF Sound, At, Releasing
  <2>2. CASE ~Reconciling(w)
    BY <1>1, <1>2, <1>3, <1>4, <2>2
    DEF IInv, Sound, At, FoundSatisfied, Accounted, Satisfied
  <2> QED
    BY <2>1, <2>2
<1>6. /\ status' \in [Task -> Status] /\ moves' \in Nat /\ crashes' \in Nat
      /\ reopened' \in [Worker -> SUBSET Task] /\ Steady
  BY <1>4, KeepSteady DEF IInv, TypeOK
<1> QED
  BY <1>3, <1>5, <1>6, StepPreserves

\* A blocker that holds the task back ends the check.
LEMMA BlockerUnsatisfiedPreserves ==
  ASSUME IInv, NEW w \in Worker, BlockerUnsatisfied(w)
  PROVE  IInv'
<1>1. At(w, "check") /\ Goto(w, Held(w))
  BY DEF BlockerUnsatisfied
<1>2. /\ Held(w) \in {"readwaiting", "reblock", "next", "write"}
      /\ Held(w) = "write" => Reconciling(w)
  BY DEF Held
<1> DEFINE j == [job[w] EXCEPT !.at = Held(w)]
<1>3. /\ j \in Jobs /\ Becomes(w, j)
      /\ job'[w].at = Held(w) /\ job'[w].row = job[w].row
  BY <1>1, <1>2, GotoType DEF IInv, At, Harmless
<1>4. Sound(w)'
  BY <1>2, <1>3 DEF Sound, At, Releasing, Reconciling
<1>5. /\ status' \in [Task -> Status] /\ moves' \in Nat /\ crashes' \in Nat
      /\ reopened' \in [Worker -> SUBSET Task] /\ Steady
  BY KeepSteady DEF BlockerUnsatisfied, Quiet, IInv, TypeOK
<1> QED
  BY <1>3, <1>4, <1>5, StepPreserves

-----------------------------------------------------------------------------
\* Steps that write a row, or none, and end at a harmless point.
Written(w) ==
  /\ \/ \E s \in Status : Write(job[w].dep, s)
     \/ UNCHANGED <<status, reopened>>
  /\ UNCHANGED <<moves, crashes>>

\* A write by a worker keeps what the others have read.
LEMMA WrittenSteady ==
  ASSUME IInv, NEW w \in Worker, ~At(w, "idle"), Written(w)
  PROVE  /\ status' \in [Task -> Status]
         /\ reopened' \in [Worker -> SUBSET Task]
         /\ moves' \in Nat /\ crashes' \in Nat
         /\ Steady
<1>1. TypeOK /\ job[w].dep \in Task
  BY JobType DEF IInv
<1>2. moves' \in Nat /\ crashes' \in Nat
  BY <1>1 DEF Written, TypeOK
<1>3. CASE UNCHANGED <<status, reopened>>
  BY <1>1, <1>2, <1>3, KeepSteady
<1>4. CASE \E s \in Status : Write(job[w].dep, s)
  BY <1>1, <1>2, <1>4, WriteSteady
<1> QED
  BY <1>3, <1>4 DEF Written

\* A worker that writes moves to where it promises nothing.
LEMMA WritingPreserves ==
  ASSUME IInv, NEW w \in Worker, ~At(w, "idle"), NEW p \in Harmless,
         Goto(w, p), Written(w)
  PROVE  IInv'
<1> DEFINE j == [job[w] EXCEPT !.at = p]
<1>1. j \in Jobs /\ Becomes(w, j) /\ job'[w].at = p
  BY GotoType DEF IInv
<1>2. job'[w] = j
  BY <1>1 DEF IInv, TypeOK, Becomes
<1>3. j.at \in Harmless \cup {"idle"}
  BY <1>1, <1>2
<1> HIDE DEF j
<1> QED
  BY <1>1, <1>3, WrittenSteady, HarmlessPreserves

\* A worker that ends its job promises nothing.
LEMMA IdlePreserves ==
  ASSUME IInv, NEW w \in Worker, ~At(w, "idle"), Becomes(w, Idle), Written(w)
  PROVE  IInv'
<1>1. Idle \in Jobs /\ Idle.at \in Harmless \cup {"idle"}
  BY DEF Jobs, Idle
<1> QED
  BY <1>1, WrittenSteady, HarmlessPreserves

\* The statuses that workers write.
LEMMA TargetStatus ==
  ASSUME NEW s, NEW t
  PROVE  RepairTarget(s) \in Status /\ StartTarget(t) \in Status
  BY StatusNames DEF RepairTarget, StartTarget

\* A walk's steps that leave the row alone, or end the release of a task.
LEMMA WalkPreserves ==
  ASSUME IInv, NEW w \in Worker, WalkStep(w), ~ReadRow(w)
  PROVE  IInv'
<1>1. CASE ReadWaitingRow(w)
  <2> DEFINE j == [job[w] EXCEPT !.at = "names", !.row = status[job[w].dep],
                                 !.left = Blockers[job[w].dep]]
  <2>1. job[w] \in Active /\ job[w].dep \in Task /\ ~At(w, "idle")
    BY <1>1, JobType DEF IInv, ReadWaitingRow, At
  <2>2. /\ status[job[w].dep] \in Status
        /\ Blockers[job[w].dep] \subseteq Task
    BY <2>1, GraphAssumption DEF IInv, TypeOK
  <2>3. j \in Jobs /\ j.at \in Harmless
    BY <2>1, <2>2 DEF Active, Jobs, Idle, Harmless
  <2>4. Becomes(w, j) /\ Written(w)
    BY <1>1 DEF ReadWaitingRow, Quiet, Written
  <2> HIDE DEF j
  <2> QED
    BY <2>1, <2>3, <2>4, WrittenSteady, HarmlessPreserves
<1>2. CASE ReadRowFails(w)
  BY <1>2, WritingPreserves
  DEF ReadRowFails, Quiet, Written, Harmless, At
<1>3. CASE Unblock(w)
  BY <1>3, StatusNames, WritingPreserves DEF Unblock, Written, Harmless, At
<1>4. CASE UnblockRecord(w)
  BY <1>4, StatusNames, WritingPreserves
  DEF UnblockRecord, Record, Written, Harmless, At
<1>5. CASE BlockerUnnamed(w)
  <2>1. PICK b \in job[w].left : Becomes(w, [job[w] EXCEPT !.left = @ \ {b}])
    BY <1>5 DEF BlockerUnnamed
  <2> DEFINE j == [job[w] EXCEPT !.left = @ \ {b}]
  <2>2. job[w] \in Active /\ At(w, "names") /\ ~At(w, "idle")
    BY <1>5, JobType DEF IInv, BlockerUnnamed, At
  <2>3. j \in Jobs /\ j.at \in Harmless
    BY <2>2 DEF Active, Jobs, Idle, At, Harmless
  <2>4. Becomes(w, j) /\ Written(w)
    BY <1>5, <2>1 DEF BlockerUnnamed, Quiet, Written
  <2> HIDE DEF j
  <2> QED
    BY <2>2, <2>3, <2>4, WrittenSteady, HarmlessPreserves
<1>6. CASE BlockerNamed(w)
  BY <1>6, WritingPreserves DEF BlockerNamed, Quiet, Written, Harmless, At
<1>7. CASE NothingNamed(w)
  BY <1>7, IdlePreserves DEF NothingNamed, Quiet, Written, At
<1>8. CASE WriteReason(w)
  <2>1. ~At(w, "idle") /\ job[w].row \in Status
    BY <1>8, JobType DEF IInv, WriteReason, At
  <2> QED
    BY <1>8, <2>1, WritingPreserves
    DEF WriteReason, Rewrite, Written, Harmless
<1> QED
  BY <1>1, <1>2, <1>3, <1>4, <1>5, <1>6, <1>7, <1>8 DEF WalkStep

\* A task is released only after a check that found its blockers satisfied.
LEMMA ReadRowPreserves ==
  ASSUME IInv, NEW w \in Worker, ReadRow(w)
  PROVE  IInv'
<1> DEFINE d == job[w].dep
           p == IF status[d] = "Blocked" THEN "unblock" ELSE "next"
           j == [job[w] EXCEPT !.row = status[d], !.at = p]
<1>1. /\ job[w] \in Active /\ d \in Task /\ status[d] \in Status
      /\ At(w, "read") /\ ~At(w, "idle")
  BY JobType DEF IInv, TypeOK, ReadRow, At
<1>2. j \in Jobs /\ j.dep = d /\ j.unread = job[w].unread /\ j.at # "check"
  BY <1>1 DEF Active, Jobs, Idle
<1>3. Becomes(w, j) /\ Written(w) /\ Releasing(w)
  BY <1>1 DEF ReadRow, Quiet, Written, Releasing, At
<1> HIDE DEF j
<1> QED
  BY <1>1, <1>2, <1>3, WrittenSteady, ReleasingPreserves

\* The steps of the scheduler between the blockers and the start.
LEMMA MarkPreserves ==
  ASSUME IInv, NEW w \in Worker, Mark(w) \/ Claim(w)
  PROVE  IInv'
<1>1. ~At(w, "idle") /\ Releasing(w) /\ job[w].row \in Status
  BY JobType DEF IInv, Mark, Claim, Releasing, At
<1>2. Written(w)
  BY <1>1 DEF Mark, Claim, Rewrite, Quiet, Written
<1>3. CASE Becomes(w, Idle)
  BY <1>1, <1>2, <1>3, IdlePreserves
<1>4. ASSUME NEW p \in {"claim", "start"}, Goto(w, p) PROVE IInv'
  <2> DEFINE j == [job[w] EXCEPT !.at = p]
  <2>1. /\ j \in Jobs /\ Becomes(w, j) /\ job'[w].at = p
        /\ job'[w].dep = job[w].dep /\ job'[w].unread = job[w].unread
    BY <1>1, <1>4, GotoType DEF IInv
  <2>2. job'[w] = j
    BY <2>1 DEF IInv, TypeOK, Becomes
  <2>3. /\ j.dep = job[w].dep /\ j.unread = job[w].unread
        /\ j.at # "check"
    BY <2>1, <2>2
  <2> HIDE DEF j
  <2> QED
    BY <1>1, <1>2, <2>1, <2>3, WrittenSteady, ReleasingPreserves
<1> QED
  BY <1>3, <1>4 DEF Mark, Claim

\* A scheduler that lists the Ready tasks has read no blocker yet.
LEMMA SchedulePreserves ==
  ASSUME IInv, NEW w \in Worker, ScheduleStep(w), ~Mark(w), ~Claim(w)
  PROVE  IInv'
<1>1. CASE Reblock(w)
  BY <1>1, StatusNames, WritingPreserves DEF Reblock, Written, Harmless, At
<1>2. CASE ReblockRecord(w)
  BY <1>2, StatusNames, WritingPreserves
  DEF ReblockRecord, Record, Written, Harmless, At
<1>3. CASE PassOver(w)
  BY <1>3, WritingPreserves DEF PassOver, Quiet, Written, Harmless, At
<1>4. CASE StartTask(w)
  <2>1. ~At(w, "idle") /\ Written(w)
    BY <1>4, TargetStatus DEF StartTask, Written, At
  <2>2. Becomes(w, Idle) \/ Goto(w, "startrecord")
    BY <1>4 DEF StartTask
  <2> QED
    BY <2>1, <2>2, WritingPreserves, IdlePreserves DEF Harmless
<1>5. CASE StartRecord(w)
  BY <1>5, TargetStatus, WritingPreserves
  DEF StartRecord, Record, Written, Harmless, At
<1>6. CASE Entered(w)
  BY <1>6, IdlePreserves DEF Entered, Quiet, Written, At
<1> QED
  BY <1>1, <1>2, <1>3, <1>4, <1>5, <1>6 DEF ScheduleStep

\* Startup, and what all workers share besides the blockers.
LEMMA StartupPreserves ==
  ASSUME IInv, NEW w \in Worker, StartupStep(w) \/ WriteFails(w) \/ Done(w)
  PROVE  IInv'
<1>1. CASE List(w)
  <2>1. PICK listed \in {{t \in Task : status[t] = job[w].row}}
                          \cup (IF DbMayFail THEN {{}} ELSE {}) :
          Becomes(w, [job[w] EXCEPT !.at = "next", !.todo = listed])
    BY <1>1 DEF List
  <2> DEFINE j == [job[w] EXCEPT !.at = "next", !.todo = listed]
  <2>2. listed \subseteq Task
    BY <2>1
  <2>3. job[w] \in Active /\ ~At(w, "idle")
    BY <1>1, JobType DEF IInv, List, At
  <2>4. j \in Jobs /\ j.at \in Harmless
    BY <2>2, <2>3 DEF Active, Jobs, Idle, Harmless
  <2>5. Becomes(w, j) /\ Written(w)
    BY <1>1, <2>1 DEF List, Quiet, Written
  <2> HIDE DEF j
  <2> QED
    BY <2>3, <2>4, <2>5, WrittenSteady, HarmlessPreserves
<1>2. CASE Repair(w)
  BY <1>2, TargetStatus, WritingPreserves DEF Repair, Written, Harmless, At
<1>3. CASE RepairRecord(w)
  BY <1>3, TargetStatus, WritingPreserves
  DEF RepairRecord, Record, Written, Harmless, At
<1>4. CASE WriteFails(w)
  <2>1. ~At(w, "idle") /\ Written(w)
    BY <1>4 DEF WriteFails, Quiet, Written, At
  <2>2. Becomes(w, Idle) \/ Goto(w, "next")
    BY <1>4 DEF WriteFails
  <2> QED
    BY <2>1, <2>2, WritingPreserves, IdlePreserves DEF Harmless
<1>5. CASE Done(w)
  <2>1. ~At(w, "idle") /\ Written(w) /\ job[w] \in Active
    BY <1>5, JobType DEF IInv, Done, Quiet, Written, At
  <2>2. CASE Becomes(w, Idle)
    BY <2>1, <2>2, IdlePreserves
  <2>3. CASE /\ job[w].row \in DOMAIN NextList
             /\ Becomes(w, [job[w] EXCEPT !.at = "list", !.row = NextList[@]])
    <3> DEFINE j == [job[w] EXCEPT !.at = "list", !.row = NextList[@]]
    <3>1. NextList[job[w].row] \in Status
      BY <2>3, StatusNames
    <3>2. j \in Jobs /\ j.at \in Harmless
      BY <2>1, <3>1 DEF Active, Jobs, Idle, Harmless
    <3>3. Becomes(w, j)
      BY <2>3
    <3> HIDE DEF j
    <3> QED
      BY <2>1, <3>2, <3>3, WrittenSteady, HarmlessPreserves
  <2> QED
    BY <1>5, <2>2, <2>3 DEF Done
<1> QED
  BY <1>1, <1>2, <1>3, <1>4, <1>5 DEF StartupStep

\* Every step of a worker keeps the invariant.
LEMMA WorkerStepPreserves ==
  ASSUME IInv, NEW w \in Worker, Step(w)
  PROVE  IInv'
  BY TakePreserves, TakeFailsPreserves, BlockerSatisfiedPreserves,
     BlockerUnreadPreserves, AllSatisfiedPreserves,
     BlockerUnsatisfiedPreserves, WalkPreserves, ReadRowPreserves,
     MarkPreserves, SchedulePreserves, StartupPreserves
  DEF Step

-----------------------------------------------------------------------------
\* Steps that begin a job, and crashes.
LEMMA WalkType ==
  ASSUME NEW t \in Task
  PROVE  /\ Walk(t) \in Jobs /\ Walk(t).at \in Harmless \cup {"idle"}
         /\ t \in Worker
  BY ListedType, StatusNames DEF Walk, Harmless, Worker

\* A blocker that moves elsewhere is satisfied, or reopened.
LEMMA MovePreserves ==
  ASSUME IInv, NEW t \in Task, NEW to \in Moves, Move(t, to)
  PROVE  IInv'
<1>1. to \in Status /\ Write(t, to)
  BY StatusAssumption DEF Move
<1>2. /\ status' \in [Task -> Status] /\ reopened' \in [Worker -> SUBSET Task]
      /\ Steady /\ moves' \in Nat /\ crashes' \in Nat
  BY <1>1, WriteSteady DEF IInv, TypeOK, Move
<1>3. CASE Becomes(t, Walk(t))
  BY <1>2, <1>3, WalkType, HarmlessPreserves
<1>4. CASE UNCHANGED job
  <2>1. TypeOK'
    BY <1>2, <1>4 DEF IInv, TypeOK
  <2>2. ASSUME NEW w \in Worker PROVE Sound(w)'
    BY <1>2, <1>4, OthersSound
  <2> QED
    BY <2>1, <2>2 DEF IInv
<1> QED
  BY <1>3, <1>4 DEF Move

\* Another walk over the waiting tasks starts from nothing read.
LEMMA UnblockAgainPreserves ==
  ASSUME IInv, NEW t \in Task, UnblockAgain(t)
  PROVE  IInv'
<1>1. /\ status' \in [Task -> Status] /\ reopened' \in [Worker -> SUBSET Task]
      /\ Steady /\ moves' \in Nat /\ crashes' \in Nat
  BY KeepSteady DEF IInv, TypeOK, UnblockAgain
<1> QED
  BY <1>1, WalkType, HarmlessPreserves DEF UnblockAgain

\* A scheduler that wakes has read nothing.
LEMMA WakePreserves ==
  ASSUME IInv, NEW w \in Scheduler, Schedule(w)
  PROVE  IInv'
<1> DEFINE j == Listed({t \in Task : status[t] = "Ready"}, "next", "Ready")
<1>1. j \in Jobs /\ j.at \in Harmless \cup {"idle"}
  BY ListedType, StatusNames DEF Harmless
<1>2. /\ status' \in [Task -> Status] /\ reopened' \in [Worker -> SUBSET Task]
      /\ Steady /\ moves' \in Nat /\ crashes' \in Nat
  BY KeepSteady DEF IInv, TypeOK, Schedule, Quiet
<1>3. Becomes(w, j) /\ w \in Worker
  BY DEF Schedule, Worker
<1> HIDE DEF j
<1> QED
  BY <1>1, <1>2, <1>3, HarmlessPreserves

\* A crash forgets what was read.
LEMMA CrashPreserves ==
  ASSUME IInv, Crash
  PROVE  IInv'
<1>1. /\ Idle \in Jobs /\ Idle.at = "idle"
      /\ Listed({}, "list", "Blocked") \in Jobs
      /\ Listed({}, "list", "Blocked").at = "list"
  BY ListedType, StatusNames DEF Idle, Jobs
<1>2. \A w \in Worker : job'[w] \in Jobs /\ job'[w].at \in {"idle", "list"}
  BY <1>1 DEF Crash
<1>3. TypeOK'
  BY <1>2 DEF IInv, TypeOK, Crash
<1>4. \A w \in Worker : Sound(w)'
  BY <1>2 DEF Sound, At, Releasing
<1> QED
  BY <1>3, <1>4 DEF IInv

\* The invariant holds at first.
LEMMA InitIInv ==
  ASSUME Init
  PROVE  IInv
<1>1. TypeOK
  BY DEF Init, TypeOK, Jobs
<1>2. \A w \in Worker : job[w].at = "idle"
  BY DEF Init, Idle
<1>3. \A w \in Worker : Sound(w)
  BY <1>2 DEF Sound, At, Releasing
<1> QED
  BY <1>1, <1>3 DEF IInv

\* Every step keeps the invariant.
LEMMA NextIInv ==
  ASSUME IInv, [Next]_vars
  PROVE  IInv'
<1>1. CASE UNCHANGED vars
  <2>1. TypeOK' /\ Steady /\ job' = job
    BY <1>1, KeepSteady DEF IInv, TypeOK, vars
  <2> QED
    BY <2>1, OthersSound DEF IInv
<1>2. CASE Next
  BY <1>2, UnblockAgainPreserves, MovePreserves, WorkerStepPreserves,
     WakePreserves, CrashPreserves
  DEF Next
<1> QED
  BY <1>1, <1>2

-----------------------------------------------------------------------------
\* The invariant of the gate: every job is well formed, and a worker that
\* reads the blockers of a task, or releases it, can account for every blocker
\* it is done with.
THEOREM IInvInductive == Spec => []IInv
<1>1. Init => IInv
  BY InitIInv
<1>2. IInv /\ [Next]_vars => IInv'
  BY NextIInv
<1> QED
  BY <1>1, <1>2, PTL DEF Spec

\* Type correctness: status changes, walks, scheduler passes and startup
\* passes store statuses and jobs only.
THEOREM TypeCorrect == Spec => []TypeOK
<1>1. IInv => TypeOK
  BY DEF IInv
<1> QED
  BY <1>1, IInvInductive, PTL

\* Whatever the dependency graph, and however merges, walks, scheduler passes,
\* crashes and cancellations interleave, nobody makes a task Ready or starts
\* it without having found each blocker Merged or Cancelled, failed queries
\* apart.
THEOREM NeverEarly == Spec => []NeverUnblockedEarly
<1>1. IInv => NeverUnblockedEarly
  BY DEF IInv, Sound, NeverUnblockedEarly
<1> QED
  BY <1>1, IInvInductive, PTL
=============================================================================
