---------------------- MODULE ExecutionRecoveryProofs ----------------------
(***************************************************************************)
(* Type correctness of ExecutionRecovery, the budget of the stored count   *)
(* of new agents included, and that a task whose retries have been stopped *)
(* is left alone.  For any budgets and bounds.                             *)
(***************************************************************************)
EXTENDS ExecutionRecovery, TLAPS

Recoveries ==
  [last : {"none", "retrying", "failed"}, stop : BOOLEAN, tries : Nat,
   cause : Causes]

\* The row of a task that has not run yet, and records without a failure.
LEMMA FreshType ==
  NoRecovery \in Recoveries /\ Emptied \in Recoveries /\ Fresh \in Rows
<1>1. NoRecovery \in Recoveries /\ Emptied \in Recoveries
  BY DEF NoRecovery, Emptied, Recoveries, Causes
<1>2. 0 \in 0 .. MaxRespawns
  BY BudgetAssumption
<1> QED
  BY <1>1, <1>2 DEF Fresh, Rows, Status, Recoveries

\* What the writers make of a record of a failure.
LEMMA RecoveryType ==
  ASSUME NEW v \in Recoveries, NEW c \in Causes
  PROVE  /\ Failure(v, c) \in Recoveries /\ Halted(v, c) \in Recoveries
         /\ [v EXCEPT !.tries = @ + 1, !.last = "retrying", !.cause = c]
              \in Recoveries
<1>1. /\ Failure(v, c) \in Recoveries /\ Halted(v, c) \in Recoveries
  BY DEF Recoveries, Failure, Halted
<1>2. v.tries + 1 \in Nat
  BY DEF Recoveries
<1>3. [v EXCEPT !.tries = v.tries + 1, !.last = "retrying", !.cause = c]
        \in Recoveries
  BY <1>2 DEF Recoveries
<1> QED
  BY <1>1, <1>3

\* What the writers make of a row.
LEMMA RowType ==
  ASSUME NEW r \in Rows
  PROVE  /\ r.status \in Status /\ r.recovery \in Recoveries
         /\ r.timeout \in BOOLEAN /\ r.retries \in 0 .. MaxRespawns
         /\ \A s \in Status : [r EXCEPT !.status = s] \in Rows
         /\ \A v \in Recoveries : [r EXCEPT !.recovery = v] \in Rows
         /\ \A b \in BOOLEAN : [r EXCEPT !.timeout = b] \in Rows
         /\ [r EXCEPT !.failedAt = "recent"] \in Rows
         /\ Failed(r) \in Rows /\ Aged(r) \in Rows
<1>1. /\ r.status \in Status /\ r.recovery \in Recoveries
      /\ r.timeout \in BOOLEAN /\ r.retries \in 0 .. MaxRespawns
      /\ \A s \in Status : [r EXCEPT !.status = s] \in Rows
      /\ \A v \in Recoveries : [r EXCEPT !.recovery = v] \in Rows
      /\ \A b \in BOOLEAN : [r EXCEPT !.timeout = b] \in Rows
  BY DEF Rows, Recoveries
<1>2. \A v \in Recoveries, f \in {"never", "recent", "old"} :
        [r EXCEPT !.status = "Failed", !.failedAt = f, !.recovery = v] \in Rows
  BY DEF Rows, Recoveries, Status
<1>3. Failure(r.recovery, "unknown") \in Recoveries
  BY <1>1, RecoveryType DEF Causes
<1>4. /\ r.failedAt \in {"never", "recent", "old"}
      /\ \A f \in {"never", "recent", "old"} :
           [r EXCEPT !.failedAt = f] \in Rows
  BY DEF Rows, Recoveries
<1>5. Failed(r) \in Rows
  BY <1>1, <1>2, <1>3, <1>4 DEF Failed
<1>6. Aged(r) \in Rows
  BY <1>4 DEF Aged
<1> QED
  BY <1>1, <1>4, <1>5, <1>6

\* Initial states are well typed.
LEMMA InitType == ASSUME Init PROVE TypeOK
<1>1. /\ row = Fresh /\ run = "none" /\ registered = FALSE
      /\ entry = [e \in Enterer |-> [pc |-> "idle", row |-> Fresh]]
      /\ handler = [pc |-> "idle", row |-> Fresh]
      /\ loop = [pc |-> "idle", row |-> Fresh]
  BY DEF Init
<1>2. /\ deaths \in 0 .. MaxDeaths /\ acts \in 0 .. MaxActs
      /\ breaks \in 0 .. MaxBreaks /\ respawns \in 0 .. MaxRespawns + 1
  BY BudgetAssumption, BoundAssumption DEF Init
<1> QED
  BY <1>1, <1>2, FreshType DEF TypeOK

-----------------------------------------------------------------------------
(***************************************************************************)
(* Type correctness, part by part                                          *)
(***************************************************************************)

AgentType ==
  /\ run \in {"none", "running", "completed", "failed"}
  /\ registered \in BOOLEAN
  /\ registered => run = "running"

EntryType == entry \in [Enterer -> [pc : {"idle", "git", "isolated", "spawn"},
                                    row : Rows]]

HandlerType == handler \in [pc : {"idle", "read", "write", "fail"}, row : Rows]

LoopType ==
  loop \in [pc : {"idle", "look", "fail", "respawn",
                  "clean", "record", "retry", "startup"},
            row : Rows]

CountType ==
  /\ deaths \in 0 .. MaxDeaths /\ acts \in 0 .. MaxActs
  /\ breaks \in 0 .. MaxBreaks /\ respawns \in 0 .. MaxRespawns + 1

\* The parts are the whole.
LEMMA Parts ==
  TypeOK <=> /\ row \in Rows /\ AgentType /\ EntryType /\ HandlerType
             /\ LoopType /\ CountType
  BY DEF TypeOK, AgentType, EntryType, HandlerType, LoopType, CountType

\* The type invariant of the next state, from its parts.
LEMMA PartsNext ==
  ASSUME row' \in Rows, AgentType', EntryType', HandlerType', LoopType',
         CountType'
  PROVE  TypeOK'
  BY DEF TypeOK, AgentType, EntryType, HandlerType, LoopType, CountType

\* What the writes of the row, of an entry, of the counts keep.
LEMMA Writes ==
  ASSUME TypeOK, NEW r \in Rows
  PROVE  /\ WriteRow(r) => row' \in Rows
         /\ WriteMetadata(r) => row' \in Rows
         /\ \A s \in Status : MoveFrom(s, r) => row' \in Rows
         /\ UNCHANGED row => row' \in Rows
<1>1. row \in Rows /\ row.status \in Status
  BY RowType DEF TypeOK
<1> QED
  BY <1>1, RowType DEF WriteRow, WriteMetadata, MoveFrom

\* An entry that moves on stays well typed.
LEMMA Entries ==
  ASSUME TypeOK, NEW r \in Rows, NEW e \in Enterer,
         NEW p \in {"idle", "git", "isolated", "spawn"}, EntryGoes(e, p, r)
  PROVE  EntryType'
  BY DEF TypeOK, EntryGoes, EntryType

\* The counts stay within their bounds.
LEMMA Counts ==
  ASSUME TypeOK, UNCHANGED respawns, Acts \/ Fails \/ UNCHANGED bounds
  PROVE  CountType'
<1>1. /\ deaths \in 0 .. MaxDeaths /\ acts \in 0 .. MaxActs
      /\ breaks \in 0 .. MaxBreaks /\ respawns \in 0 .. MaxRespawns + 1
  BY DEF TypeOK
<1> QED
  BY <1>1, BoundAssumption DEF Acts, Fails, bounds, CountType

\* The rows that somebody holds.
LEMMA Held ==
  ASSUME TypeOK
  PROVE  /\ row \in Rows /\ handler.row \in Rows /\ loop.row \in Rows
         /\ \A e \in Enterer : entry[e].row \in Rows
         /\ Fresh \in Rows
  BY FreshType DEF TypeOK

\* PartsNext that a step leaves alone.
LEMMA Frame ==
  ASSUME TypeOK
  PROVE  /\ UNCHANGED agent => AgentType'
         /\ UNCHANGED entry => EntryType'
         /\ UNCHANGED handler => HandlerType'
         /\ UNCHANGED loop => LoopType'
         /\ UNCHANGED <<bounds, respawns>> => CountType'
  BY DEF TypeOK, agent, bounds, AgentType, EntryType, HandlerType, LoopType,
         CountType

\* Execution begins, its worktree is prepared, its agent starts.
LEMMA EntersType ==
  ASSUME TypeOK, Begin \/ \E e \in Enterer : Enters(e)
  PROVE  TypeOK'
<1>1. CASE Begin
  <2>1. row' \in Rows
    BY <1>1, Held, RowType DEF Begin, WriteRow, Status
  <2>2. EntryType'
    BY <1>1, <2>1, Entries DEF Begin, Enterer
  <2>3. CountType'
    <3>1. /\ deaths \in 0 .. MaxDeaths /\ acts \in 0 .. MaxActs
          /\ breaks \in 0 .. MaxBreaks /\ respawns' = 0
      BY <1>1 DEF TypeOK, Begin
    <3>2. UNCHANGED bounds \/ Acts
      BY <1>1 DEF Begin
    <3> QED
      BY <3>1, <3>2, BudgetAssumption, BoundAssumption
         DEF Acts, bounds, CountType
  <2> QED
    BY <1>1, <2>1, <2>2, <2>3, Frame, PartsNext DEF Begin
<1>2. ASSUME NEW e \in Enterer, Prepared(e)
      PROVE  TypeOK'
  BY <1>2, Held, Writes, Entries, Frame, PartsNext DEF Prepared
<1>3. ASSUME NEW e \in Enterer, Blocked(e)
      PROVE  TypeOK'
  <2>1. [row EXCEPT !.status = "Failed"] \in Rows
    BY Held, RowType DEF Status
  <2> QED
    BY <1>3, <2>1, Writes, Entries, Counts, Frame, PartsNext DEF Blocked
<1>4. ASSUME NEW e \in Enterer, RecordIsolation(e)
      PROVE  TypeOK'
  <2>1. Failure(NoRecovery, "isolation") \in Recoveries
    BY FreshType, RecoveryType DEF Causes
  <2>2. [entry[e].row EXCEPT !.recovery = Failure(NoRecovery, "isolation")]
          \in Rows
    BY <2>1, Held, RowType
  <2> QED
    BY <1>4, <2>2, Held, Writes, Entries, Frame, PartsNext DEF RecordIsolation
<1>5. ASSUME NEW e \in Enterer, Spawn(e)
      PROVE  TypeOK'
  <2>1. AgentType'
    BY <1>5 DEF Spawn, AgentType
  <2> QED
    BY <1>5, <2>1, Held, Entries, Frame, PartsNext DEF Spawn
<1> QED
  BY <1>1, <1>2, <1>3, <1>4, <1>5 DEF Enters

\* The agent ends, and somebody or nobody takes that up.
LEMMA EndsType ==
  ASSUME TypeOK, Complete \/ Die \/ Fail \/ Handles
  PROVE  TypeOK'
<1> USE DEF Status
<1>1. CASE Complete
  <2>1. AgentType'
    BY <1>1 DEF Complete, AgentType
  <2>2. row' \in Rows
    BY <1>1, Held, RowType, Writes DEF Complete
  <2> QED
    BY <1>1, <2>1, <2>2, Frame, PartsNext DEF Complete
<1>2. CASE Die
  <2>1. AgentType'
    BY <1>2 DEF Die, AgentType
  <2> QED
    BY <1>2, <2>1, Held, Counts, Frame, PartsNext DEF Die
<1>3. CASE Fail
  <2>1. AgentType' /\ HandlerType'
    BY <1>3, Held DEF Fail, AgentType, HandlerType
  <2> QED
    BY <1>3, <2>1, Held, Counts, Frame, PartsNext DEF Fail
<1>4. CASE HandlerReads
  <2>1. HandlerType'
    BY <1>4, Held DEF HandlerReads, HandlerType
  <2> QED
    BY <1>4, <2>1, Held, Frame, PartsNext DEF HandlerReads
<1>5. CASE HandlerWrites
  <2> DEFINE r == handler.row
  <2>1. PICK timeout \in BOOLEAN :
          WriteRow([r EXCEPT !.recovery = Failure(@, "crash"),
                             !.timeout = @ \/ timeout])
    BY <1>5 DEF HandlerWrites
  <2>2. r \in Rows /\ Failure(r.recovery, "crash") \in Recoveries
    BY Held, RowType, RecoveryType DEF Causes
  <2> HIDE DEF r
  <2>3. row' \in Rows
    BY <2>1, <2>2 DEF WriteRow, Rows, Recoveries
  <2>4. HandlerType'
    BY <1>5, FreshType DEF HandlerWrites, HandlerType
  <2> QED
    BY <1>5, <2>3, <2>4, Frame, PartsNext DEF HandlerWrites
<1>6. CASE HandlerFails
  <2>1. HandlerType'
    BY <1>6, FreshType DEF HandlerFails, HandlerType
  <2>2. row' \in Rows
    BY <1>6, Held, RowType, Writes DEF HandlerFails
  <2> QED
    BY <1>6, <2>1, <2>2, Frame, PartsNext DEF HandlerFails
<1> QED
  BY <1>1, <1>2, <1>3, <1>4, <1>5, <1>6 DEF Handles

LoopPoints == {"idle", "look", "fail", "respawn",
               "clean", "record", "retry", "startup"}

\* The reconciler goes on, with the row it has or without one.
LEMMA LoopSteps ==
  ASSUME TypeOK
  PROVE  /\ \A p \in LoopPoints : LoopGoes(p) \/ LoopForgets(p) => LoopType'
         /\ LoopEnds => LoopType'
         /\ \A p \in LoopPoints : loop' = [pc |-> p, row |-> row] => LoopType'
<1>1. loop \in [pc : LoopPoints, row : Rows] /\ row \in Rows /\ Fresh \in Rows
  BY Held DEF TypeOK, LoopPoints
<1>2. "idle" \in LoopPoints
  BY DEF LoopPoints
<1>3. LoopType' <=> loop' \in [pc : LoopPoints, row : Rows]
  BY DEF LoopType, LoopPoints
<1> QED
  BY <1>1, <1>2, <1>3 DEF LoopGoes, LoopForgets, LoopEnds

\* The reconciler of tasks in execution.
LEMMA LoopType1 ==
  ASSUME TypeOK,
         \/ LoopReads \/ LoopLeaves \/ LoopReviews \/ LoopHalts \/ LoopFails
         \/ LoopCounts \/ LoopRespawns
  PROVE  TypeOK'
<1> USE DEF Status, LoopPoints
<1>1. CASE LoopReads \/ LoopLeaves
  BY <1>1, Held, LoopSteps, Frame, PartsNext DEF LoopReads, LoopLeaves
<1>2. CASE LoopReviews
  BY <1>2, Held, RowType, Writes, LoopSteps, Frame, PartsNext DEF LoopReviews
<1>3. CASE LoopFails
  BY <1>3, Held, RowType, Writes, LoopSteps, Frame, PartsNext DEF LoopFails
<1>4. CASE LoopHalts
  <2>1. \A c \in Causes :
          [loop.row EXCEPT !.recovery = Halted(@, c)] \in Rows
    BY Held, RowType, RecoveryType
  <2>2. [loop.row EXCEPT !.recovery = Halted(@, "none"),
                         !.failedAt = "recent"] \in Rows
    <3> DEFINE r == [loop.row EXCEPT !.recovery = Halted(@, "none")]
    <3>1. r \in Rows /\ [r EXCEPT !.failedAt = "recent"] \in Rows
      BY <2>1, RowType DEF Causes
    <3> QED
      BY <3>1
  <2>3. row' \in Rows
    BY <1>4, <2>1, <2>2, Held, Writes DEF LoopHalts, Causes
  <2> QED
    BY <1>4, <2>3, LoopSteps, Frame, PartsNext DEF LoopHalts
<1>5. CASE LoopCounts
  <2>1. [loop.row EXCEPT !.retries = @ + 1] \in Rows
    <3>1. loop.row.retries \in 0 .. MaxRespawns
      BY Held, RowType
    <3>2. ~(loop.row.retries >= MaxRespawns)
      BY <1>5 DEF LoopCounts, Exhausted
    <3>3. loop.row.retries + 1 \in 0 .. MaxRespawns
      BY <3>1, <3>2, BudgetAssumption
    <3> QED
      BY <3>3, Held DEF Rows
  <2>2. row' \in Rows
    BY <1>5, <2>1, Held, Writes DEF LoopCounts
  <2> QED
    BY <1>5, <2>2, LoopSteps, Frame, PartsNext DEF LoopCounts
<1>6. CASE LoopRespawns
  <2>1. LoopType'
    BY <1>6, LoopSteps DEF LoopRespawns
  <2>2. CASE UNCHANGED <<row, agent, entry, respawns>>
    BY <1>6, <2>1, <2>2, Held, Frame, PartsNext DEF LoopRespawns
  <2>3. CASE ~UNCHANGED <<row, agent, entry, respawns>>
    <3>1. /\ registered' = FALSE
          /\ run' = IF registered THEN "failed" ELSE run
          /\ WriteRow(loop.row) /\ EntryGoes("reconciler", "git", loop.row)
          /\ respawns' = IF respawns > MaxRespawns THEN respawns
                         ELSE respawns + 1
          /\ UNCHANGED <<handler, bounds>>
      BY <1>6, <2>3 DEF LoopRespawns
    <3>2. AgentType'
      BY <3>1 DEF TypeOK, AgentType
    <3>3. EntryType'
      BY <3>1, Held, Entries DEF Enterer
    <3>4. CountType'
      <4>1. CountType
        BY Parts
      <4> QED
        BY <3>1, <4>1, BudgetAssumption DEF CountType, bounds
    <3> QED
      BY <2>1, <3>1, <3>2, <3>3, <3>4, Held, Writes, Frame, PartsNext
  <2> QED
    BY <2>2, <2>3
<1> QED
  BY <1>1, <1>2, <1>3, <1>4, <1>5, <1>6

\* The reconciler of failed tasks, and its look at them at startup.
LEMMA LoopType2 ==
  ASSUME TypeOK,
         \/ LoopChecks \/ LoopCleans \/ LoopRecords \/ LoopRetries
         \/ StartupRecovers \/ StartupStartsOver \/ StartupSkips
  PROVE  TypeOK'
<1> USE DEF Status, LoopPoints
<1>1. CASE LoopChecks
  <2>1. [row EXCEPT !.recovery = Halted(@, "none")] \in Rows
    BY Held, RowType, RecoveryType DEF Causes
  <2>2. row' \in Rows
    BY <1>1, <2>1, Held, Writes DEF LoopChecks
  <2> QED
    BY <1>1, <2>2, LoopSteps, Frame, PartsNext DEF LoopChecks
<1>2. CASE LoopCleans
  <2>1. [loop.row EXCEPT !.timeout = FALSE] \in Rows
    BY Held, RowType
  <2>2. row' \in Rows
    BY <1>2, <2>1, Writes DEF LoopCleans
  <2> QED
    BY <1>2, <2>2, LoopSteps, Frame, PartsNext DEF LoopCleans
<1>3. ASSUME NEW r \in Rows, NEW c \in Causes
      PROVE  [r EXCEPT !.recovery.tries = @ + 1, !.recovery.last = "retrying",
                       !.recovery.cause = c] \in Rows
  <2> DEFINE v == [r.recovery EXCEPT !.tries = @ + 1, !.last = "retrying",
                                     !.cause = c]
  <2>1. v \in Recoveries /\ r.recovery \in Recoveries
    BY RowType, RecoveryType
  <2>2. [r EXCEPT !.recovery.tries = @ + 1, !.recovery.last = "retrying",
                  !.recovery.cause = c] = [r EXCEPT !.recovery = v]
    BY DEF Rows
  <2> HIDE DEF v
  <2> QED
    BY <2>1, <2>2, RowType
<1>4. CASE LoopRecords
  <2>1. loop.row.recovery.cause \in Causes
    BY Held, RowType DEF Recoveries
  <2>2. row' \in Rows
    BY <1>3, <1>4, <2>1, Held, Writes DEF LoopRecords
  <2> QED
    BY <1>4, <2>2, LoopSteps, Frame, PartsNext DEF LoopRecords
<1>5. CASE LoopRetries
  BY <1>5, Held, RowType, Writes, LoopSteps, Frame, PartsNext DEF LoopRetries
<1>6. CASE StartupRecovers
  <2> DEFINE c == IF loop.row.recovery.cause = "isolation"
                    THEN loop.row.recovery.cause ELSE "crash"
  <2>1. c \in Causes
    BY DEF Causes
  <2>2. WriteMetadata([loop.row EXCEPT
          !.recovery.tries = @ + 1, !.recovery.last = "retrying",
          !.recovery.cause = c])
    BY <1>6, Held DEF StartupRecovers, Rows
  <2> HIDE DEF c
  <2>3. row' \in Rows
    BY <1>3, <2>1, <2>2, Held, Writes
  <2> QED
    BY <1>6, <2>3, LoopSteps, Frame, PartsNext DEF StartupRecovers
<1>7. CASE StartupSkips
  BY <1>7, Held, LoopSteps, Frame, PartsNext DEF StartupSkips
<1>8. CASE StartupStartsOver
  <2>1. row' \in Rows
    BY <1>8, Held, RowType, FreshType, Writes DEF StartupStartsOver
  <2> QED
    BY <1>8, <2>1, LoopSteps, Frame, PartsNext DEF StartupStartsOver
<1> QED
  BY <1>1, <1>2, <1>4, <1>5, <1>6, <1>7, <1>8

\* A restart.
LEMMA CrashType ==
  ASSUME TypeOK, Crash
  PROVE  TypeOK'
<1>1. row' \in Rows
  <2>1. PICK r \in {row, Aged(row)} : row' \in {r, [r EXCEPT !.timeout = FALSE]}
    BY DEF Crash
  <2>2. r \in Rows
    BY <2>1, Held, RowType
  <2>3. [r EXCEPT !.timeout = FALSE] \in Rows
    BY <2>2 DEF Rows
  <2> QED
    BY <2>1, <2>2, <2>3
<1>2. AgentType' /\ HandlerType'
  BY Held DEF Crash, TypeOK, AgentType, HandlerType
<1>3. EntryType'
  BY <1>1, Held DEF Crash, EntryType
<1>4. LoopType'
  BY <1>1, LoopSteps, Held DEF Crash, LoopType
<1>5. CountType'
  <2>1. CountType
    BY Parts
  <2> QED
    BY <2>1, BoundAssumption DEF Crash, Breaks, CountType
<1> QED
  BY <1>1, <1>2, <1>3, <1>4, <1>5, PartsNext

\* The user stops the task, starts it again, or stops its retries.
LEMMA UserType ==
  ASSUME TypeOK, UserStops \/ UserRestarts \/ UserEndsRetries
  PROVE  TypeOK'
<1> USE DEF Status
<1>1. CountType'
  BY Counts DEF UserStops, UserRestarts, UserEndsRetries
<1>2. AgentType'
  <2>1. CASE UserStops
    BY <2>1 DEF UserStops, TypeOK, AgentType
  <2>2. CASE UNCHANGED agent
    BY <2>2, Frame
  <2> QED
    BY <2>1, <2>2 DEF UserRestarts, UserEndsRetries
<1>3. row' \in Rows
  <2>1. CASE UserStops
    BY <2>1, Held, RowType, Writes DEF UserStops
  <2>2. CASE UserRestarts
    <3> DEFINE v == IF row.recovery.last = "none" THEN row.recovery
                    ELSE Emptied
    <3>1. v \in Recoveries
      BY Held, RowType, FreshType
    <3>2. row' = [row EXCEPT !.status = "Ready", !.recovery = v]
      BY <2>2 DEF UserRestarts, WriteRow
    <3> HIDE DEF v
    <3> QED
      BY <3>1, <3>2, Held DEF Rows, Recoveries
  <2>3. CASE UserEndsRetries
    <3>1. [row EXCEPT !.recovery = Halted(@, "none")] \in Rows
      BY Held, RowType, RecoveryType DEF Causes
    <3> QED
      BY <2>3, <3>1, Writes DEF UserEndsRetries
  <2> QED
    BY <2>1, <2>2, <2>3
<1> QED
  BY <1>1, <1>2, <1>3, Frame, PartsNext
  DEF UserStops, UserRestarts, UserEndsRetries

\* The staleness threshold passes.
LEMMA AgesType ==
  ASSUME TypeOK, Ages
  PROVE  TypeOK'
<1>1. row' \in Rows
  BY Held, RowType DEF Ages
<1>2. HandlerType' /\ LoopType'
  BY Held, RowType DEF Ages, TypeOK, HandlerType, LoopType
<1>3. EntryType'
  <2>1. \A e \in Enterer : Aged(entry[e].row) \in Rows
    BY Held, RowType
  <2> QED
    BY <2>1 DEF Ages, TypeOK, EntryType
<1>4. CountType'
  <2>1. CountType
    BY Parts
  <2> QED
    BY <2>1, BoundAssumption DEF Ages, Breaks, CountType
<1> QED
  BY <1>1, <1>2, <1>3, <1>4, Frame, PartsNext DEF Ages

\* Every step keeps the types.
LEMMA NextType == ASSUME TypeOK, [Next]_vars PROVE TypeOK'
<1>1. CASE UNCHANGED vars
  BY <1>1, Held, Frame, PartsNext DEF vars
<1> QED
  BY <1>1, EntersType, EndsType, LoopType1, LoopType2, CrashType, UserType,
     AgesType
     DEF Next, Loops

\* Every variable has its type at all times: in particular the count of new
\* agents that the row and every copy of it carry is never above
\* executing_max_retries, whoever writes back what, and only a run that is said
\* to be running has a registry entry.
THEOREM TypeCorrect == Spec => []TypeOK
<1>1. Init => TypeOK
  BY InitType
<1>2. TypeOK /\ [Next]_vars => TypeOK'
  BY NextType
<1> QED
  BY <1>1, <1>2, PTL DEF Spec

-----------------------------------------------------------------------------
(***************************************************************************)
(* Retries that have been stopped                                          *)
(***************************************************************************)

\* A step in which nobody writes the row, and the reconciler does not take the
\* task up.
LEMMA RowKept ==
  ASSUME GivenUp, NobodyHoldsRow, row' = row,
         UNCHANGED loop \/ loop'.pc = "idle"
           \/ loop' = [pc |-> "startup", row |-> row],
         handler'.pc \in {"idle", "read"},
         \A e \in Enterer : entry'[e].pc \notin {"git", "isolated"}
  PROVE  LeftAlone
  BY DEF GivenUp, LeftAlone, NobodyHoldsRow

\* Once its retries are stopped, and nobody is about to write back the row of
\* before, no step but one of the user's takes the task up or brings it nearer
\* to that.
LEMMA StoppedStep ==
  ASSUME TypeOK, GivenUp, NobodyHoldsRow, ~row.timeout, [Next]_vars
  PROVE  LeftAlone \/ acts' # acts
<1>1. /\ row.status = "Failed" /\ row.recovery.stop
      /\ loop.pc \in {"idle", "startup"} /\ handler.pc \in {"idle", "read"}
      /\ loop.pc = "startup" => loop.row = row
      /\ \A e \in Enterer : entry[e].pc \notin {"git", "isolated"}
      /\ acts \in Nat
  BY DEF GivenUp, NobodyHoldsRow, TypeOK
<1>2. ~Recoverable(row) /\ ~Eligible(row) /\ ~Retrying(row.recovery)
  BY <1>1 DEF Recoverable, Eligible, Retrying
<1>3. CASE Acts
  BY <1>1, <1>3 DEF Acts
<1>4. CASE UNCHANGED vars
  BY <1>1, <1>4, RowKept DEF vars
<1>5. ASSUME NEW e \in Enterer, Enters(e)
      PROVE  LeftAlone
  <2>1. EntryGoes(e, "idle", Fresh) /\ UNCHANGED <<row, loop, handler>>
    BY <1>1, <1>5
       DEF Enters, Prepared, Blocked, RecordIsolation, Spawn, EntryAt
  <2>2. \A d \in Enterer : entry'[d].pc \notin {"git", "isolated"}
    BY <1>1, <2>1 DEF EntryGoes, TypeOK
  <2> QED
    BY <1>1, <2>1, <2>2, RowKept
<1>6. CASE Complete \/ Die \/ Fail \/ Handles
  <2>1. UNCHANGED <<row, entry, loop>>
    BY <1>1, <1>6 DEF Complete, Die, Fail, Handles, HandlerReads,
                      HandlerWrites, HandlerFails, MoveFrom
  <2>2. ~HandlerWrites /\ ~HandlerFails
    BY <1>1 DEF HandlerWrites, HandlerFails
  <2>3. HandlerReads => handler'.pc = "idle"
    BY <1>1 DEF HandlerReads
  <2>4. handler'.pc \in {"idle", "read"}
    BY <1>1, <1>6, <2>2, <2>3 DEF Complete, Die, Fail, Handles
  <2> QED
    BY <1>1, <2>1, <2>4, RowKept
<1>7. CASE Loops
  <2>1. ~ ( \/ LoopReads \/ LoopLeaves \/ LoopReviews \/ LoopHalts \/ LoopFails
            \/ LoopCounts \/ LoopRespawns )
    BY <1>1 DEF LoopReads, LoopLeaves, LoopReviews, LoopHalts, LoopFails,
                LoopCounts, LoopRespawns, LoopAt
  <2>2. ~ (LoopChecks \/ LoopCleans \/ LoopRecords \/ LoopRetries)
    BY <1>1, <1>2 DEF LoopChecks, LoopCleans, LoopRecords, LoopRetries, LoopAt
  <2>3. ~StartupRecovers /\ ~StartupStartsOver
    BY <1>1, <1>2 DEF StartupRecovers, StartupStartsOver, LoopAt
  <2>4. CASE StartupSkips
    BY <1>1, <2>4, RowKept DEF StartupSkips, LoopEnds, LoopForgets
  <2> QED
    BY <1>7, <2>1, <2>2, <2>3, <2>4 DEF Loops
<1>8. CASE Crash
  <2>1. /\ handler'.pc = "idle"
        /\ loop' = [pc |-> "startup", row |-> row']
        /\ row' = row \/ row' = Aged(row)
    BY <1>1, <1>8 DEF Crash, GivenUp
  <2>2. /\ row'.status = row.status /\ row'.recovery = row.recovery
        /\ row'.timeout = row.timeout
    BY <2>1, Held DEF Aged, Rows
  <2>3. \A e \in Enterer : entry'[e].pc \notin {"git", "isolated"}
    BY <1>1, <1>8 DEF Crash, GivenUp
  <2> QED
    BY <1>1, <2>1, <2>2, <2>3 DEF LeftAlone, GivenUp, NobodyHoldsRow
<1>9. CASE Ages
  <2>1. /\ row'.status = row.status /\ row'.recovery = row.recovery
        /\ row'.timeout = row.timeout
    BY <1>9, Held DEF Ages, Aged, Rows
  <2>2. /\ loop'.pc = loop.pc /\ handler'.pc = handler.pc
        /\ loop.row = row => loop'.row = row'
    BY <1>9 DEF Ages, TypeOK
  <2>3. \A e \in Enterer : entry'[e].pc = entry[e].pc
    BY <1>9 DEF Ages, TypeOK
  <2> QED
    BY <1>1, <2>1, <2>2, <2>3 DEF LeftAlone, GivenUp, NobodyHoldsRow
<1> QED
  BY <1>1, <1>3, <1>4, <1>5, <1>6, <1>7, <1>8, <1>9
     DEF Next, Begin, UserStops, UserRestarts, UserEndsRetries

\* stop_retrying is for good: whatever restarts, late agents and rounds of the
\* reconciler follow, a failed task whose retries were stopped stays failed and
\* stopped until the user takes it up, provided that nobody still held the row
\* of before and that it does not bear the mark of a timeout.
THEOREM StoppedForGood == Spec => GivenUpIsLeftAlone
<1>1. TypeOK /\ [Next]_vars =>
        [GivenUp /\ NobodyHoldsRow /\ ~row.timeout
           => (LeftAlone \/ acts' # acts)]_vars
  BY StoppedStep
<1> QED
  BY <1>1, TypeCorrect, PTL DEF Spec, GivenUpIsLeftAlone

=============================================================================
