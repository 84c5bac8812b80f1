---------------------- MODULE TransitionServiceProofs ----------------------
(***************************************************************************)
(* Type correctness of TransitionService, that exit actions run once for   *)
(* every departure a validated transition commits, and that the moves      *)
(* committed so are legal, for any number of tasks and callers.            *)
(***************************************************************************)
EXTENDS TransitionService, FiniteSetTheorems, TLAPS

IInv == TypeOK /\ ExitActionsOncePerDeparture

\* Every status a call writes on its own account is a status.
LEMMA StatusFacts ==
  /\ \A s \in DOMAIN AutoTransition : AutoTransition[s] \in Status
  /\ \A s \in DOMAIN AutoTransition : s \in Status
  /\ {"Failed", "Merged", "Merging", "PendingReview", "Escalated"}
       \subseteq Status
  BY DEF Status, ValidTransitions, AutoTransition

\* The callers that owe exit actions are finitely many.
LEMMA OwingFinite == \A t \in Task : IsFiniteSet(Owing(t))
<1>1. TAKE t \in Task
<1>2. Owing(t) \subseteq Caller
  BY DEF Owing, Unsettled
<1> QED
  BY <1>2, CallerAssumption, FS_Subset

\* A call in progress carries a task and statuses.
LEMMA CallFields ==
  ASSUME TypeOK, NEW c \in Caller, ~At(c, "idle")
  PROVE  call[c] \in CallAt({"cas", "record", "exit", "entry", "setup",
                             "spawn", "auto", "autorecord", "conflict",
                             "restore", "fixexit", "fixread", "fixcas",
                             "fixrecord"})
  BY DEF TypeOK, Calls, Idle, At

\* A step that leaves owed alone, and changes one call that neither is nor
\* becomes unsettled, preserves the count.
LEMMA CountUnchanged ==
  ASSUME IInv, NEW c \in Caller, UNCHANGED owed,
         \A d \in Caller \ {c} : call'[d] = call[d],
         call[c].pc \notin Unsettled, call'[c].pc \notin Unsettled
  PROVE  ExitActionsOncePerDeparture'
<1>1. SUFFICES ASSUME NEW t \in Task
               PROVE  owed'[t] = Cardinality(Owing(t)')
  BY DEF ExitActionsOncePerDeparture
<1>2. Owing(t)' = Owing(t)
  BY DEF Owing, Unsettled
<1> QED
  BY <1>2 DEF IInv, ExitActionsOncePerDeparture

\* A status write keeps the types of the row and of the departure count.
LEMMA WriteStatusType ==
  ASSUME TypeOK, NEW t \in Task, NEW s \in Status, WriteStatus(t, s)
  PROVE  status' \in [Task -> Status] /\ departures' \in [Task -> Nat]
  BY DEF TypeOK, WriteStatus

\* So does one whose error is only logged.
LEMMA TryWriteStatusType ==
  ASSUME TypeOK, NEW t \in Task, NEW s \in Status, TryWriteStatus(t, s)
  PROVE  status' \in [Task -> Status] /\ departures' \in [Task -> Nat]
<1>1. CASE WriteStatus(t, s)
  BY <1>1, WriteStatusType
<1>2. CASE UNCHANGED <<status, departures>>
  BY <1>2 DEF TypeOK
<1> QED
  BY <1>1, <1>2 DEF TryWriteStatus

\* Starting a call: it is not at the point of its exit actions.
LEMMA StartPreserves ==
  ASSUME IInv, NEW c \in Caller, Start(c)
  PROVE  IInv'
<1>1. PICK t \in Task :
        \/ \E to \in Requests : Request(c, t, to)
        \/ Reenter(c, t)
        \/ \E to \in CorrectiveTargets, withExit \in BOOLEAN :
             CorrectiveRequest(c, t, to, withExit)
  BY DEF Start
<1>2. status[t] \in Status /\ call \in [Caller -> Calls] /\ At(c, "idle")
  BY <1>1 DEF IInv, TypeOK, Request, Reenter, CorrectiveRequest
<1>3. PICK r \in CallAt({"cas", "entry", "fixexit", "fixread"}) :
        call' = [call EXCEPT ![c] = r]
  <2>1. CASE \E to \in Requests : Request(c, t, to)
    BY <1>2, <2>1, StatusAssumption DEF Request, CallAt
  <2>2. CASE Reenter(c, t)
    BY <1>2, <2>2 DEF Reenter, CallAt
  <2>3. CASE \E to \in CorrectiveTargets, withExit \in BOOLEAN :
               CorrectiveRequest(c, t, to, withExit)
    BY <1>2, <2>3, StatusAssumption DEF CorrectiveRequest, CallAt
  <2> QED
    BY <1>1, <2>1, <2>2, <2>3
<1>4. r \in Calls /\ r.pc \notin Unsettled
  BY DEF Calls, CallAt, Unsettled
<1>5. /\ UNCHANGED <<status, owed, departures, releases>>
      /\ calls' = calls + 1
  BY <1>1 DEF Request, Reenter, CorrectiveRequest
<1>6. TypeOK'
  BY <1>2, <1>3, <1>4, <1>5 DEF IInv, TypeOK
<1>7. ExitActionsOncePerDeparture'
  <2>1. /\ \A d \in Caller \ {c} : call'[d] = call[d]
        /\ call[c].pc \notin Unsettled /\ call'[c].pc \notin Unsettled
    BY <1>2, <1>3, <1>4 DEF At, Unsettled
  <2> QED
    BY <1>5, <2>1, CountUnchanged
<1> QED
  BY <1>6, <1>7 DEF IInv

\* The write of a validated transition makes its caller, who did not owe exit
\* actions, owe them exactly if the row left a slot-holding status.
LEMMA CasUpdatePreserves ==
  ASSUME IInv, NEW c \in Caller, CasUpdate(c)
  PROVE  IInv'
<1> DEFINE t == call[c].task
<1>1. call[c] \in CallAt({"cas"})
  BY CallFields DEF IInv, CasUpdate, At, CallAt
<1>2. t \in Task /\ call[c].to \in Status /\ call[c].from = status[t]
  BY <1>1 DEF CallAt, CasUpdate, CasHolds
<1>3. call' = [call EXCEPT ![c] = [call[c] EXCEPT !.pc = "record"]]
  BY DEF CasUpdate, Goto
<1>4. [call[c] EXCEPT !.pc = "record"] \in Calls
  BY <1>1 DEF CallAt, Calls
<1>5. TypeOK'
  <2>1. status' \in [Task -> Status] /\ departures' \in [Task -> Nat]
    BY <1>2, WriteStatusType DEF CasUpdate, IInv
  <2>2. call' \in [Caller -> Calls]
    BY <1>3, <1>4 DEF IInv, TypeOK
  <2>3. owed' \in [Task -> Nat] /\ UNCHANGED <<calls, releases>>
    BY <1>2 DEF CasUpdate, IInv, TypeOK
  <2> QED
    BY <2>1, <2>2, <2>3 DEF IInv, TypeOK
<1>6. ExitActionsOncePerDeparture'
  <2>1. SUFFICES ASSUME NEW u \in Task
                 PROVE  owed'[u] = Cardinality(Owing(u)')
    BY DEF ExitActionsOncePerDeparture
  <2>2. owed[u] = Cardinality(Owing(u)) /\ IsFiniteSet(Owing(u))
    BY OwingFinite DEF IInv, ExitActionsOncePerDeparture
  <2>3. /\ \A d \in Caller \ {c} : call'[d] = call[d]
        /\ call'[c].pc = "record" /\ call'[c].task = t
        /\ call'[c].from = status[t]
    BY <1>1, <1>2, <1>3 DEF IInv, TypeOK, CallAt
  <2>4. call[c].pc \notin Unsettled /\ c \notin Owing(u)
    BY <1>1 DEF CallAt, Owing, Unsettled
  <2>5. CASE u = t /\ status[t] \in SlotHolding
    <3>1. Owing(u)' = Owing(u) \cup {c}
      BY <2>3, <2>4, <2>5 DEF Owing, Unsettled
    <3>2. owed'[u] = owed[u] + 1
      BY <1>2, <2>5 DEF CasUpdate, IInv, TypeOK
    <3> QED
      BY <2>2, <2>4, <3>1, <3>2, FS_AddElement
  <2>6. CASE u # t \/ status[t] \notin SlotHolding
    <3>1. Owing(u)' = Owing(u)
      BY <2>3, <2>4, <2>6 DEF Owing, Unsettled
    <3>2. owed'[u] = owed[u]
      BY <1>2, <2>6 DEF CasUpdate, IInv, TypeOK
    <3> QED
      BY <2>2, <3>1, <3>2
  <2> QED
    BY <2>5, <2>6
<1> QED
  BY <1>5, <1>6 DEF IInv

\* Recording the transition leaves the caller owing what it owed.
LEMMA RecordPreserves ==
  ASSUME IInv, NEW c \in Caller, RecordHistory(c)
  PROVE  IInv'
<1>1. call[c] \in CallAt({"record"})
  BY CallFields DEF IInv, RecordHistory, At, CallAt
<1>2. call' = [call EXCEPT ![c] = [call[c] EXCEPT !.pc = "exit"]]
  BY DEF RecordHistory, Goto
<1>3. [call[c] EXCEPT !.pc = "exit"] \in Calls
  BY <1>1 DEF CallAt, Calls
<1>4. TypeOK'
  <2>1. status' \in [Task -> Status] /\ departures' \in [Task -> Nat]
    BY <1>1, TryWriteStatusType DEF RecordHistory, IInv, CallAt
  <2>2. call' \in [Caller -> Calls]
    BY <1>2, <1>3 DEF IInv, TypeOK
  <2> QED
    BY <2>1, <2>2 DEF RecordHistory, IInv, TypeOK
<1>5. \A t \in Task : Owing(t)' = Owing(t)
  <2>1. /\ \A d \in Caller \ {c} : call'[d] = call[d]
        /\ call'[c].pc = "exit" /\ call'[c].task = call[c].task
        /\ call'[c].from = call[c].from
    BY <1>1, <1>2 DEF IInv, TypeOK, CallAt
  <2> QED
    BY <1>1, <2>1 DEF Owing, Unsettled, CallAt
<1>6. ExitActionsOncePerDeparture'
  BY <1>5 DEF RecordHistory, IInv, ExitActionsOncePerDeparture
<1> QED
  BY <1>4, <1>6 DEF IInv

\* Exit actions settle what their caller owes: the count was at least one.
LEMMA ExitActionsPreserves ==
  ASSUME IInv, NEW c \in Caller, ExitActions(c)
  PROVE  IInv'
<1> DEFINE t == call[c].task
<1>1. call[c] \in CallAt({"exit"})
  BY CallFields DEF IInv, ExitActions, At, CallAt
<1>2. t \in Task
  BY <1>1 DEF CallAt
<1>3. call' = [call EXCEPT ![c] = [call[c] EXCEPT !.pc = "entry"]]
  BY DEF ExitActions, Goto
<1>4. [call[c] EXCEPT !.pc = "entry"] \in Calls
  BY <1>1 DEF CallAt, Calls
<1>5. /\ \A d \in Caller \ {c} : call'[d] = call[d]
      /\ call'[c].pc = "entry"
  BY <1>1, <1>3 DEF IInv, TypeOK, CallAt
<1>6. \A u \in Task :
        /\ owed[u] = Cardinality(Owing(u)) /\ IsFiniteSet(Owing(u))
        /\ owed[u] \in Nat
  BY OwingFinite DEF IInv, TypeOK, ExitActionsOncePerDeparture
<1>7. \A u \in Task : owed'[u] = Cardinality(Owing(u)') /\ owed'[u] \in Nat
  <2>1. TAKE u \in Task
  <2>2. CASE u = t /\ call[c].from \in SlotHolding
    <3>1. c \in Owing(u) /\ Owing(u)' = Owing(u) \ {c}
      BY <1>1, <1>5, <2>2 DEF Owing, Unsettled, CallAt
    <3>2. owed'[u] = owed[u] - 1
      BY <1>2, <2>2 DEF ExitActions, IInv, TypeOK
    <3>3. Cardinality(Owing(u)') = owed[u] - 1 /\ IsFiniteSet(Owing(u)')
      BY <1>6, <3>1, FS_RemoveElement
    <3> QED
      BY <3>2, <3>3, FS_CardinalityType
  <2>3. CASE u # t \/ call[c].from \notin SlotHolding
    <3>1. Owing(u)' = Owing(u)
      BY <1>1, <1>5, <2>3 DEF Owing, Unsettled, CallAt
    <3>2. owed'[u] = owed[u]
      BY <1>2, <2>3 DEF ExitActions, IInv, TypeOK
    <3> QED
      BY <1>6, <3>1, <3>2
  <2> QED
    BY <2>2, <2>3
<1>8. TypeOK'
  <2>1. call' \in [Caller -> Calls]
    BY <1>3, <1>4 DEF IInv, TypeOK
  <2>2. releases' \in [Task -> Nat]
    BY <1>2 DEF ExitActions, OnExit, IInv, TypeOK
  <2>3. owed' \in [Task -> Nat]
    BY <1>7 DEF ExitActions, IInv, TypeOK
  <2> QED
    BY <2>1, <2>2, <2>3 DEF ExitActions, IInv, TypeOK
<1> QED
  BY <1>7, <1>8 DEF IInv, ExitActionsOncePerDeparture

\* Every other step moves one call between two points that are not the one of
\* the exit actions, and leaves the count of owed exit actions alone.
LEMMA MovePreserves ==
  ASSUME IInv, NEW c \in Caller, NEW r \in Calls,
         call' = [call EXCEPT ![c] = r],
         call[c].pc \notin Unsettled, r.pc \notin Unsettled,
         UNCHANGED <<calls, owed>>,
         status' \in [Task -> Status],
         departures' \in [Task -> Nat],
         releases' \in [Task -> Nat]
  PROVE  IInv'
<1>1. TypeOK'
  BY DEF IInv, TypeOK
<1>2. ExitActionsOncePerDeparture'
  <2>1. /\ \A d \in Caller \ {c} : call'[d] = call[d]
        /\ call'[c].pc \notin Unsettled
    BY DEF IInv, TypeOK
  <2> QED
    BY <2>1, CountUnchanged
<1> QED
  BY <1>1, <1>2 DEF IInv

\* The steps that change nothing but the call.
LEMMA QuietPreserves ==
  ASSUME IInv, NEW c \in Caller,
         \/ CasLost(c) \/ PlainEntry(c) \/ PrepareRead(c) \/ KeepWorktree(c)
         \/ EntryDone(c) \/ EntryBlocked(c) \/ EntryConflict(c)
         \/ EntryWorktreeMissing(c) \/ Finish(c) \/ FixRead(c) \/ FixLost(c)
  PROVE  IInv'
<1> DEFINE Quiet == {"cas", "entry", "setup", "spawn", "auto", "fixread",
                      "fixcas"}
<1>1. call[c].pc \in Quiet /\ ~At(c, "idle")
  BY DEF At, CasLost, PlainEntry, PrepareRead, KeepWorktree, EntryDone,
         EntryBlocked, EntryConflict, EntryWorktreeMissing, Finish, FixRead,
         FixLost
<1>2. call[c] \in CallAt(Quiet)
  BY <1>1, CallFields DEF IInv, CallAt
<1>3. /\ call[c].task \in Task /\ status[call[c].task] \in Status
      /\ call \in [Caller -> Calls]
  BY <1>2 DEF IInv, TypeOK, CallAt
<1>4. PICK r \in {Idle} \cup CallAt({"spawn", "setup", "auto", "conflict",
                                     "fixexit", "fixread", "fixcas"}) :
        call' = [call EXCEPT ![c] = r]
  <2>1. CASE CasLost(c) \/ Finish(c) \/ FixLost(c)
    BY <2>1 DEF CasLost, Finish, FixLost, Return
  <2>2. CASE PlainEntry(c) \/ KeepWorktree(c) \/ EntryDone(c)
    BY <1>2, <1>3, <2>2 DEF PlainEntry, KeepWorktree, EntryDone, Goto, CallAt
  <2>3. CASE PrepareRead(c) \/ FixRead(c)
    BY <1>2, <1>3, <2>3 DEF PrepareRead, FixRead, CallAt
  <2>4. CASE EntryBlocked(c)
    BY <1>2, <1>3, <2>4, StatusFacts DEF EntryBlocked, Return, CallAt
  <2>5. CASE EntryConflict(c)
    BY <1>2, <1>3, <2>5, StatusFacts
    DEF EntryConflict, ConflictTargets, CallAt
  <2>6. CASE EntryWorktreeMissing(c)
    BY <1>2, <1>3, <2>6, StatusFacts DEF EntryWorktreeMissing, CallAt
  <2> QED
    BY <2>1, <2>2, <2>3, <2>4, <2>5, <2>6
<1>5. r \in Calls /\ r.pc \notin Unsettled /\ call[c].pc \notin Unsettled
  BY <1>1 DEF Calls, CallAt, Idle, Unsettled
<1>6. UNCHANGED <<status, calls, owed, departures, releases>>
  BY DEF CasLost, PlainEntry, PrepareRead, KeepWorktree, EntryDone,
         EntryBlocked, EntryConflict, EntryWorktreeMissing, Finish, FixRead,
         FixLost
<1>7. /\ status' \in [Task -> Status]
      /\ departures' \in [Task -> Nat]
      /\ releases' \in [Task -> Nat]
  BY <1>6 DEF IInv, TypeOK
<1> QED
  BY <1>4, <1>5, <1>6, <1>7, MovePreserves

\* The writes that bypass the legality check, and the exit actions run for
\* corrective transitions.
LEMMA BypassPreserves ==
  ASSUME IInv, NEW c \in Caller,
         \/ PersistWorktree(c) \/ AutoWrite(c) \/ AutoRecord(c)
         \/ FixExit(c) \/ FixWrite(c) \/ FixRecord(c)
         \/ ConflictExit(c) \/ RestoreWorktree(c)
  PROVE  IInv'
<1>1. call[c] \in CallAt({"setup", "auto", "autorecord", "fixexit", "fixcas",
                       "fixrecord", "conflict", "restore"})
  BY CallFields
  DEF IInv, At, CallAt, PersistWorktree, AutoWrite, AutoRecord, FixExit,
      FixWrite, FixRecord, ConflictExit, RestoreWorktree
<1> DEFINE t == call[c].task
<1>2. /\ t \in Task /\ call[c].row \in Status /\ call[c].to \in Status
      /\ call[c].cur \in Status
      /\ call \in [Caller -> Calls] /\ call[c].pc \notin Unsettled
  BY <1>1 DEF IInv, TypeOK, CallAt, Unsettled
<1>3. UNCHANGED <<calls, owed>>
  BY DEF PersistWorktree, AutoWrite, AutoRecord, FixExit, FixWrite, FixRecord,
         ConflictExit, RestoreWorktree
<1>4. CASE PersistWorktree(c)
  <2>1. PICK r \in CallAt({"spawn"}) : call' = [call EXCEPT ![c] = r]
    BY <1>1, <1>4 DEF PersistWorktree, Goto, CallAt
  <2>2. r \in Calls /\ r.pc \notin Unsettled
    BY DEF Calls, CallAt, Unsettled
  <2>3. /\ status' \in [Task -> Status] /\ departures' \in [Task -> Nat]
        /\ releases' \in [Task -> Nat]
    BY <1>2, <1>4, WriteStatusType DEF PersistWorktree, IInv, TypeOK
  <2> QED
    BY <1>2, <1>3, <2>1, <2>2, <2>3, MovePreserves
<1>5. CASE AutoWrite(c)
  <2> DEFINE s == NextAuto(t, call[c].cur)
  <2>1. s \in Status
    BY <1>5, StatusFacts DEF AutoWrite, NextAuto
  <2>2. PICK r \in CallAt({"autorecord"}) : call' = [call EXCEPT ![c] = r]
    <3> DEFINE e ==
          [call[c] EXCEPT !.pc = "autorecord", !.cur = s, !.auto = TRUE]
    <3>1. e \in CallAt({"autorecord"})
      BY <1>1, <2>1 DEF CallAt
    <3>2. call' = [call EXCEPT ![c] = e]
      BY <1>5 DEF AutoWrite
    <3> QED
      BY <3>1, <3>2
  <2>3. r \in Calls /\ r.pc \notin Unsettled
    BY DEF Calls, CallAt, Unsettled
  <2>4. /\ status' \in [Task -> Status] /\ departures' \in [Task -> Nat]
        /\ releases' \in [Task -> Nat]
    BY <1>2, <1>5, <2>1, TryWriteStatusType DEF AutoWrite, IInv, TypeOK
  <2> QED
    BY <1>2, <1>3, <2>2, <2>3, <2>4, MovePreserves
<1>6. CASE FixExit(c)
  <2>1. PICK r \in CallAt({"fixread"}) : call' = [call EXCEPT ![c] = r]
    BY <1>1, <1>6 DEF FixExit, Goto, CallAt
  <2>2. r \in Calls /\ r.pc \notin Unsettled
    BY DEF Calls, CallAt, Unsettled
  <2>3. /\ status' \in [Task -> Status] /\ departures' \in [Task -> Nat]
        /\ releases' \in [Task -> Nat]
    BY <1>2, <1>6 DEF FixExit, OnExit, IInv, TypeOK
  <2> QED
    BY <1>2, <1>3, <2>1, <2>2, <2>3, MovePreserves
<1>7. CASE FixRecord(c)
  <2>1. /\ call' = [call EXCEPT ![c] = Idle]
        /\ Idle \in Calls /\ Idle.pc \notin Unsettled
    BY <1>7 DEF FixRecord, Return, Calls, Idle, Unsettled
  <2>2. /\ status' \in [Task -> Status] /\ departures' \in [Task -> Nat]
        /\ releases' \in [Task -> Nat]
    BY <1>2, <1>7, TryWriteStatusType DEF FixRecord, IInv, TypeOK
  <2> QED
    BY <1>2, <1>3, <2>1, <2>2, MovePreserves
<1>8. CASE AutoRecord(c)
  <2>1. PICK r \in CallAt({"entry"}) : call' = [call EXCEPT ![c] = r]
    BY <1>1, <1>8 DEF AutoRecord, Goto, CallAt
  <2>2. r \in Calls /\ r.pc \notin Unsettled
    BY DEF Calls, CallAt, Unsettled
  <2>3. /\ status' \in [Task -> Status] /\ departures' \in [Task -> Nat]
        /\ releases' \in [Task -> Nat]
    BY <1>2, <1>8, TryWriteStatusType DEF AutoRecord, IInv, TypeOK
  <2> QED
    BY <1>2, <1>3, <2>1, <2>2, <2>3, MovePreserves
<1>9. CASE FixWrite(c)
  <2>1. PICK r \in CallAt({"fixrecord"}) : call' = [call EXCEPT ![c] = r]
    BY <1>1, <1>9 DEF FixWrite, Goto, CallAt
  <2>2. r \in Calls /\ r.pc \notin Unsettled
    BY DEF Calls, CallAt, Unsettled
  <2>3. /\ status' \in [Task -> Status] /\ departures' \in [Task -> Nat]
        /\ releases' \in [Task -> Nat]
    BY <1>2, <1>9, WriteStatusType DEF FixWrite, IInv, TypeOK
  <2> QED
    BY <1>2, <1>3, <2>1, <2>2, <2>3, MovePreserves
<1>10. CASE ConflictExit(c)
  <2>1. PICK r \in CallAt({"fixread", "restore"}) :
          call' = [call EXCEPT ![c] = r]
    <3>1. status[t] \in Status
      BY <1>2 DEF IInv, TypeOK
    <3>2. CASE Goto(c, "fixread")
      BY <1>1, <3>2 DEF Goto, CallAt
    <3>3. CASE call' = [call EXCEPT ![c].pc = "restore",
                                    ![c].row = status[call[c].task]]
      <4> DEFINE e == [call[c] EXCEPT !.pc = "restore", !.row = status[t]]
      <4>1. e \in CallAt({"restore"})
        BY <1>1, <3>1 DEF CallAt
      <4>2. call' = [call EXCEPT ![c] = e]
        BY <3>3
      <4> QED
        BY <4>1, <4>2 DEF CallAt
    <3> QED
      BY <1>10, <3>2, <3>3 DEF ConflictExit
  <2>2. r \in Calls /\ r.pc \notin Unsettled
    BY DEF Calls, CallAt, Unsettled
  <2>3. /\ status' \in [Task -> Status] /\ departures' \in [Task -> Nat]
        /\ releases' \in [Task -> Nat]
    BY <1>2, <1>10 DEF ConflictExit, OnExit, IInv, TypeOK
  <2> QED
    BY <1>2, <1>3, <2>1, <2>2, <2>3, MovePreserves
<1>11. CASE RestoreWorktree(c)
  <2>1. PICK r \in CallAt({"fixread"}) : call' = [call EXCEPT ![c] = r]
    BY <1>1, <1>11 DEF RestoreWorktree, Goto, CallAt
  <2>2. r \in Calls /\ r.pc \notin Unsettled
    BY DEF Calls, CallAt, Unsettled
  <2>3. /\ status' \in [Task -> Status] /\ departures' \in [Task -> Nat]
        /\ releases' \in [Task -> Nat]
    BY <1>2, <1>11, TryWriteStatusType DEF RestoreWorktree, IInv, TypeOK
  <2> QED
    BY <1>2, <1>3, <2>1, <2>2, <2>3, MovePreserves
<1> QED
  BY <1>4, <1>5, <1>6, <1>7, <1>8, <1>9, <1>10, <1>11

\* The invariant is inductive.
THEOREM IInvInductive == Spec => []IInv
<1>1. Init => IInv
  <2>1. SUFFICES ASSUME Init PROVE IInv
    OBVIOUS
  <2>2. TypeOK
    BY <2>1, StatusAssumption DEF Init, TypeOK, Calls
  <2>3. \A t \in Task : Owing(t) = {}
    BY <2>1 DEF Init, Owing, Unsettled, Idle
  <2> QED
    BY <2>1, <2>2, <2>3, FS_EmptySet DEF Init, IInv, ExitActionsOncePerDeparture
<1>2. IInv /\ [Next]_vars => IInv'
  <2>1. SUFFICES ASSUME IInv, [Next]_vars PROVE IInv'
    OBVIOUS
  <2>2. CASE UNCHANGED vars
    BY <2>1, <2>2
    DEF vars, IInv, TypeOK, ExitActionsOncePerDeparture, Owing
  <2>3. CASE Next
    <3>1. PICK c \in Caller : Start(c) \/ Continue(c)
      BY <2>3 DEF Next
    <3>2. CASE Start(c)
      BY <2>1, <3>2, StartPreserves
    <3>3. CASE Continue(c)
      BY <2>1, <3>3, CasUpdatePreserves, RecordPreserves, ExitActionsPreserves,
         QuietPreserves, BypassPreserves DEF Continue
    <3> QED
      BY <3>1, <3>2, <3>3
  <2> QED
    BY <2>1, <2>2, <2>3
<1> QED
  BY <1>1, <1>2, PTL DEF Spec

\* Type correctness: the rows hold statuses and every call in progress is at
\* a known point, for any number of tasks and callers.
THEOREM TypeCorrect == Spec => []TypeOK
<1>1. IInv => TypeOK
  BY DEF IInv
<1> QED
  BY <1>1, IInvInductive, PTL

\* A running_count slot is given back once per validated departure: however
\* many callers race out of a slot-holding status, exactly one of them runs
\* the exit actions.
THEOREM ExitActionsOnce == Spec => []ExitActionsOncePerDeparture
<1>1. IInv => ExitActionsOncePerDeparture
  BY DEF IInv
<1> QED
  BY <1>1, IInvInductive, PTL

-----------------------------------------------------------------------------
(***************************************************************************)
(* Validated moves are legal                                               *)
(***************************************************************************)

\* A call that is about to write carries a legal move, whatever the row says
\* by then: only transition_task brings a call there, with the move it checked.
CasIsLegal ==
  \A c \in Caller : At(c, "cas") => CanTransition(call[c].from, call[c].to)

\* A step leaves every call that is about to write as it was, or brings one
\* there with a legal move.
LEMMA CasStaysLegal ==
  ASSUME TypeOK, CasIsLegal, NEW c \in Caller, Start(c) \/ Continue(c)
  PROVE  CasIsLegal'
<1>1. /\ \A d \in Caller \ {c} : call'[d] = call[d]
      /\ call \in [Caller -> Calls] /\ call[c] \in Calls
  BY DEF TypeOK, Start, Request, Reenter, CorrectiveRequest,
         Continue, Goto, Return, CasUpdate, CasLost, RecordHistory,
         ExitActions, PlainEntry, PrepareRead, PersistWorktree, KeepWorktree,
         EntryDone, EntryBlocked, EntryConflict, EntryWorktreeMissing,
         AutoWrite, AutoRecord, Finish, FixExit, FixRead, FixWrite, FixLost,
         FixRecord, ConflictExit, RestoreWorktree
<1>2. SUFFICES At(c, "cas")' => CanTransition(call[c].from, call[c].to)'
  BY <1>1 DEF CasIsLegal, At, CanTransition
<1>3. CASE Start(c)
  <2>1. CASE \E t \in Task : \E to \in Requests : Request(c, t, to)
    BY <1>1, <2>1 DEF Request, CanTransition
  <2>2. CASE \E t \in Task : Reenter(c, t)
    BY <1>1, <2>2 DEF Reenter, At
  <2>3. CASE \E t \in Task : \E to \in CorrectiveTargets, withExit \in BOOLEAN :
               CorrectiveRequest(c, t, to, withExit)
    BY <1>1, <2>3 DEF CorrectiveRequest, At
  <2> QED
    BY <1>3, <2>1, <2>2, <2>3 DEF Start
<1>4. CASE Continue(c)
  <2>1. CASE CasLost(c) \/ Finish(c) \/ FixLost(c) \/ FixRecord(c)
    BY <1>1, <2>1
    DEF CasLost, Finish, FixLost, FixRecord, Return, Idle, At
  <2>2. CASE \/ CasUpdate(c) \/ RecordHistory(c) \/ ExitActions(c)
             \/ PlainEntry(c) \/ PersistWorktree(c) \/ KeepWorktree(c)
             \/ EntryDone(c) \/ AutoRecord(c) \/ FixExit(c) \/ FixWrite(c)
             \/ RestoreWorktree(c)
    <3>1. call[c] \in Calls \ {Idle}
      BY <1>1, <2>2
      DEF CasUpdate, RecordHistory, ExitActions, PlainEntry, PersistWorktree,
          KeepWorktree, EntryDone, AutoRecord, FixExit, FixWrite,
          RestoreWorktree, Idle, At
    <3>2. PICK pc \in {"record", "exit", "entry", "spawn", "auto", "fixread",
                       "fixrecord"} :
            call' = [call EXCEPT ![c].pc = pc]
      BY <2>2
      DEF CasUpdate, RecordHistory, ExitActions, PlainEntry, PersistWorktree,
          KeepWorktree, EntryDone, AutoRecord, FixExit, FixWrite,
          RestoreWorktree, Goto
    <3> QED
      BY <1>1, <3>1, <3>2 DEF At, Calls, CallAt
  <2>3. CASE PrepareRead(c) \/ FixRead(c)
    BY <1>1, <2>3 DEF PrepareRead, FixRead, At, Calls, CallAt, Idle
  <2>4. CASE EntryBlocked(c)
    BY <1>1, <2>4 DEF EntryBlocked, Return, At, Calls, CallAt, Idle
  <2>5. CASE EntryConflict(c) \/ EntryWorktreeMissing(c)
    BY <1>1, <2>5
    DEF EntryConflict, EntryWorktreeMissing, At, Calls, CallAt, Idle
  <2>6. CASE AutoWrite(c)
    BY <1>1, <2>6 DEF AutoWrite, At, Calls, CallAt, Idle
  <2>7. CASE ConflictExit(c)
    BY <1>1, <2>7 DEF ConflictExit, Goto, At, Calls, CallAt, Idle
  <2> QED
    BY <1>4, <2>1, <2>2, <2>3, <2>4, <2>5, <2>6, <2>7 DEF Continue
<1> QED
  BY <1>3, <1>4

\* The step of a call that changes a row writes at a point that bypasses the
\* check, or makes the move the call carries.
LEMMA StepIsLegal ==
  ASSUME TypeOK, CasIsLegal, NEW c \in Caller, Start(c) \/ Continue(c),
         NEW t \in Task, status'[t] # status[t]
  PROVE  WrittenAt(t, Bypassing) \/ CanTransition(status[t], status'[t])
<1>1. \/ CasUpdate(c) \/ RecordHistory(c) \/ PersistWorktree(c)
      \/ AutoWrite(c) \/ AutoRecord(c) \/ FixWrite(c) \/ FixRecord(c)
      \/ RestoreWorktree(c)
  BY DEF Start, Request, Reenter, CorrectiveRequest, Continue, CasLost,
         ExitActions, PlainEntry, PrepareRead, KeepWorktree, EntryDone,
         EntryBlocked, EntryConflict, EntryWorktreeMissing, Finish, FixExit,
         FixRead, FixLost, ConflictExit
<1>2. /\ \E u : status' = [status EXCEPT ![call[c].task] = u]
      /\ status \in [Task -> Status]
  BY <1>1
  DEF TypeOK, CasUpdate, RecordHistory, PersistWorktree, AutoWrite,
      AutoRecord, FixWrite, FixRecord, RestoreWorktree, WriteStatus,
      TryWriteStatus
<1>3. t = call[c].task
  BY <1>2
<1>4. /\ call \in [Caller -> Calls] /\ call[c] \in Calls
      /\ call[c] # Idle
  BY <1>1
  DEF TypeOK, CasUpdate, RecordHistory, PersistWorktree, AutoWrite,
      AutoRecord, FixWrite, FixRecord, RestoreWorktree, At, Idle
<1>5. CASE CasUpdate(c)
  <2>1. status'[t] = call[c].to /\ status[t] = call[c].from
    BY <1>2, <1>3, <1>5 DEF CasUpdate, CasHolds, WriteStatus
  <2> QED
    BY <1>5, <2>1 DEF CasUpdate, CasIsLegal
<1>6. CASE RecordHistory(c) \/ PersistWorktree(c) \/ AutoWrite(c)
           \/ AutoRecord(c) \/ FixWrite(c) \/ FixRecord(c)
           \/ RestoreWorktree(c)
  <2>1. call[c].pc \in Bypassing
    BY <1>6
    DEF RecordHistory, PersistWorktree, AutoWrite, AutoRecord, FixWrite,
        FixRecord, RestoreWorktree, At, Bypassing, Recording
  <2>2. call'[c].pc # call[c].pc
    <3>1. CASE AutoWrite(c)
      BY <1>4, <3>1 DEF AutoWrite, At, Calls, CallAt
    <3>2. CASE FixRecord(c)
      BY <1>4, <3>2 DEF FixRecord, Return, At, Idle
    <3>3. CASE RecordHistory(c) \/ PersistWorktree(c) \/ AutoRecord(c)
               \/ FixWrite(c) \/ RestoreWorktree(c)
      BY <1>4, <3>3
      DEF RecordHistory, PersistWorktree, AutoRecord, FixWrite,
          RestoreWorktree, Goto, At, Calls, CallAt
    <3> QED
      BY <1>6, <3>1, <3>2, <3>3
  <2> QED
    BY <1>3, <2>1, <2>2 DEF WrittenAt
<1> QED
  BY <1>1, <1>5, <1>6

\* However long ago a call validated its move, and whatever corrective,
\* automatic and row-rewriting writes happen before its compare-and-swap, a
\* validated transition never makes a move that the table does not allow.
THEOREM ValidatedMoves == Spec => ValidatedMovesAreLegal
<1>1. Init => CasIsLegal
  BY DEF Init, CasIsLegal, At, Idle
<1>2. TypeOK /\ CasIsLegal /\ [Next]_vars => CasIsLegal'
  <2>1. SUFFICES ASSUME TypeOK, CasIsLegal, [Next]_vars PROVE CasIsLegal'
    OBVIOUS
  <2>2. CASE UNCHANGED vars
    BY <2>1, <2>2 DEF vars, CasIsLegal, At
  <2> QED
    BY <2>1, <2>2, CasStaysLegal DEF Next
<1>3. TypeOK /\ CasIsLegal /\ [Next]_vars =>
        [\A t \in Task : \/ status'[t] = status[t]
                         \/ WrittenAt(t, Bypassing)
                         \/ CanTransition(status[t], status'[t])]_vars
  BY StepIsLegal DEF Next
<1> QED
  BY <1>1, <1>2, <1>3, TypeCorrect, PTL DEF Spec, ValidatedMovesAreLegal

=============================================================================
