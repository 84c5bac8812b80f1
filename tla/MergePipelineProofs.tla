------------------------ MODULE MergePipelineProofs ------------------------
(***************************************************************************)
(* Type correctness of MergePipeline, and that no reset takes a completed  *)
(* merge off a target that is not checked out, as long as attempts keep    *)
(* out of each other's way.  For any tasks, order of approvals, budget and *)
(* number of setbacks.                                                     *)
(***************************************************************************)
EXTENDS MergePipeline, SequenceTheorems, TLAPS

\* An attempt is one at a task, and the target has a commit.
Tasked ==
  /\ \A r \in Runner : run[r].pc # "idle" => run[r].task \in Task
  /\ line # <<>>

TypeInv == TypeOK /\ Tasked

\* Tasks whose merge was completed, by their row or by the copy of it that an
\* attempt has and may still write back.
Settled(t) ==
  \/ row[t].status = "Merged"
  \/ \E r \in Runner : run[r].task = t /\ run[r].row.status = "Merged"

\* An attempt before its merge knows the target as it is; one after it has the
\* target's last commit; and the commit that a failed validation takes away has
\* one below it with all that is settled.
Informed(a) ==
  /\ a.pc \in {"guard", "merge"} => a.seen = Content \cup {a.task}
  /\ a.pc \in {"validating", "complete"} =>
       a.commit = Content /\ a.task \in Content
  /\ a.pc = "validating" /\ a.place = "own" =>
       /\ Len(line) > 1
       /\ \A t \in Task : Settled(t) => t \in line[Len(line) - 1]

\* As long as no two attempts have relied on the target together, what is
\* settled is on the target, and attempts are informed.
Alone ==
  /\ \A r, s \in Runner : r # s => ~(Relies(run[r]) /\ Relies(run[s]))
  /\ \A t \in Task : Settled(t) => t \in Content
  /\ \A r \in Runner : Informed(run[r])

AloneInv == overlap \/ Alone

-----------------------------------------------------------------------------
(***************************************************************************)
(* The target's commits                                                    *)
(***************************************************************************)

\* A target with commits has a last one.
LEMMA LastType ==
  ASSUME NEW S, NEW s \in Seq(S), s # <<>>
  PROVE  Len(s) \in Nat /\ Len(s) >= 1 /\ Last(s) \in S /\ Last(s) = s[Len(s)]
<1>1. Len(s) \in Nat /\ Len(s) # 0
  BY EmptySeq, LenProperties
<1>2. Len(s) \in 1 .. Len(s)
  BY <1>1
<1> QED
  BY <1>1, <1>2, ElementOfSeq DEF Last

\* A commit on top of them.
LEMMA Commits ==
  ASSUME NEW S, NEW s \in Seq(S), s # <<>>, NEW c \in S
  PROVE  /\ Append(s, c) \in Seq(S) /\ Append(s, c) # <<>>
         /\ Len(Append(s, c)) = Len(s) + 1 /\ Len(Append(s, c)) > 1
         /\ Last(Append(s, c)) = c
         /\ Append(s, c)[Len(Append(s, c)) - 1] = Last(s)
<1>1. /\ Append(s, c) \in Seq(S) /\ Append(s, c) # <<>>
      /\ Len(Append(s, c)) = Len(s) + 1
      /\ \A i \in 1 .. Len(s) : Append(s, c)[i] = s[i]
      /\ Append(s, c)[Len(s) + 1] = c
  BY AppendProperties
<1>2. Len(s) \in Nat /\ Len(s) >= 1 /\ Last(s) = s[Len(s)]
  BY LastType
<1>3. Len(Append(s, c)) - 1 = Len(s) /\ Len(s) \in 1 .. Len(s)
  BY <1>1, <1>2
<1> QED
  BY <1>1, <1>2, <1>3 DEF Last

\* A reset takes the last one away.
LEMMA Resets ==
  ASSUME NEW S, NEW s \in Seq(S), Len(s) > 1
  PROVE  /\ Front(s) \in Seq(S) /\ Front(s) # <<>>
         /\ Last(Front(s)) = s[Len(s) - 1]
<1>1. Len(s) \in Nat /\ \A i \in 1 .. Len(s) : s[i] \in S
  BY LenProperties, ElementOfSeq
<1> DEFINE n == Len(s) - 1
<1>2. n \in Nat /\ n >= 1 /\ \A i \in 1 .. n : s[i] \in S
  BY <1>1
<1> HIDE DEF n
<1>3. /\ SubSeq(s, 1, n) \in Seq(S) /\ Len(SubSeq(s, 1, n)) = n
      /\ SubSeq(s, 1, n)[n] = s[n]
  <2>1. /\ SubSeq(s, 1, n) \in Seq(S)
        /\ Len(SubSeq(s, 1, n)) = IF 1 <= n THEN n - 1 + 1 ELSE 0
        /\ \A i \in 1 .. n - 1 + 1 : SubSeq(s, 1, n)[i] = s[1 + i - 1]
    BY <1>2, SubSeqProperties
  <2>2. n - 1 + 1 = n /\ 1 + n - 1 = n /\ n \in 1 .. n - 1 + 1
    BY <1>2
  <2> QED
    BY <1>2, <2>1, <2>2
<1>4. SubSeq(s, 1, n) # <<>>
  BY <1>2, <1>3, EmptySeq
<1> QED
  BY <1>3, <1>4 DEF Front, Last, n

-----------------------------------------------------------------------------
(***************************************************************************)
(* Type correctness, part by part                                          *)
(***************************************************************************)

Attempts == [pc : Pc, task : Task \cup {"none"}, row : Row, seen : SUBSET Task,
             commit : SUBSET Task, place : Place]

Sound(a) == a \in Attempts /\ (a.pc # "idle" => a.task \in Task)

RowType == row \in [Task -> Row]
TriesType == tries \in [Task -> 0 .. MaxRetries]
RunType ==
  /\ run \in [Runner -> Attempts] /\ overlap \in BOOLEAN
  /\ \A r \in Runner : Sound(run[r])
GitType ==
  /\ line \in Seq(SUBSET Task) /\ line # <<>>
  /\ holder \in Task \cup {"none"} /\ root \in Nat
RestType ==
  /\ boot \in SUBSET Task /\ wakes \in BOOLEAN /\ setbacks \in 0 .. MaxSetbacks

\* The parts are the whole.
LEMMA Parts ==
  TypeInv <=> RowType /\ TriesType /\ RunType /\ GitType /\ RestType
  BY DEF TypeInv, TypeOK, Tasked, RowType, TriesType, RunType, GitType,
         RestType, Attempts, Sound

\* The type invariant of the next state, from its parts.
LEMMA PartsNext ==
  ASSUME RowType', TriesType', RunType', GitType', RestType'
  PROVE  TypeInv'
  BY DEF TypeInv, TypeOK, Tasked, RowType, TriesType, RunType, GitType,
         RestType, Attempts, Sound

\* Parts that a step leaves alone.
LEMMA Frame ==
  ASSUME TypeInv
  PROVE  /\ UNCHANGED row => RowType'
         /\ UNCHANGED tries => TriesType'
         /\ UNCHANGED <<run, overlap>> => RunType'
         /\ UNCHANGED git => GitType'
         /\ UNCHANGED <<boot, wakes, setbacks>> => RestType'
  BY Parts DEF RowType, TriesType, RunType, GitType, RestType, git, Sound

\* An attempt that has not begun.
LEMMA IdleType == Idle \in Attempts /\ Fresh \in Row /\ Sound(Idle)
  BY DEF Idle, Fresh, Attempts, Row, Status, Pc, Place, Sound

\* An attempt goes on.
LEMMA GoesType ==
  ASSUME TypeInv, NEW r \in Runner, NEW a, Sound(a), Goes(r, a)
  PROVE  RunType'
<1>1. run' \in [Runner -> Attempts] /\ \A s \in Runner : Sound(run'[s])
  BY Parts DEF RunType, Goes, Sound
<1>2. overlap' \in BOOLEAN
  BY DEF Goes
<1> QED
  BY <1>1, <1>2 DEF RunType, Sound

\* It starts, or is over.
LEMMA StartsType ==
  ASSUME TypeInv, NEW r \in Runner
  PROVE  /\ \A t \in Task : Starts(r, t) => RunType'
         /\ Mine(r) \in Task /\ Ends(r) => RunType'
<1>1. /\ \A t \in Task : Sound([Idle EXCEPT !.pc = "enter", !.task = t])
      /\ \A t \in Task : Sound([Idle EXCEPT !.pc = "clear", !.task = t])
  BY IdleType DEF Attempts, Sound, Pc
<1> QED
  BY <1>1, GoesType DEF Starts, Ends

\* The row of a task is written.
LEMMA SavesType ==
  ASSUME TypeInv, NEW t \in Task, NEW v \in Row, Saves(t, v)
  PROVE  RowType'
  BY Parts DEF RowType, Saves

\* What can be written in a row.
LEMMA RowFields ==
  ASSUME NEW v \in Row
  PROVE  /\ \A s \in Status : [v EXCEPT !.status = s] \in Row
         /\ \A b \in BOOLEAN : [v EXCEPT !.deferred = b] \in Row
         /\ \A b \in BOOLEAN : [v EXCEPT !.active = b] \in Row
         /\ \A b \in BOOLEAN : [v EXCEPT !.validating = b] \in Row
         /\ \A s \in Status, b \in BOOLEAN :
              /\ [v EXCEPT !.status = s, !.validating = b] \in Row
              /\ [v EXCEPT !.status = s, !.deferred = b] \in Row
  BY DEF Row

\* What an attempt under way has.
LEMMA AttemptFields ==
  ASSUME TypeInv, NEW r \in Runner
  PROVE  /\ Sound(run[r]) /\ run[r] \in Attempts /\ run[r].row \in Row
         /\ run[r].pc # "idle" => Mine(r) \in Task /\ row[Mine(r)] \in Row
         /\ \A t \in Task : row[t] \in Row
         /\ Content \in SUBSET Task
<1>1. Content \in SUBSET Task
  BY Parts, LastType DEF GitType, Content
<1> QED
  BY <1>1, Parts DEF RunType, RowType, Sound, Attempts, Mine

\* Initial states are well typed.
LEMMA InitType == ASSUME Init PROVE TypeInv
<1>1. RowType /\ TriesType /\ RestType
  <2>1. 0 \in 0 .. MaxRetries /\ 0 \in 0 .. MaxSetbacks
    BY BoundAssumption
  <2> QED
    BY <2>1, IdleType DEF Init, RowType, TriesType, RestType
<1>2. RunType
  BY IdleType DEF Init, RunType
<1>3. GitType
  <2>1. << {} >> \in Seq(SUBSET Task) /\ << {} >> # <<>>
    OBVIOUS
  <2> QED
    BY <2>1 DEF Init, GitType
<1> QED
  BY <1>1, <1>2, <1>3, Parts

\* The row is read and marked, the attempt comes to the guard.
LEMMA PrepareType ==
  ASSUME TypeInv, NEW r \in Runner, Prepare(r)
  PROVE  TypeInv'
<1> DEFINE t == Mine(r)
           v == [row[t] EXCEPT !.active = TRUE]
           a == [run[r] EXCEPT !.pc = "guard", !.row = row'[t],
                               !.seen = Content \cup {t}]
<1>1. t \in Task /\ v \in Row /\ run[r] \in Attempts
  BY AttemptFields, RowFields DEF Prepare, At
<1>2. RowType' /\ row'[t] = v
  BY <1>1, SavesType, Parts DEF Prepare, Saves, RowType
<1>3. Content \in SUBSET Task
  BY AttemptFields
<1>4. Sound(a)
  BY <1>1, <1>2, <1>3 DEF Sound, Attempts, Pc, Mine
<1>5. RunType'
  BY <1>4, GoesType DEF Prepare
<1>6. GitType'
  BY <1>1, Parts DEF Prepare, Drops, GitType
<1> QED
  BY <1>2, <1>5, <1>6, Frame, PartsNext DEF Prepare

\* The guard, and what comes of it.
LEMMA GuardType ==
  ASSUME TypeInv, NEW r \in Runner,
         GuardDefers(r) \/ Defer(r) \/ GuardPasses(r)
  PROVE  TypeInv'
<1> DEFINE t == Mine(r)
<1>1. t \in Task /\ run[r] \in Attempts /\ run[r].row \in Row
      /\ run[r].task \in Task
  BY AttemptFields DEF GuardDefers, Defer, GuardPasses, At, Mine
<1>2. CASE GuardDefers(r)
  <2>1. Sound([run[r] EXCEPT !.pc = "defer", !.seen = {}])
    BY <1>1 DEF Sound, Attempts, Pc
  <2> QED
    BY <1>2, <2>1, GoesType, Frame, PartsNext DEF GuardDefers, table
<1>3. CASE Defer(r)
  <2>1. RowType'
    BY <1>1, <1>3, RowFields, SavesType DEF Defer
  <2> QED
    BY <1>1, <1>3, <2>1, StartsType, Frame, PartsNext DEF Defer
<1>4. CASE GuardPasses(r)
  <2> DEFINE v == [run[r].row EXCEPT !.deferred = FALSE]
  <2>1. v \in Row
    BY <1>1, RowFields
  <2>2. RowType'
    BY <1>1, <1>4, <2>1, SavesType, Frame DEF GuardPasses
  <2>3. Sound([run[r] EXCEPT !.pc = "merge", !.row = v])
    BY <1>1, <2>1 DEF Sound, Attempts, Pc
  <2> QED
    BY <1>4, <2>2, <2>3, GoesType, Frame, PartsNext DEF GuardPasses
<1> QED
  BY <1>2, <1>3, <1>4

\* Git's work, and the attempt after it.
LEMMA CommittedType ==
  ASSUME TypeInv, NEW r \in Runner, NEW place \in Place,
         run[r].pc = "merge", Committed(r, place), GitType',
         UNCHANGED <<tries, wakes, boot, setbacks>>
  PROVE  TypeInv'
<1> DEFINE v == [run[r].row EXCEPT !.validating = TRUE]
           a == [run[r] EXCEPT !.seen = {}, !.commit = Last(line'),
                               !.place = place]
<1>1. Mine(r) \in Task /\ run[r] \in Attempts /\ run[r].task \in Task
      /\ v \in Row
  BY AttemptFields, RowFields DEF Mine
<1>2. Last(line') \in SUBSET Task
  BY LastType DEF GitType
<1>3. /\ Sound([a EXCEPT !.pc = "validating", !.row = v])
      /\ Sound([a EXCEPT !.pc = "complete"])
  BY <1>1, <1>2 DEF Sound, Attempts, Pc
<1> HIDE DEF v, a
<1>4. CASE Validates
  <2>1. /\ Saves(Mine(r), v)
        /\ Goes(r, [a EXCEPT !.pc = "validating", !.row = v])
    BY <1>4 DEF Committed, v, a
  <2> QED
    BY <1>1, <1>3, <2>1, SavesType, GoesType, Frame, PartsNext
<1>5. CASE ~Validates
  <2>1. UNCHANGED row /\ Goes(r, [a EXCEPT !.pc = "complete"])
    BY <1>5 DEF Committed, a
  <2> QED
    BY <1>3, <2>1, GoesType, Frame, PartsNext
<1> QED
  BY <1>4, <1>5

\* A merge keeps the types.
LEMMA MergeType ==
  ASSUME TypeInv, NEW r \in Runner, MergeSame(r) \/ Merge(r)
  PROVE  TypeInv'
<1>1. /\ run[r].pc = "merge" /\ Mine(r) \in Task
      /\ UNCHANGED <<tries, wakes, boot, setbacks>>
  BY AttemptFields DEF MergeSame, Merge, At
<1>2. "root" \in Place /\ "own" \in Place
  BY DEF Place
<1>3. CASE MergeSame(r)
  BY <1>1, <1>2, <1>3, Frame, CommittedType DEF MergeSame
<1>4. CASE Merge(r)
  <2>1. /\ line \in Seq(SUBSET Task) /\ line # <<>>
        /\ Content \cup {Mine(r)} \in SUBSET Task
    BY <1>1, AttemptFields, Parts DEF GitType
  <2>2. line' \in Seq(SUBSET Task) /\ line' # <<>>
    BY <1>4, <2>1, Commits DEF Merge, Squash
  <2>3. GitType'
    BY <1>1, <1>4, <2>2, Parts DEF Merge, GitType
  <2> QED
    BY <1>1, <1>2, <1>4, <2>3, CommittedType DEF Merge
<1> QED
  BY <1>3, <1>4

\* Validation, completion, and the end of an attempt.
LEMMA FinishType ==
  ASSUME TypeInv, NEW r \in Runner,
         \/ ValidationPasses(r) \/ ValidationFails(r) \/ Complete(r)
         \/ CommitIsGone(r) \/ Clear(r) \/ TimeOut(r)
  PROVE  TypeInv'
<1> USE DEF Status
<1>1. /\ Mine(r) \in Task /\ run[r] \in Attempts /\ run[r].row \in Row
      /\ run[r].task \in Task
  BY AttemptFields DEF ValidationPasses, ValidationFails, Complete,
                       CommitIsGone, Clear, TimeOut, At, Mine
<1>2. DropsOwn(r) => holder' \in Task \cup {"none"}
  BY Parts DEF DropsOwn, Drops, GitType
<1>3. CASE ValidationPasses(r)
  <2> DEFINE v == [run[r].row EXCEPT !.validating = FALSE]
  <2>1. v \in Row
    BY <1>1, RowFields
  <2>2. Sound([run[r] EXCEPT !.pc = "complete", !.row = v])
    BY <1>1, <2>1 DEF Sound, Attempts, Pc
  <2> QED
    BY <1>1, <1>3, <2>1, <2>2, SavesType, GoesType, Frame, PartsNext
       DEF ValidationPasses
<1>4. CASE ValidationFails(r)
  <2>1. RowType'
    BY <1>1, <1>4, RowFields, SavesType DEF ValidationFails
  <2>2. line' \in Seq(SUBSET Task) /\ line' # <<>>
    BY <1>4, Parts, Resets DEF ValidationFails, Reset, GitType
  <2>3. root' \in Nat
    BY <1>4, Parts DEF ValidationFails, Reset, GitType
  <2> QED
    BY <1>1, <1>2, <1>4, <2>1, <2>2, <2>3, StartsType, Frame, PartsNext
       DEF ValidationFails, GitType
<1>5. CASE Complete(r) \/ CommitIsGone(r)
  <2>1. RowType'
    BY <1>1, <1>5, RowFields, SavesType, Frame DEF Complete, CommitIsGone
  <2>2. GitType'
    BY <1>2, <1>5, Parts DEF Complete, CommitIsGone, GitType
  <2> QED
    BY <1>1, <1>5, <2>1, <2>2, StartsType, Frame, PartsNext
       DEF Complete, CommitIsGone
<1>6. CASE Clear(r)
  <2>1. RowType'
    BY <1>1, <1>6, RowFields, Parts DEF Clear, RowType
  <2> QED
    BY <1>6, <2>1, IdleType, GoesType, Frame, PartsNext DEF Clear
<1>7. CASE TimeOut(r)
  <2>1. RowType'
    BY <1>1, <1>7, RowFields, SavesType DEF TimeOut
  <2>2. GitType'
    BY <1>1, <1>7, Parts DEF TimeOut, GitType
  <2>3. RestType'
    BY <1>7, Parts, BoundAssumption DEF TimeOut, Setback, RestType
  <2> QED
    BY <1>1, <1>7, <2>1, <2>2, <2>3, StartsType, Frame, PartsNext DEF TimeOut
<1> QED
  BY <1>3, <1>4, <1>5, <1>6, <1>7

\* Attempts are started, and tasks set back, by the row.
LEMMA MovesType ==
  ASSUME TypeInv, NEW t \in Task, NEW s \in Status, Moves(t, s)
  PROVE  RowType'
  BY AttemptFields, RowFields, Parts DEF Moves, RowType

\* An approval keeps the types.
LEMMA ApproveType ==
  ASSUME TypeInv, NEW t \in Task, Approve(t) \/ Retry(t)
  PROVE  TypeInv'
<1>1. CASE Approve(t)
  BY <1>1, MovesType, StartsType, Frame, PartsNext DEF Approve, Runner, Status
<1>2. CASE Retry(t)
  <2>1. RowType'
    BY <1>2, AttemptFields, RowFields, Parts DEF Retry, RowType
  <2>2. RestType'
    BY <1>2, Parts DEF Retry, RestType
  <2> QED
    BY <1>2, <2>1, <2>2, StartsType, Frame, PartsNext DEF Retry, Runner
<1> QED
  BY <1>1, <1>2

\* The reconciler keeps the types.
LEMMA ReconcileType ==
  ASSUME TypeInv, NEW t \in Task, Reconcile(t)
  PROVE  TypeInv'
<1>1. "reconciler" \in Runner /\ "MergeIncomplete" \in Status
      /\ "PendingMerge" \in Status
  BY DEF Runner, Status
<1>2. CASE ReconcileExpired(t) \/ ReconcileStale(t)
  <2>1. RestType'
    <3>1. RestType /\ UNCHANGED boot /\ wakes' = TRUE
      BY <1>2, Parts DEF ReconcileExpired, ReconcileStale
    <3>2. setbacks' = setbacks \/ Setback
      BY <1>2 DEF ReconcileExpired, ReconcileStale
    <3> QED
      BY <3>1, <3>2, BoundAssumption DEF Setback, RestType
  <2> QED
    BY <1>1, <1>2, <2>1, MovesType, Frame, PartsNext
       DEF ReconcileExpired, ReconcileStale, Stays
<1>3. CASE ReconcileDeferred(t)
  BY <1>1, <1>3, StartsType, Frame, PartsNext DEF ReconcileDeferred, table
<1>4. CASE ReconcileIncomplete(t)
  <2>1. RowType'
    BY <1>1, <1>4, AttemptFields, RowFields, Parts
       DEF ReconcileIncomplete, RowType
  <2>2. RestType'
    BY <1>4, Parts DEF ReconcileIncomplete, RestType
  <2>3. TriesType'
    BY <1>4, Parts, BoundAssumption DEF ReconcileIncomplete, MayRetry, TriesType
  <2> QED
    BY <1>1, <1>4, <2>1, <2>2, <2>3, StartsType, Frame, PartsNext
       DEF ReconcileIncomplete
<1>5. CASE Startup(t)
  <2>1. RestType'
    BY <1>5, Parts DEF Startup, RestType
  <2>2. CASE Moves(t, "MergeIncomplete") /\ Stays
    BY <1>1, <1>5, <2>1, <2>2, MovesType, Frame, PartsNext DEF Startup, Stays
  <2>3. CASE Starts("reconciler", t) /\ UNCHANGED row
    BY <1>1, <1>5, <2>1, <2>3, StartsType, Frame, PartsNext DEF Startup
  <2>4. CASE UNCHANGED <<row, run, overlap>>
    BY <1>5, <2>1, <2>4, Frame, PartsNext DEF Startup
  <2> QED
    BY <1>5, <2>2, <2>3, <2>4 DEF Startup
<1> QED
  BY <1>2, <1>3, <1>4, <1>5 DEF Reconcile

\* Every step keeps the types.
LEMMA NextType == ASSUME TypeInv, [Next]_vars PROVE TypeInv'
<1>1. CASE UNCHANGED vars
  BY <1>1, Frame, PartsNext DEF vars, table
<1>2. CASE NothingToRetry
  <2>1. RestType'
    BY <1>2, Parts DEF NothingToRetry, RestType
  <2> QED
    BY <1>2, <2>1, Frame, PartsNext DEF NothingToRetry, Stays, table
<1>3. CASE Crash
  <2>1. RestType'
    <3>1. setbacks \in 0 .. MaxSetbacks /\ setbacks < MaxSetbacks
          /\ setbacks' = setbacks + 1 /\ wakes' = FALSE
      BY <1>3, Parts DEF Crash, Setback, RestType
    <3>2. setbacks' \in 0 .. MaxSetbacks
      BY <3>1, BoundAssumption
    <3>3. boot' \in SUBSET Task
      BY <1>3 DEF Crash
    <3> QED
      BY <3>1, <3>2, <3>3 DEF RestType
  <2>2. RunType'
    BY <1>3, IdleType, Parts DEF Crash, RunType, Sound
  <2> QED
    BY <1>3, <2>1, <2>2, Frame, PartsNext DEF Crash, table
<1> QED
  BY <1>1, <1>2, <1>3, PrepareType, GuardType, MergeType, FinishType,
     ApproveType, ReconcileType DEF Next, Attempt

\* Every variable has its type at all times, with the automatic retries of each
\* task within their budget.
THEOREM TypeCorrect == Spec => []TypeOK
<1>1. Init => TypeInv
  BY InitType
<1>2. TypeInv /\ [Next]_vars => TypeInv'
  BY NextType
<1>3. TypeInv => TypeOK
  BY DEF TypeInv
<1> QED
  BY <1>1, <1>2, <1>3, PTL DEF Spec

-----------------------------------------------------------------------------
(***************************************************************************)
(* Completed merges stay on the target                                     *)
(***************************************************************************)

\* What a write of a row and of an attempt's copy do not settle.
LEMMA SettledKept ==
  ASSUME TypeInv, NEW r \in Runner, NEW a, run' = [run EXCEPT ![r] = a],
         \A t \in Task : row'[t].status = "Merged" => Settled(t),
         a.row.status = "Merged" => Settled(a.task)
  PROVE  \A t \in Task : Settled(t)' => Settled(t)
<1>1. run'[r] = a /\ \A s \in Runner \ {r} : run'[s] = run[s]
  BY Parts DEF RunType
<1> QED
  BY <1>1 DEF Settled

\* Two attempts that rely on the target together are noticed.
LEMMA Noticed ==
  ASSUME TypeInv, AloneInv, NEW r \in Runner, NEW a, Goes(r, a), ~overlap'
  PROVE  /\ Alone
         /\ \A s, q \in Runner : s # q => ~(Relies(run'[s]) /\ Relies(run'[q]))
         /\ run'[r] = a /\ \A s \in Runner \ {r} : run'[s] = run[s]
<1>1. run'[r] = a /\ \A s \in Runner \ {r} : run'[s] = run[s]
  BY Parts DEF RunType, Goes
<1>2. ~overlap /\ ~ \E s, q \in Runner :
                      s # q /\ Relies(run'[s]) /\ Relies(run'[q])
  BY Zenon DEF Goes
<1> QED
  BY <1>1, <1>2 DEF AloneInv

\* A step of an attempt that leaves the target's commits alone and settles
\* nothing.
LEMMA QuietStep ==
  ASSUME TypeInv, AloneInv, NEW r \in Runner, NEW a, Goes(r, a), line' = line,
         \A t \in Task : row'[t].status = "Merged" => Settled(t),
         a.row.status = "Merged" => Settled(a.task),
         Alone => Informed(a)
  PROVE  AloneInv'
<1> SUFFICES ASSUME ~overlap' PROVE Alone'
  BY DEF AloneInv
<1>1. /\ Alone
      /\ \A s, q \in Runner : s # q => ~(Relies(run'[s]) /\ Relies(run'[q]))
      /\ run'[r] = a /\ \A s \in Runner \ {r} : run'[s] = run[s]
  BY Noticed
<1>2. Content' = Content /\ \A t \in Task : Settled(t)' => Settled(t)
  BY SettledKept DEF Content, Goes
<1>3. \A s \in Runner : Informed(run[s])'
  <2>1. \A s \in Runner : Informed(run'[s])
    BY <1>1 DEF Alone
  <2> QED
    BY <1>2, <2>1 DEF Informed
<1> QED
  BY <1>1, <1>2, <1>3 DEF Alone, Relies, PastGuard

\* A step of the only attempt that relies on the target.
LEMMA LoudStep ==
  ASSUME TypeInv, AloneInv, NEW r \in Runner, NEW a, Goes(r, a),
         Relies(run[r]),
         Alone =>
           /\ \A t \in Task : Settled(t)' => t \in Content'
           /\ a.pc \notin {"guard", "merge"}
           /\ a.pc \in {"validating", "complete"} =>
                a.commit = Content' /\ a.task \in Content'
           /\ a.pc = "validating" /\ a.place = "own" =>
                /\ Len(line') > 1
                /\ \A t \in Task : Settled(t)' => t \in line'[Len(line') - 1]
  PROVE  AloneInv'
<1> SUFFICES ASSUME ~overlap' PROVE Alone'
  BY DEF AloneInv
<1>1. /\ Alone
      /\ \A s, q \in Runner : s # q => ~(Relies(run'[s]) /\ Relies(run'[q]))
      /\ run'[r] = a /\ \A s \in Runner \ {r} : run'[s] = run[s]
  BY Noticed
<1>2. ASSUME NEW s \in Runner
      PROVE  Informed(run[s])'
  <2>1. CASE s = r
    BY <1>1, <2>1 DEF Informed
  <2>2. CASE s # r
    <3>1. ~Relies(run[s]) /\ run'[s] = run[s]
      BY <1>1, <2>2 DEF Alone
    <3> QED
      BY <3>1 DEF Informed, Relies, PastGuard
  <2> QED
    BY <2>1, <2>2
<1> QED
  BY <1>1, <1>2 DEF Alone, Relies, PastGuard

\* A step that leaves attempts and the target's commits alone.
LEMMA StillStep ==
  ASSUME TypeInv, AloneInv, UNCHANGED <<run, overlap, line>>,
         \A t \in Task : row'[t].status = "Merged" => Settled(t)
  PROVE  AloneInv'
<1>1. Content' = Content /\ \A t \in Task : Settled(t)' => Settled(t)
  BY DEF Settled, Content
<1>2. Alone => \A s \in Runner : Informed(run[s])'
  BY <1>1 DEF Alone, Informed
<1> QED
  BY <1>1, <1>2 DEF AloneInv, Alone, Relies, PastGuard

\* At first nothing is settled and no attempt is under way.
LEMMA InitAlone == ASSUME Init PROVE AloneInv
<1>1. /\ \A r \in Runner : run[r] = Idle
      /\ \A t \in Task : row[t] = Fresh
  BY DEF Init
<1>2. \A t \in Task : ~Settled(t)
  BY <1>1 DEF Settled, Idle, Fresh
<1> QED
  BY <1>1, <1>2 DEF AloneInv, Alone, Informed, Idle, Relies, PastGuard

\* What the table and an attempt's copy say now is settled by definition.
LEMMA SettledNow ==
  ASSUME TypeInv, NEW r \in Runner
  PROVE  /\ \A t \in Task : row[t].status = "Merged" => Settled(t)
         /\ run[r].row.status = "Merged" => Settled(Mine(r))
         /\ \A v \in Row : /\ Saves(Mine(r), v)
                           /\ v.status # "Merged" \/ Settled(Mine(r))
              => \A t \in Task : row'[t].status = "Merged" => Settled(t)
         /\ UNCHANGED row =>
              \A t \in Task : row'[t].status = "Merged" => Settled(t)
  BY Parts DEF Settled, Mine, Saves, RowType

\* An attempt that has prepared has seen the target as it is.
LEMMA PrepareAlone ==
  ASSUME TypeInv, AloneInv, NEW r \in Runner, Prepare(r)
  PROVE  AloneInv'
<1> DEFINE t == Mine(r)
           v == [row[t] EXCEPT !.active = TRUE]
           a == [run[r] EXCEPT !.pc = "guard", !.row = row'[t],
                               !.seen = Content \cup {t}]
<1>1. t \in Task /\ v \in Row /\ run[r] \in Attempts /\ row[t] \in Row
  BY AttemptFields, RowFields DEF Prepare, At
<1>2. v.status = row[t].status /\ Saves(t, v)
  BY <1>1 DEF Row, Prepare
<1>3. row'[t] = v
  BY <1>1, <1>2, Parts DEF Saves, RowType
<1>4. \A u \in Task : row'[u].status = "Merged" => Settled(u)
  BY <1>1, <1>2, SettledNow
<1>5. /\ a.pc = "guard" /\ a.row = v /\ a.task = t
      /\ a.seen = Content \cup {t}
  BY <1>1, <1>3 DEF Attempts, Mine
<1>6. Goes(r, a) /\ line' = line
  BY DEF Prepare
<1> HIDE DEF a, v
<1>7. a.row.status = "Merged" => Settled(a.task)
  BY <1>1, <1>2, <1>5, SettledNow
<1>8. Informed(a)
  BY <1>5 DEF Informed
<1> QED
  BY <1>4, <1>6, <1>7, <1>8, QuietStep

\* An attempt that is over has a row of its own no more.
LEMMA EndsAlone ==
  ASSUME TypeInv, AloneInv, NEW r \in Runner, Ends(r), line' = line,
         \A t \in Task : row'[t].status = "Merged" => Settled(t)
  PROVE  AloneInv'
<1> DEFINE a == [Idle EXCEPT !.pc = "clear", !.task = Mine(r)]
<1>1. a.pc = "clear" /\ a.row.status # "Merged"
  BY DEF Idle, Fresh
<1>2. Informed(a)
  BY <1>1 DEF Informed
<1>3. Goes(r, a)
  BY DEF Ends
<1> HIDE DEF a
<1> QED
  BY <1>1, <1>2, <1>3, QuietStep

\* An attempt that passes the guard has still seen the target as it is.
LEMMA GuardAlone ==
  ASSUME TypeInv, AloneInv, NEW r \in Runner,
         GuardDefers(r) \/ Defer(r) \/ GuardPasses(r)
  PROVE  AloneInv'
<1>1. /\ Mine(r) \in Task /\ run[r] \in Attempts /\ run[r].row \in Row
      /\ Mine(r) = run[r].task /\ line' = line
  BY AttemptFields DEF GuardDefers, Defer, GuardPasses, At, Mine, git
<1>2. Alone => Informed(run[r])
  BY DEF Alone
<1>3. CASE GuardDefers(r)
  <2> DEFINE a == [run[r] EXCEPT !.pc = "defer", !.seen = {}]
  <2>1. a.pc = "defer" /\ a.row = run[r].row /\ a.task = Mine(r)
    BY <1>1 DEF Attempts
  <2>2. Goes(r, a) /\ UNCHANGED row
    BY <1>3 DEF GuardDefers, table
  <2> HIDE DEF a
  <2> QED
    BY <1>1, <2>1, <2>2, SettledNow, QuietStep DEF Informed
<1>4. CASE Defer(r)
  <2> DEFINE v == [run[r].row EXCEPT !.deferred = TRUE]
  <2>1. v \in Row /\ v.status = run[r].row.status
    BY <1>1 DEF Row
  <2>2. Saves(Mine(r), v) /\ Ends(r)
    BY <1>4 DEF Defer
  <2> HIDE DEF v
  <2>3. \A t \in Task : row'[t].status = "Merged" => Settled(t)
    BY <2>1, <2>2, SettledNow
  <2> QED
    BY <1>1, <2>2, <2>3, EndsAlone
<1>5. CASE GuardPasses(r)
  <2> DEFINE v == [run[r].row EXCEPT !.deferred = FALSE]
             a == [run[r] EXCEPT !.pc = "merge", !.row = v]
  <2>1. v \in Row /\ v.status = run[r].row.status
    BY <1>1 DEF Row
  <2>2. /\ a.pc = "merge" /\ a.row = v /\ a.task = Mine(r)
        /\ a.seen = run[r].seen /\ run[r].pc = "guard"
    BY <1>1, <1>5 DEF Attempts, GuardPasses, At
  <2>3. Goes(r, a) /\ (Saves(Mine(r), v) \/ UNCHANGED row)
    BY <1>5 DEF GuardPasses
  <2> HIDE DEF v, a
  <2>4. \A t \in Task : row'[t].status = "Merged" => Settled(t)
    BY <2>1, <2>3, SettledNow
  <2>5. Alone => Informed(a)
    BY <1>1, <1>2, <2>2 DEF Informed
  <2>6. a.row.status = "Merged" => Settled(a.task)
    BY <2>1, <2>2, SettledNow
  <2> QED
    BY <1>1, <2>3, <2>4, <2>5, <2>6, QuietStep
<1> QED
  BY <1>3, <1>4, <1>5

\* The attempt after git's work: what its row and its copy of it say is settled
\* no more than before.
LEMMA CommittedFields ==
  ASSUME TypeInv, NEW r \in Runner, run[r].pc = "merge", NEW place,
         Committed(r, place)
  PROVE  /\ \A t \in Task : row'[t].status = "Merged" => Settled(t)
         /\ \E a : /\ Goes(r, a)
                   /\ a.pc \in {"validating", "complete"}
                   /\ a.row.status = "Merged" => Settled(a.task)
                   /\ a.task = Mine(r) /\ a.commit = Last(line')
                   /\ a.place = place
<1> DEFINE v == [run[r].row EXCEPT !.validating = TRUE]
           a == [run[r] EXCEPT !.seen = {}, !.commit = Last(line'),
                               !.place = place]
           b == [a EXCEPT !.pc = "validating", !.row = v]
           c == [a EXCEPT !.pc = "complete"]
<1>1. Mine(r) = run[r].task /\ run[r] \in Attempts /\ run[r].row \in Row
  BY AttemptFields DEF Mine
<1>2. v \in Row /\ v.status = run[r].row.status
  BY <1>1 DEF Row
<1>3. /\ b.pc = "validating" /\ b.row = v /\ b.task = Mine(r)
      /\ b.commit = Last(line') /\ b.place = place
      /\ c.pc = "complete" /\ c.row = run[r].row /\ c.task = Mine(r)
      /\ c.commit = Last(line') /\ c.place = place
  BY <1>1 DEF Attempts
<1>4. \/ Saves(Mine(r), v) /\ Goes(r, b)
      \/ UNCHANGED row /\ Goes(r, c)
  BY DEF Committed
<1> HIDE DEF v, a, b, c
<1>5. \A t \in Task : row'[t].status = "Merged" => Settled(t)
  BY <1>2, <1>4, SettledNow
<1>6. /\ b.row.status = "Merged" => Settled(b.task)
      /\ c.row.status = "Merged" => Settled(c.task)
  BY <1>2, <1>3, SettledNow
<1>7. CASE Goes(r, b)
  BY <1>3, <1>5, <1>6, <1>7
<1>8. CASE Goes(r, c)
  BY <1>3, <1>5, <1>6, <1>8
<1> QED
  BY <1>4, <1>7, <1>8

\* A merge puts its task's changes on top of all those on the target.
LEMMA MergeAlone ==
  ASSUME ~CheckedOut, TypeInv, AloneInv, NEW r \in Runner,
         MergeSame(r) \/ Merge(r)
  PROVE  AloneInv'
<1>1. /\ run[r].pc = "merge" /\ Mine(r) \in Task /\ Mine(r) = run[r].task
      /\ Relies(run[r])
  BY AttemptFields DEF MergeSame, Merge, At, Mine, Relies, PastGuard
<1>2. /\ Alone => run[r].seen = Content \cup {Mine(r)}
      /\ Alone => \A t \in Task : Settled(t) => t \in Content
  BY <1>1 DEF Alone, Informed
<1>3. CASE MergeSame(r)
  <2>1. PICK a :
          /\ Goes(r, a) /\ a.pc \in {"validating", "complete"}
          /\ a.row.status = "Merged" => Settled(a.task)
          /\ a.task = Mine(r) /\ a.commit = Last(line')
          /\ a.place = "root"
    BY <1>1, <1>3, CommittedFields DEF MergeSame
  <2>2. \A t \in Task : row'[t].status = "Merged" => Settled(t)
    BY <1>1, <1>3, CommittedFields DEF MergeSame
  <2>3. line' = line /\ a.commit = Content /\ run[r].seen = Content
    BY <1>3, <2>1 DEF MergeSame, git, Content
  <2>4. Alone => Informed(a)
    BY <1>2, <2>1, <2>3 DEF Informed
  <2> QED
    BY <2>1, <2>2, <2>3, <2>4, QuietStep
<1>4. CASE Merge(r)
  <2>1. PICK a :
          /\ Goes(r, a) /\ a.pc \in {"validating", "complete"}
          /\ a.row.status = "Merged" => Settled(a.task)
          /\ a.task = Mine(r) /\ a.commit = Last(line')
          /\ a.place = "own"
    BY <1>1, <1>4, CommittedFields DEF Merge
  <2>2. \A t \in Task : row'[t].status = "Merged" => Settled(t)
    BY <1>1, <1>4, CommittedFields DEF Merge
  <2>3. \A t \in Task : Settled(t)' => Settled(t)
    BY <2>1, <2>2, SettledKept DEF Goes
  <2>4. ASSUME Alone
        PROVE  /\ Len(line') > 1 /\ line'[Len(line') - 1] = Content
               /\ Content' = Content \cup {Mine(r)}
    <3>1. Mine(r) \notin Content
      BY <1>2, <1>4, <2>4 DEF Merge
    <3>2. line' = Append(line, Content \cup {Mine(r)})
      BY <1>4, <3>1 DEF Merge, Squash
    <3>3. /\ line \in Seq(SUBSET Task) /\ line # <<>>
          /\ Content \cup {Mine(r)} \in SUBSET Task
      BY <1>1, AttemptFields, Parts DEF GitType
    <3> QED
      BY <3>2, <3>3, Commits DEF Content
  <2>5. Alone =>
          /\ \A t \in Task : Settled(t)' => t \in Content'
          /\ \A t \in Task : Settled(t)' => t \in line'[Len(line') - 1]
          /\ a.commit = Content' /\ a.task \in Content' /\ Len(line') > 1
    BY <1>2, <2>1, <2>3, <2>4 DEF Content
  <2> QED
    BY <1>1, <2>1, <2>5, LoudStep
<1> QED
  BY <1>3, <1>4

\* A validation that fails takes nothing settled off the target.
LEMMA ValidationAlone ==
  ASSUME ~CheckedOut, TypeInv, AloneInv, NEW r \in Runner,
         ValidationPasses(r) \/ ValidationFails(r)
  PROVE  AloneInv'
<1>1. /\ run[r].pc = "validating" /\ Mine(r) \in Task /\ Mine(r) = run[r].task
      /\ run[r].row \in Row /\ run[r] \in Attempts /\ Relies(run[r])
  BY AttemptFields
     DEF ValidationPasses, ValidationFails, At, Mine, Relies, PastGuard
<1>2. Alone => Informed(run[r]) /\ \A t \in Task : Settled(t) => t \in Content
  BY DEF Alone
<1>3. CASE ValidationPasses(r)
  <2> DEFINE v == [run[r].row EXCEPT !.validating = FALSE]
             a == [run[r] EXCEPT !.pc = "complete", !.row = v]
  <2>1. v \in Row /\ v.status = run[r].row.status
    BY <1>1 DEF Row
  <2>2. /\ a.pc = "complete" /\ a.row = v /\ a.task = Mine(r)
        /\ a.commit = run[r].commit
    BY <1>1 DEF Attempts
  <2>3. Goes(r, a) /\ Saves(Mine(r), v) /\ line' = line
    BY <1>3 DEF ValidationPasses, git
  <2> HIDE DEF v, a
  <2>4. /\ \A t \in Task : row'[t].status = "Merged" => Settled(t)
        /\ a.row.status = "Merged" => Settled(a.task)
    BY <2>1, <2>2, <2>3, SettledNow
  <2>5. Alone => Informed(a)
    BY <1>1, <1>2, <2>2 DEF Informed
  <2> QED
    BY <2>3, <2>4, <2>5, QuietStep
<1>4. CASE ValidationFails(r)
  <2> DEFINE v == [run[r].row EXCEPT !.status = "MergeIncomplete",
                                     !.validating = FALSE]
             a == [Idle EXCEPT !.pc = "clear", !.task = Mine(r)]
  <2>1. v \in Row /\ v.status # "Merged"
    <3>1. "MergeIncomplete" \in Status /\ FALSE \in BOOLEAN
      BY DEF Status
    <3>2. v \in Row
      BY <1>1, <3>1, RowFields
    <3>3. v.status = "MergeIncomplete"
      BY <1>1 DEF Row
    <3> QED
      BY <3>2, <3>3
  <2>2. a.pc = "clear" /\ a.row.status # "Merged"
    BY DEF Idle, Fresh
  <2>3. Goes(r, a) /\ Saves(Mine(r), v) /\ Reset(r)
    BY <1>4 DEF ValidationFails, Ends
  <2> HIDE DEF v, a
  <2>4. \A t \in Task : Settled(t)' => Settled(t)
    <3>1. \A t \in Task : row'[t].status = "Merged" => Settled(t)
      BY <2>1, <2>3, SettledNow
    <3> QED
      BY <2>2, <2>3, <3>1, SettledKept DEF Goes
  <2>5. Alone => \A t \in Task : Settled(t) => t \in Content'
    <3>1. CASE line' = line
      BY <1>2, <3>1 DEF Content
    <3>2. CASE line' # line
      <4>1. /\ run[r].place = "own" /\ Len(line) > 1 /\ line' = Front(line)
        BY <2>3, <3>2 DEF Reset, ResetsTarget
      <4>2. Content' = line[Len(line) - 1]
        BY <4>1, Parts, Resets DEF GitType, Content
      <4> QED
        BY <1>1, <1>2, <4>1, <4>2 DEF Informed
    <3> QED
      BY <3>1, <3>2
  <2> QED
    BY <1>1, <2>2, <2>3, <2>4, <2>5, LoudStep
<1> QED
  BY <1>3, <1>4

\* What is completed is on the target.
LEMMA CompleteAlone ==
  ASSUME TypeInv, AloneInv, NEW r \in Runner, Complete(r)
  PROVE  AloneInv'
<1> DEFINE a == [Idle EXCEPT !.pc = "clear", !.task = Mine(r)]
<1>1. /\ run[r].pc = "complete" /\ Mine(r) \in Task /\ Mine(r) = run[r].task
      /\ Relies(run[r])
  BY AttemptFields DEF Complete, At, Mine, Relies, PastGuard
<1>2. Goes(r, a) /\ line' = line
  BY DEF Complete, Ends
<1>3. a.pc = "clear" /\ a.row.status # "Merged"
  BY DEF Idle, Fresh
<1> HIDE DEF a
<1>4. \A t \in Task : Settled(t)' => Settled(t) \/ t = Mine(r)
  <2>1. \A t \in Task : t # Mine(r) => row'[t] = row[t]
    BY <1>1, Parts DEF Complete, Saves, RowType
  <2>2. run'[r] = a /\ \A s \in Runner \ {r} : run'[s] = run[s]
    BY <1>2, Parts DEF Goes, RunType
  <2> QED
    BY <1>3, <2>1, <2>2 DEF Settled
<1>5. Alone => \A t \in Task : Settled(t)' => t \in Content'
  BY <1>1, <1>2, <1>4 DEF Alone, Informed, Content
<1> QED
  BY <1>1, <1>2, <1>3, <1>5, LoudStep

\* Other ends of an attempt.
LEMMA EndAlone ==
  ASSUME TypeInv, AloneInv, NEW r \in Runner,
         CommitIsGone(r) \/ Clear(r) \/ TimeOut(r)
  PROVE  AloneInv'
<1>1. /\ Mine(r) \in Task /\ run[r].row \in Row /\ line' = line
      /\ row[Mine(r)] \in Row
  BY AttemptFields DEF CommitIsGone, Clear, TimeOut, At, git
<1>2. CASE CommitIsGone(r) \/ TimeOut(r)
  <2> DEFINE v == [run[r].row EXCEPT !.status = "MergeIncomplete"]
  <2>1. v \in Row /\ v.status # "Merged"
    <3>1. "MergeIncomplete" \in Status /\ FALSE \in BOOLEAN
      BY DEF Status
    <3>2. v \in Row
      BY <1>1, <3>1, RowFields
    <3>3. v.status = "MergeIncomplete"
      BY <1>1 DEF Row
    <3> QED
      BY <3>2, <3>3
  <2>2. Saves(Mine(r), v) /\ Ends(r)
    BY <1>2 DEF CommitIsGone, TimeOut
  <2> HIDE DEF v
  <2>3. \A t \in Task : row'[t].status = "Merged" => Settled(t)
    BY <2>1, <2>2, SettledNow
  <2> QED
    BY <1>1, <2>2, <2>3, EndsAlone
<1>3. CASE Clear(r)
  <2>1. \A t \in Task : row'[t].status = row[t].status
    BY <1>1, <1>3, Parts DEF Clear, RowType, Row
  <2>2. \A t \in Task : row'[t].status = "Merged" => Settled(t)
    BY <2>1, SettledNow
  <2>3. Idle.row.status # "Merged" /\ Informed(Idle)
    BY DEF Idle, Fresh, Informed
  <2> QED
    BY <1>1, <1>3, <2>2, <2>3, QuietStep DEF Clear
<1> QED
  BY <1>2, <1>3

\* An attempt that starts, and a task that is set back, settle nothing.
LEMMA StartsAlone ==
  ASSUME TypeInv, AloneInv, NEW t \in Task,
         Approve(t) \/ Retry(t) \/ Reconcile(t)
  PROVE  AloneInv'
<1>1. /\ line' = line
      /\ \A u \in Task : row'[u].status = "Merged" => row[u].status = "Merged"
  <2>1. line' = line
    BY DEF Approve, Retry, Reconcile, ReconcileExpired, ReconcileDeferred,
           ReconcileStale, ReconcileIncomplete, Startup, git
  <2>2. \/ UNCHANGED row
        \/ \E s \in Status \ {"Merged"} : Moves(t, s)
        \/ row' = [row EXCEPT ![t].deferred = FALSE]
        \/ row' = [row EXCEPT ![t].status = "PendingMerge",
                              ![t].deferred = FALSE]
    BY DEF Approve, Retry, Reconcile, ReconcileExpired, ReconcileDeferred,
           ReconcileStale, ReconcileIncomplete, Startup, table, Status
  <2>3. row \in [Task -> Row] /\ row[t] \in Row
    BY Parts DEF RowType
  <2>4. CASE \E s \in Status \ {"Merged"} : Moves(t, s)
    <3>1. PICK s \in Status \ {"Merged"} : Moves(t, s)
      BY <2>4
    <3> DEFINE v == [row[t] EXCEPT !.status = s]
    <3>2. v.status = s /\ row' = [row EXCEPT ![t] = v]
      BY <2>3, <3>1 DEF Moves, Row
    <3> HIDE DEF v
    <3>3. row'[t] = v /\ \A u \in Task \ {t} : row'[u] = row[u]
      BY <2>3, <3>2
    <3> QED
      BY <2>1, <3>1, <3>2, <3>3
  <2>5. CASE row' = [row EXCEPT ![t].deferred = FALSE]
    <3> DEFINE v == [row[t] EXCEPT !.deferred = FALSE]
    <3>1. v.status = row[t].status /\ row' = [row EXCEPT ![t] = v]
      BY <2>3, <2>5 DEF Row
    <3> HIDE DEF v
    <3>2. row'[t] = v /\ \A u \in Task \ {t} : row'[u] = row[u]
      BY <2>3, <3>1
    <3> QED
      BY <2>1, <3>1, <3>2
  <2>6. CASE row' = [row EXCEPT ![t].status = "PendingMerge",
                                ![t].deferred = FALSE]
    <3> DEFINE v == [row[t] EXCEPT !.status = "PendingMerge",
                                   !.deferred = FALSE]
    <3>1. v.status = "PendingMerge" /\ row' = [row EXCEPT ![t] = v]
      BY <2>3, <2>6 DEF Row
    <3> HIDE DEF v
    <3>2. row'[t] = v /\ \A u \in Task \ {t} : row'[u] = row[u]
      BY <2>3, <3>1
    <3> QED
      BY <2>1, <3>1, <3>2
  <2> QED
    BY <2>1, <2>2, <2>4, <2>5, <2>6
<1>2. \A u \in Task : row'[u].status = "Merged" => Settled(u)
  BY <1>1 DEF Settled
<1>3. Stays \/ \E r \in Runner : Starts(r, t)
  BY DEF Approve, Retry, Reconcile, ReconcileExpired, ReconcileDeferred,
         ReconcileStale, ReconcileIncomplete, Startup, Stays, Runner
<1>4. CASE Stays
  BY <1>1, <1>2, <1>4, StillStep DEF Stays
<1>5. ASSUME NEW r \in Runner, Starts(r, t)
      PROVE  AloneInv'
  <2> DEFINE a == [Idle EXCEPT !.pc = "enter", !.task = t]
  <2>1. a.pc = "enter" /\ a.row.status # "Merged" /\ Goes(r, a)
    BY <1>5 DEF Idle, Fresh, Starts
  <2> HIDE DEF a
  <2>2. Informed(a)
    BY <2>1 DEF Informed
  <2> QED
    BY <1>1, <1>2, <2>1, <2>2, QuietStep
<1> QED
  BY <1>3, <1>4, <1>5

\* After a restart nobody relies on the target.
LEMMA CrashAlone ==
  ASSUME TypeInv, AloneInv, Crash
  PROVE  AloneInv'
<1>1. /\ UNCHANGED <<row, line, overlap>>
      /\ \A r \in Runner : run'[r] = Idle
  BY DEF Crash, table, git
<1>2. Content' = Content /\ \A t \in Task : Settled(t)' => Settled(t)
  BY <1>1 DEF Settled, Content, Idle, Fresh
<1>3. /\ ~Relies(Idle)
      /\ \A r \in Runner : Informed(run[r])'
  BY <1>1 DEF Relies, PastGuard, Idle, Informed
<1> QED
  BY <1>1, <1>2, <1>3 DEF AloneInv, Alone, Relies, PastGuard

\* Every step keeps the invariant.
LEMMA NextAlone ==
  ASSUME ~CheckedOut, TypeInv, AloneInv, [Next]_vars
  PROVE  AloneInv'
<1>1. CASE UNCHANGED vars \/ NothingToRetry
  <2>1. UNCHANGED <<row, run, overlap, line>>
    BY <1>1 DEF vars, NothingToRetry, Stays, table, git
  <2>2. \A t \in Task : row'[t].status = "Merged" => Settled(t)
    BY <2>1 DEF Settled
  <2> QED
    BY <2>1, <2>2, StillStep
<1> QED
  BY <1>1, PrepareAlone, GuardAlone, MergeAlone, ValidationAlone, CompleteAlone,
     EndAlone, StartsAlone, CrashAlone DEF Next, Attempt

\* Into a target that the project's root is not on, and while attempts keep out
\* of each other's way, no crash, expired mark, timeout or failed validation
\* takes a completed merge off the target.
THEOREM AloneHolds == ASSUME ~CheckedOut PROVE Spec => []AloneIsSafe
<1>1. Init => TypeInv /\ AloneInv
  BY InitType, InitAlone
<1>2. TypeInv /\ AloneInv /\ [Next]_vars => (TypeInv /\ AloneInv)'
  BY NextType, NextAlone
<1>3. AloneInv => AloneIsSafe
  BY DEF AloneInv, Alone, AloneIsSafe, MergedIsOnTarget, Settled
<1> QED
  BY <1>1, <1>2, <1>3, PTL DEF Spec

=============================================================================
