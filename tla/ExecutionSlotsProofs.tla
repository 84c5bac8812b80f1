------------------------ MODULE ExecutionSlotsProofs ------------------------
(***************************************************************************)
(* Type correctness of ExecutionSlots, and the ownership of the registry:  *)
(* for any contexts, any number of runs and any bounds, a live run owns    *)
(* the entry of its context and no entry outlives its run.                 *)
(***************************************************************************)
EXTENDS ExecutionSlots, FiniteSetTheorems, TLAPS

\* A run takes its context when it registers, and only then.
UsedRunHasContext ==
  \A r \in Run : IF At(r, "unused") THEN ~run[r].dropped
                                    ELSE run[r].ctx \in Ctx

Owned == UsedRunHasContext /\ LiveRunOwnsEntry /\ EntryHasItsRun

IInv == TypeOK /\ Owned

\* The phases of a run that keep it live, or keep its entry.
LivePoints == {"registered", "checked", "counted", "turn", "between"}

\* A run is live at five points.
LEMMA LiveIsPoint == \A r \in Run : Live(r) <=> run[r].pc \in LivePoints
  BY DEF Live, Launching, LivePoints

\* The recount sets a natural number.
LEMMA RecountedType == ASSUME TypeOK PROVE Recounted \in Nat
<1>1. recount.ctxs \ idle \in SUBSET Ctx
  BY DEF TypeOK
<1>2. IsFiniteSet(recount.ctxs \ idle)
  BY <1>1, CtxAssumption, FS_Subset
<1> QED
  BY <1>2, FS_CardinalityType DEF Recounted

\* Giving up a registry entry keeps its type.
LEMMA ReleasedType ==
  ASSUME TypeOK, NEW r \in Run
  PROVE  Released(r) \in [Ctx -> Run \cup {NoRun}]
  BY DEF TypeOK, Released

\* A step of a run that keeps the registry: the run keeps its context, does
\* not come back to life, and stays torn down once it is.
LEMMA KeepingPreserves ==
  ASSUME IInv, NEW r \in Run, NEW e \in Runs, Becomes(r, e),
         ~At(r, "unused"), e.pc # "unused",
         e.ctx = run[r].ctx, e.dropped = run[r].dropped,
         registry' = registry,
         e.pc \in LivePoints => Live(r),
         Live(r) => e.pc \in LivePoints \cup {"unregister"},
         At(r, "unregister") => e.pc = "unregister"
  PROVE  Owned'
<1>1. run' \in [Run -> Runs] /\ run'[r] = e
  BY DEF IInv, TypeOK, Becomes
<1>2. \A s \in Run \ {r} : run'[s] = run[s]
  BY DEF IInv, TypeOK, Becomes
<1>3. \A s \in Run : /\ run'[s].ctx = run[s].ctx
                     /\ run'[s].dropped = run[s].dropped
  BY <1>1, <1>2
<1>4. \A s \in Run : Live(s)' => Live(s)
  BY <1>1, <1>2, LiveIsPoint DEF Live, Launching, LivePoints
<1>5. UsedRunHasContext'
  BY <1>1, <1>2 DEF IInv, Owned, UsedRunHasContext, At
<1>6. LiveRunOwnsEntry'
  BY <1>3, <1>4 DEF IInv, Owned, LiveRunOwnsEntry, EntryLost
<1>7. EntryHasItsRun'
  <2>1. SUFFICES ASSUME NEW c \in Ctx, NEW s \in Run, registry[c] = s
                 PROVE  run[s]'.ctx = c /\ (Live(s)' \/ At(s, "unregister")')
    BY DEF EntryHasItsRun
  <2>2. run[s].ctx = c /\ (Live(s) \/ At(s, "unregister"))
    BY <2>1 DEF IInv, Owned, EntryHasItsRun
  <2>3. CASE s = r
    BY <1>1, <2>2, <2>3 DEF Live, Launching, LivePoints, At
  <2>4. CASE s # r
    BY <1>2, <2>2, <2>4 DEF Live, Launching, At
  <2> QED
    BY <2>3, <2>4
<1> QED
  BY <1>5, <1>6, <1>7 DEF Owned

\* A step of a run that gives up its entry and ends, or is dropped.
LEMMA ReleasePreserves ==
  ASSUME IInv, NEW r \in Run, NEW e \in Runs, Becomes(r, e),
         ~At(r, "unused"), e.pc # "unused",
         e.ctx = run[r].ctx, run[r].dropped => e.dropped,
         registry' = Released(r),
         e.pc \in LivePoints => e.dropped
  PROVE  Owned'
<1>1. run' \in [Run -> Runs] /\ run'[r] = e
  BY DEF IInv, TypeOK, Becomes
<1>2. \A s \in Run \ {r} : run'[s] = run[s]
  BY DEF IInv, TypeOK, Becomes
<1>3. \A s \in Run : /\ run'[s].ctx = run[s].ctx
                     /\ run[s].dropped => run'[s].dropped
  BY <1>1, <1>2
<1>4. UsedRunHasContext'
  BY <1>1, <1>2 DEF IInv, Owned, UsedRunHasContext, At
<1>5. LiveRunOwnsEntry'
  <2>1. SUFFICES ASSUME NEW s \in Run, Live(s)', ~EntryLost(run[s].ctx)'
                 PROVE  registry'[run[s].ctx] = s
    BY <1>3 DEF LiveRunOwnsEntry
  <2>2. s # r
    BY <1>1, <1>3, <2>1 DEF Live, Launching, LivePoints, EntryLost
  <2>3. Live(s) /\ ~EntryLost(run[s].ctx)
    BY <1>2, <1>3, <2>1, <2>2 DEF Live, Launching, EntryLost
  <2>4. registry[run[s].ctx] = s /\ run[s].ctx \in Ctx
    BY <2>3 DEF IInv, Owned, LiveRunOwnsEntry, UsedRunHasContext, Live,
                Launching, At
  <2> QED
    BY <2>2, <2>4 DEF Released
<1>6. EntryHasItsRun'
  <2>1. SUFFICES ASSUME NEW c \in Ctx, NEW s \in Run, registry'[c] = s
                 PROVE  run[s]'.ctx = c /\ (Live(s)' \/ At(s, "unregister")')
    BY DEF EntryHasItsRun
  <2>2. registry[c] = s /\ ~(c = run[r].ctx /\ s = r)
    BY <2>1, RunAssumption DEF Released
  <2>3. run[s].ctx = c /\ (Live(s) \/ At(s, "unregister"))
    BY <2>2 DEF IInv, Owned, EntryHasItsRun
  <2>4. s # r
    BY <2>2, <2>3
  <2> QED
    BY <1>2, <2>3, <2>4 DEF Live, Launching, At
<1> QED
  BY <1>4, <1>5, <1>6 DEF Owned

\* Registration: the entry of the context was free, so a run of it can only be
\* live if one of them lost its entry.
LEMMA RegisterPreserves ==
  ASSUME IInv, NEW r \in Run, NEW c \in Ctx, Register(r, c)
  PROVE  Owned'
<1> DEFINE e == [Unused EXCEPT !.pc = "registered", !.ctx = c,
                               !.attempt = attempt[c]]
<1>1. /\ At(r, "unused") /\ MayRegister(c)
      /\ registry' = [registry EXCEPT ![c] = r]
      /\ run' = [run EXCEPT ![r] = e]
  BY DEF Register, Becomes
<1>2. e.pc = "registered" /\ e.ctx = c /\ e.dropped = FALSE
  BY DEF Unused
<1> HIDE DEF e
<1>3. run'[r] = e /\ \A s \in Run \ {r} : run'[s] = run[s]
  BY <1>1 DEF IInv, TypeOK
<1>4. registry[c] = NoRun /\ registry'[c] = r
      /\ \A d \in Ctx \ {c} : registry'[d] = registry[d]
  BY <1>1 DEF MayRegister, IInv, TypeOK
<1>5. UsedRunHasContext'
  BY <1>2, <1>3 DEF IInv, Owned, UsedRunHasContext, At
<1>6. LiveRunOwnsEntry'
  <2>1. SUFFICES ASSUME NEW s \in Run, Live(s)', ~EntryLost(run[s].ctx)',
                        s # r
                 PROVE  registry'[run'[s].ctx] = s
    BY <1>2, <1>3, <1>4 DEF LiveRunOwnsEntry, EntryLost
  <2>2. Live(s) /\ run'[s] = run[s]
    BY <1>3, <2>1 DEF Live, Launching
  <2>3. ~EntryLost(run[s].ctx)
    <3>1. SUFFICES ASSUME NEW q \in Run, run[q].ctx = run[s].ctx, run[q].dropped
                   PROVE  FALSE
      BY DEF EntryLost
    <3>2. q # r
      BY <1>1, <3>1 DEF IInv, Owned, UsedRunHasContext
    <3> QED
      BY <1>3, <2>1, <2>2, <3>1, <3>2 DEF EntryLost
  <2>4. registry[run[s].ctx] = s /\ run[s].ctx \in Ctx
    BY <2>2, <2>3 DEF IInv, Owned, LiveRunOwnsEntry, UsedRunHasContext, Live,
                      Launching, At
  <2> QED
    BY <1>4, <2>2, <2>4, RunAssumption
<1>7. EntryHasItsRun'
  <2>1. SUFFICES ASSUME NEW d \in Ctx, NEW s \in Run, registry'[d] = s
                 PROVE  run[s]'.ctx = d /\ (Live(s)' \/ At(s, "unregister")')
    BY DEF EntryHasItsRun
  <2>2. CASE d = c
    BY <1>2, <1>3, <1>4, <2>1, <2>2 DEF Live, Launching
  <2>3. CASE d # c
    <3>1. run[s].ctx = d /\ (Live(s) \/ At(s, "unregister"))
      BY <1>4, <2>1, <2>3 DEF IInv, Owned, EntryHasItsRun
    <3>2. s # r
      BY <1>1, <3>1 DEF Live, Launching, At
    <3> QED
      BY <1>3, <3>1, <3>2 DEF Live, Launching, At
  <2> QED
    BY <2>2, <2>3
<1> QED
  BY <1>5, <1>6, <1>7 DEF Owned

\* The launch that takes the entry over: unless a run of the context lost its
\* entry, it was its own already.
LEMMA SpawnedPreserves ==
  ASSUME IInv, NEW r \in Run, Spawned(r)
  PROVE  Owned'
<1> DEFINE e == [run[r] EXCEPT !.pc = "turn"]
           c == run[r].ctx
<1>1. /\ At(r, "counted")
      /\ registry' = [registry EXCEPT ![c] = r]
      /\ run' = [run EXCEPT ![r] = e]
  BY DEF Spawned, Goto, Becomes
<1>2. run[r] \in Runs /\ c \in Ctx
  BY <1>1 DEF IInv, TypeOK, Owned, UsedRunHasContext, At
<1>3. e.pc = "turn" /\ e.ctx = c /\ e.dropped = run[r].dropped
  BY <1>2 DEF Runs
<1> HIDE DEF e
<1>4. run'[r] = e /\ \A s \in Run \ {r} : run'[s] = run[s]
  BY <1>1 DEF IInv, TypeOK
<1>5. /\ registry'[c] = r
      /\ \A d \in Ctx \ {c} : registry'[d] = registry[d]
  BY <1>1, <1>2 DEF IInv, TypeOK
<1>6. \A s \in Run : /\ run'[s].ctx = run[s].ctx
                     /\ run'[s].dropped = run[s].dropped
                     /\ Live(s)' <=> Live(s)
  BY <1>1, <1>3, <1>4 DEF Live, Launching, At
<1>7. UsedRunHasContext'
  BY <1>2, <1>3, <1>4 DEF IInv, Owned, UsedRunHasContext, At
<1>8. LiveRunOwnsEntry'
  <2>1. SUFFICES ASSUME NEW s \in Run, Live(s), ~EntryLost(run[s].ctx)
                 PROVE  registry'[run[s].ctx] = s
    BY <1>6 DEF LiveRunOwnsEntry, EntryLost
  <2>2. registry[run[s].ctx] = s /\ run[s].ctx \in Ctx
    BY <2>1 DEF IInv, Owned, LiveRunOwnsEntry, UsedRunHasContext, Live,
                Launching, At
  <2>3. CASE run[s].ctx = c
    <3>1. registry[c] = r
      BY <1>1, <2>1, <2>3 DEF IInv, Owned, LiveRunOwnsEntry, Live, Launching, At
    <3> QED
      BY <1>5, <2>2, <2>3, <3>1
  <2>4. CASE run[s].ctx # c
    BY <1>5, <2>2, <2>4
  <2> QED
    BY <2>3, <2>4
<1>9. EntryHasItsRun'
  <2>1. SUFFICES ASSUME NEW d \in Ctx, NEW s \in Run, registry'[d] = s
                 PROVE  run[s]'.ctx = d /\ (Live(s)' \/ At(s, "unregister")')
    BY DEF EntryHasItsRun
  <2>2. CASE d = c
    BY <1>3, <1>4, <1>5, <2>1, <2>2 DEF Live, Launching
  <2>3. CASE d # c
    <3>1. run[s].ctx = d /\ (Live(s) \/ At(s, "unregister"))
      BY <1>5, <2>1, <2>3 DEF IInv, Owned, EntryHasItsRun
    <3>2. s # r
      BY <2>3, <3>1
    <3> QED
      BY <1>4, <3>1, <3>2 DEF Live, Launching, At
  <2> QED
    BY <2>2, <2>3
<1> QED
  BY <1>7, <1>8, <1>9 DEF Owned

\* Steps that touch neither runs nor the registry.
LEMMA QuietPreserves ==
  ASSUME IInv, UNCHANGED <<run, registry>>
  PROVE  Owned'
  BY DEF IInv, Owned, UsedRunHasContext, LiveRunOwnsEntry, EntryHasItsRun,
         EntryLost, Live, Launching, At

\* A decrement saturates at zero.
LEMMA Minus1Type == \A n \in Nat : Minus1(n) \in Nat
  BY DEF Minus1

\* The types, when a run becomes e and the rest stays in its types.
LEMMA RunStepType ==
  ASSUME TypeOK, NEW r \in Run, NEW e \in Runs, Becomes(r, e),
         running' \in Nat,
         registry' \in [Ctx -> Run \cup {NoRun}],
         ipr' \in [Ctx -> Run \cup {NoRun}],
         idle' \subseteq Ctx,
         on' \subseteq Ctx,
         claims' \in [Ctx -> Nat],
         messages' \in Nat,
         cleaning' \subseteq Ctx,
         UNCHANGED <<attempt, recount>>
  PROVE  TypeOK'
  BY DEF TypeOK, Becomes

\* The launch of a run.
LEMMA RegisterType ==
  ASSUME IInv, NEW r \in Run, NEW c \in Ctx, Register(r, c)
  PROVE  TypeOK'
<1> DEFINE e == [Unused EXCEPT !.pc = "registered", !.ctx = c,
                               !.attempt = attempt[c]]
<1>1. e \in Runs
  BY DEF IInv, TypeOK, Unused, Runs, Points
<1>2. Becomes(r, e)
  BY DEF Register
<1> HIDE DEF e
<1> QED
  BY <1>1, <1>2, RunStepType DEF Register, IInv, TypeOK

\* A run that is over is well typed.
LEMMA OverType ==
  ASSUME NEW r \in Run, run[r] \in Runs,
         NEW e, e = [Unused EXCEPT !.pc = "done", !.ctx = run[r].ctx,
                                   !.dropped = run[r].dropped]
  PROVE  /\ e \in Runs /\ e.pc = "done"
         /\ e.ctx = run[r].ctx /\ e.dropped = run[r].dropped
  BY DEF Unused, Runs, Points

\* A launch that starts owns nothing yet.
LEMMA LaunchPreserves ==
  ASSUME IInv, NEW r \in Run,
         CheckCapacity(r) \/ Count(r) \/ Spawned(r) \/ SpawnFailed(r) \/ Drop(r)
  PROVE  IInv'
<1> DEFINE To(p) == [run[r] EXCEPT !.pc = p]
           over == [Unused EXCEPT !.pc = "done", !.ctx = run[r].ctx,
                                  !.dropped = run[r].dropped]
           dropped == [run[r] EXCEPT !.dropped = TRUE]
<1>1. run[r] \in Runs /\ Launching(r) /\ Live(r) /\ ~At(r, "unused")
      /\ ~At(r, "unregister")
  BY DEF IInv, TypeOK, CheckCapacity, Count, Spawned, SpawnFailed, Drop,
         Launching, Live, At
<1>2. \A p \in Points : /\ To(p) \in Runs
                        /\ To(p).pc = p
                        /\ To(p).ctx = run[r].ctx
                        /\ To(p).dropped = run[r].dropped
  BY <1>1 DEF Runs
<1>3. /\ dropped \in Runs /\ dropped.dropped
      /\ dropped.pc = run[r].pc /\ dropped.ctx = run[r].ctx
  BY <1>1 DEF Runs
<1>4. /\ {"checked", "counted", "turn"} \subseteq Points
      /\ over \in Runs /\ over.pc = "done"
      /\ over.ctx = run[r].ctx /\ over.dropped = run[r].dropped
  BY <1>1, OverType DEF Points
<1> HIDE DEF To, over, dropped
<1>5. Released(r) \in [Ctx -> Run \cup {NoRun}]
  BY ReleasedType DEF IInv
<1>6. on \ ({run[r].ctx} \cap Execution) \subseteq Ctx
  BY DEF IInv, TypeOK
<1>7. CASE CheckCapacity(r)
  <2>1. CASE Goto(r, "checked") /\ UNCHANGED <<registry, on>>
    <3>1. Becomes(r, To("checked")) /\ UNCHANGED registry
      BY <2>1 DEF Goto, To
    <3>2. TypeOK'
      BY <1>2, <1>4, <1>7, <2>1, <3>1, RunStepType
         DEF CheckCapacity, IInv, TypeOK
    <3>3. Owned'
      BY <1>1, <1>2, <1>4, <3>1, KeepingPreserves DEF LivePoints
    <3> QED
      BY <3>2, <3>3 DEF IInv
  <2>2. CASE Over(r) /\ registry' = Released(r) /\ LaunchFailed(r)
    <3>1. Becomes(r, over) /\ registry' = Released(r)
      BY <2>2 DEF Over, over
    <3>2. TypeOK'
      BY <1>2, <1>4, <1>5, <1>6, <1>7, <2>2, <3>1, RunStepType
         DEF CheckCapacity, LaunchFailed, IInv, TypeOK
    <3>3. Owned'
      BY <1>1, <1>2, <1>4, <3>1, ReleasePreserves DEF LivePoints
    <3> QED
      BY <3>2, <3>3 DEF IInv
  <2> QED
    BY <1>7, <2>1, <2>2 DEF CheckCapacity
<1>8. CASE Count(r)
  <2>1. Becomes(r, To("counted")) /\ UNCHANGED registry
    BY <1>8 DEF Count, Goto, To
  <2>2. TypeOK'
    BY <1>2, <1>4, <1>8, <2>1, RunStepType DEF Count, IInv, TypeOK
  <2>3. Owned'
    BY <1>1, <1>2, <1>4, <2>1, KeepingPreserves DEF LivePoints
  <2> QED
    BY <2>2, <2>3 DEF IInv
<1>9. CASE Spawned(r)
  <2>1. Becomes(r, To("turn"))
    BY <1>9 DEF Spawned, Goto, To
  <2>2. TypeOK'
    BY <1>2, <1>4, <1>9, <2>1, RunStepType DEF Spawned, IInv, TypeOK
  <2> QED
    BY <1>9, <2>2, SpawnedPreserves DEF IInv
<1>10. CASE SpawnFailed(r)
  <2>1. Becomes(r, over) /\ registry' = Released(r)
    BY <1>10 DEF SpawnFailed, Over, over
  <2>2. TypeOK'
    BY <1>2, <1>4, <1>5, <1>6, <1>10, <2>1, RunStepType, Minus1Type
       DEF SpawnFailed, LaunchFailed, IInv, TypeOK
  <2>3. Owned'
    BY <1>1, <1>2, <1>4, <2>1, ReleasePreserves DEF LivePoints
  <2> QED
    BY <2>2, <2>3 DEF IInv
<1>11. CASE Drop(r)
  <2>1. Becomes(r, dropped) /\ registry' = Released(r)
    BY <1>11 DEF Drop, dropped
  <2>2. TypeOK'
    BY <1>3, <1>5, <1>11, <2>1, RunStepType DEF Drop, IInv, TypeOK
  <2>3. Owned'
    BY <1>1, <1>3, <2>1, ReleasePreserves DEF At
  <2> QED
    BY <2>2, <2>3 DEF IInv
<1> QED
  BY <1>7, <1>8, <1>9, <1>10, <1>11

\* The turns of a run, and a message written to it.
LEMMA TurnPreserves ==
  ASSUME IInv, NEW r \in Run, NEW e \in Runs, Becomes(r, e),
         run[r].pc \in {"turn", "between"}, e.pc \in {"turn", "between"},
         e.ctx = run[r].ctx, e.dropped = run[r].dropped, UNCHANGED registry
  PROVE  Owned'
<1>1. /\ Live(r) /\ e.pc \in LivePoints /\ e.pc # "unused"
      /\ ~At(r, "unused") /\ ~At(r, "unregister")
  BY DEF Live, LivePoints, At
<1> QED
  BY <1>1, KeepingPreserves

\* The end of a turn leaves the registry alone.
LEMMA TurnCompletePreserves ==
  ASSUME IInv, NEW r \in Run, TurnComplete(r)
  PROVE  IInv'
<1> DEFINE e == [run[r] EXCEPT !.pc = "between", !.turned = TRUE]
<1>1. run[r] \in Runs /\ Becomes(r, e) /\ run[r].pc = "turn"
  BY DEF IInv, TypeOK, TurnComplete, At
<1>2. /\ e \in Runs /\ e.pc = "between"
      /\ e.ctx = run[r].ctx /\ e.dropped = run[r].dropped
  BY <1>1 DEF Runs, Points
<1>3. run[r].ctx \in Ctx
  BY <1>1 DEF IInv, Owned, UsedRunHasContext, At
<1> HIDE DEF e
<1>4. TypeOK'
  BY <1>1, <1>2, <1>3, RunStepType, Minus1Type DEF TurnComplete, IInv, TypeOK
<1>5. Owned'
  BY <1>1, <1>2, TurnPreserves DEF TurnComplete
<1> QED
  BY <1>4, <1>5 DEF IInv

\* So does the start of another one.
LEMMA NextTurnPreserves ==
  ASSUME IInv, NEW r \in Run, NextTurn(r)
  PROVE  IInv'
<1> DEFINE e == [run[r] EXCEPT !.pc = "turn", !.stdin = @ - 1]
<1>1. run[r] \in Runs /\ Becomes(r, e) /\ run[r].pc = "between"
      /\ run[r].stdin > 0
  BY DEF IInv, TypeOK, NextTurn, At
<1>2. run[r].stdin - 1 \in Nat
  BY <1>1 DEF Runs
<1>3. /\ e \in Runs /\ e.pc = "turn"
      /\ e.ctx = run[r].ctx /\ e.dropped = run[r].dropped
  BY <1>1, <1>2 DEF Runs, Points
<1> HIDE DEF e
<1>4. TypeOK'
  BY <1>1, <1>3, RunStepType DEF NextTurn, IInv, TypeOK
<1>5. Owned'
  BY <1>1, <1>3, TurnPreserves DEF NextTurn
<1> QED
  BY <1>4, <1>5 DEF IInv

\* A message written to a run leaves its entry in place.
LEMMA WritePreserves ==
  ASSUME IInv, NEW c \in Ctx, Write(c)
  PROVE  IInv'
<1>1. PICK r \in Run : r = ipr[c]
  BY DEF Write, IInv, TypeOK
<1> DEFINE e == [run[r] EXCEPT !.stdin = @ + 1]
<1>2. run[r] \in Runs /\ Becomes(r, e) /\ run[r].pc \in {"turn", "between"}
  BY <1>1 DEF IInv, TypeOK, Write
<1>3. run[r].stdin + 1 \in Nat
  BY <1>2 DEF Runs
<1>4. /\ e \in Runs /\ e.pc = run[r].pc
      /\ e.ctx = run[r].ctx /\ e.dropped = run[r].dropped
  BY <1>2, <1>3 DEF Runs
<1> HIDE DEF e
<1>5. TypeOK'
  BY <1>2, <1>4, RunStepType DEF Write, IInv, TypeOK
<1>6. Owned'
  BY <1>2, <1>4, TurnPreserves DEF Write
<1> QED
  BY <1>5, <1>6 DEF IInv

\* The end of a run.
LEMMA StreamEndsPreserves ==
  ASSUME IInv, NEW r \in Run, StreamEnds(r)
  PROVE  IInv'
<1> DEFINE e == [run[r] EXCEPT !.pc = "unregister", !.held = At(r, "turn")]
<1>1. run[r] \in Runs /\ Becomes(r, e) /\ run[r].pc \in {"turn", "between"}
  BY DEF IInv, TypeOK, StreamEnds
<1>2. At(r, "turn") \in BOOLEAN
  BY DEF At
<1>3. /\ e \in Runs /\ e.pc = "unregister"
      /\ e.ctx = run[r].ctx /\ e.dropped = run[r].dropped
  BY <1>1, <1>2 DEF Runs, Points
<1> HIDE DEF e
<1>4. TypeOK'
  BY <1>1, <1>3, RunStepType DEF StreamEnds, IInv, TypeOK
<1>5. Owned'
  BY <1>1, <1>3, KeepingPreserves DEF StreamEnds, At, LivePoints
<1> QED
  BY <1>4, <1>5 DEF IInv

\* A run that is killed owns its entry no longer, and is marked as killed.
LEMMA KillPreserves ==
  ASSUME IInv, NEW r \in Run, Kill(r)
  PROVE  IInv'
<1> DEFINE e == [run[r] EXCEPT !.pc = "unregister", !.held = At(r, "turn"),
                               !.killed = TRUE]
<1>1. run[r] \in Runs /\ Becomes(r, e) /\ run[r].pc \in {"turn", "between"}
  BY DEF IInv, TypeOK, Kill
<1>2. At(r, "turn") \in BOOLEAN
  BY DEF At
<1>3. /\ e \in Runs /\ e.pc = "unregister"
      /\ e.ctx = run[r].ctx /\ e.dropped = run[r].dropped
  BY <1>1, <1>2 DEF Runs, Points
<1> HIDE DEF e
<1>4. TypeOK'
  BY <1>1, <1>3, RunStepType, ReleasedType DEF Kill, IInv, TypeOK
<1>5. Owned'
  BY <1>1, <1>3, ReleasePreserves DEF Kill, At, LivePoints
<1> QED
  BY <1>4, <1>5 DEF IInv

\* A teardown deletes the entry of its own run only.
LEMMA UnregisterPreserves ==
  ASSUME IInv, NEW r \in Run, Unregister(r)
  PROVE  IInv'
<1> DEFINE e == [run[r] EXCEPT !.pc = "clear"]
<1>1. run[r] \in Runs /\ Becomes(r, e) /\ run[r].pc = "unregister"
  BY DEF IInv, TypeOK, Unregister, Goto, At
<1>2. /\ e \in Runs /\ e.pc = "clear"
      /\ e.ctx = run[r].ctx /\ e.dropped = run[r].dropped
  BY <1>1 DEF Runs, Points
<1> HIDE DEF e
<1>3. TypeOK'
  BY <1>1, <1>2, RunStepType, ReleasedType DEF Unregister, IInv, TypeOK
<1>4. Owned'
  BY <1>1, <1>2, ReleasePreserves DEF Unregister, At, LivePoints
<1> QED
  BY <1>3, <1>4 DEF IInv

\* What a run that has left the registry still does.
LEMMA TornDownPreserves ==
  ASSUME IInv, NEW r \in Run, NEW e \in Runs, Becomes(r, e),
         run[r].pc \in {"clear", "reincrement", "handle"},
         e.pc \in {"reincrement", "handle", "done"},
         e.ctx = run[r].ctx, e.dropped = run[r].dropped, UNCHANGED registry
  PROVE  Owned'
<1>1. /\ ~At(r, "unused") /\ ~At(r, "unregister") /\ ~Live(r)
      /\ e.pc \notin LivePoints /\ e.pc # "unused"
  BY DEF At, Live, Launching, LivePoints
<1> QED
  BY <1>1, KeepingPreserves

\* Clearing the stdin of a context leaves the registry alone.
LEMMA ClearPreserves ==
  ASSUME IInv, NEW r \in Run, Clear(r)
  PROVE  IInv'
<1> DEFINE over == [Unused EXCEPT !.pc = "done", !.ctx = run[r].ctx,
                                  !.dropped = run[r].dropped]
           next == [run[r] EXCEPT !.pc = "reincrement"]
<1>1. run[r] \in Runs /\ run[r].pc = "clear"
  BY DEF IInv, TypeOK, Clear, At
<1>2. PICK e \in {over, next} : Becomes(r, e)
  BY DEF Clear, Over, Goto
<1>3. /\ over \in Runs /\ over.pc = "done"
      /\ over.ctx = run[r].ctx /\ over.dropped = run[r].dropped
  BY <1>1, OverType
<1>4. /\ next \in Runs /\ next.pc = "reincrement"
      /\ next.ctx = run[r].ctx /\ next.dropped = run[r].dropped
  BY <1>1 DEF Runs, Points
<1> HIDE DEF over, next
<1>5. TypeOK'
  BY <1>2, <1>3, <1>4, RunStepType DEF Clear, IInv, TypeOK
<1>6. Owned'
  BY <1>1, <1>2, <1>3, <1>4, TornDownPreserves DEF Clear
<1> QED
  BY <1>5, <1>6 DEF IInv

\* A count restored leaves the registry alone.
LEMMA ReincrementPreserves ==
  ASSUME IInv, NEW r \in Run, Reincrement(r)
  PROVE  IInv'
<1>1. PICK silent \in BOOLEAN :
        /\ running' = IF TakesAgain(r, silent) THEN running + 1 ELSE running
        /\ Becomes(r, [run[r] EXCEPT !.pc = "handle",
                                     !.held = @ /\ ~run[r].killed])
  BY DEF Reincrement
<1> DEFINE e == [run[r] EXCEPT !.pc = "handle",
                               !.held = @ /\ ~run[r].killed]
<1>2. run[r] \in Runs /\ Becomes(r, e) /\ run[r].pc = "reincrement"
  BY <1>1 DEF IInv, TypeOK, Reincrement, At
<1>3. /\ TakesAgain(r, silent) \in BOOLEAN
      /\ (run[r].held /\ ~run[r].killed) \in BOOLEAN
  BY DEF TakesAgain
<1>4. /\ e \in Runs /\ e.pc = "handle"
      /\ e.ctx = run[r].ctx /\ e.dropped = run[r].dropped
  BY <1>2, <1>3 DEF Runs, Points
<1>5. running' \in Nat
  BY <1>1 DEF IInv, TypeOK
<1> HIDE DEF e
<1>6. TypeOK'
  BY <1>2, <1>4, <1>5, RunStepType DEF Reincrement, IInv, TypeOK
<1>7. Owned'
  BY <1>2, <1>4, TornDownPreserves DEF Reincrement
<1> QED
  BY <1>6, <1>7 DEF IInv

\* The result of a turn leaves the registry alone.
LEMMA HandleResultPreserves ==
  ASSUME IInv, NEW r \in Run, HandleResult(r)
  PROVE  IInv'
<1> DEFINE over == [Unused EXCEPT !.pc = "done", !.ctx = run[r].ctx,
                                  !.dropped = run[r].dropped]
<1>1. run[r] \in Runs /\ Becomes(r, over) /\ run[r].pc = "handle"
  BY DEF IInv, TypeOK, HandleResult, Over, At
<1>2. /\ over \in Runs /\ over.pc = "done"
      /\ over.ctx = run[r].ctx /\ over.dropped = run[r].dropped
  BY <1>1, OverType
<1>3. running' \in Nat /\ on' \subseteq Ctx
  BY Minus1Type DEF HandleResult, IInv, TypeOK
<1> HIDE DEF over
<1>4. TypeOK'
  BY <1>1, <1>2, <1>3, RunStepType DEF HandleResult, IInv, TypeOK
<1>5. Owned'
  BY <1>1, <1>2, TornDownPreserves DEF HandleResult
<1> QED
  BY <1>4, <1>5 DEF IInv

\* A sender deletes the entry of a run it found dead: the entry may be free by
\* now, belong to a run that is being torn down, or to a live one.
LEMMA DeleteStalePreserves ==
  ASSUME IInv, NEW c \in Ctx, DeleteStale(c)
  PROVE  IInv'
<1>1. registry' = [registry EXCEPT ![c] = NoRun] /\ cleaning' \subseteq Ctx
  BY DEF DeleteStale, IInv, TypeOK
<1>2. CASE registry[c] = NoRun
  <2>1. UNCHANGED <<run, registry>>
    BY <1>1, <1>2 DEF DeleteStale, IInv, TypeOK
  <2>2. TypeOK'
    BY <1>1, <2>1 DEF DeleteStale, IInv, TypeOK
  <2> QED
    BY <2>1, <2>2, QuietPreserves DEF IInv
<1>3. CASE registry[c] # NoRun
  <2>1. PICK r \in Run : r = registry[c]
    BY <1>3 DEF IInv, TypeOK
  <2>2. run[r] \in Runs /\ run[r].ctx = c /\ ~At(r, "unused")
    BY <2>1 DEF IInv, TypeOK, Owned, EntryHasItsRun, Live, Launching, At
  <2>3. registry' = Released(r)
    BY <1>1, <2>1, <2>2 DEF Released, IInv, TypeOK
  <2> DEFINE dropped == [run[r] EXCEPT !.dropped = TRUE]
  <2>4. /\ dropped \in Runs /\ dropped.dropped
        /\ dropped.pc = run[r].pc /\ dropped.ctx = run[r].ctx
    BY <2>2 DEF Runs
  <2>5. PICK e \in {dropped, run[r]} : Becomes(r, e) /\ (Live(r) => e = dropped)
    <3>1. CASE Live(r)
      BY <1>3, <2>1, <3>1 DEF DeleteStale
    <3>2. CASE ~Live(r)
      <4>1. run' = [run EXCEPT ![r] = run[r]]
        BY <2>1, <3>2 DEF DeleteStale, IInv, TypeOK
      <4> QED
        BY <3>2, <4>1 DEF Becomes
    <3> QED
      BY <3>1, <3>2
  <2> HIDE DEF dropped
  <2>6. TypeOK'
    BY <1>1, <2>2, <2>4, <2>5, RunStepType DEF DeleteStale, IInv, TypeOK
  <2>7. e.pc \in LivePoints => e.dropped
    BY <2>4, <2>5, LiveIsPoint
  <2>8. Owned'
    BY <2>2, <2>3, <2>4, <2>5, <2>7, ReleasePreserves DEF At
  <2> QED
    BY <2>6, <2>8 DEF IInv
<1> QED
  BY <1>2, <1>3

\* Steps of tasks, senders and the reconciler.
LEMMA OtherStepsPreserve ==
  ASSUME IInv,
         \/ \E c \in Ctx : \/ Enter(c) \/ Depart(c) \/ Claim(c)
                         \/ FindStale(c) \/ CloseStdin(c)
         \/ RecountList \/ RecountSet
  PROVE  IInv'
<1>1. TypeOK'
  <2>1. ASSUME NEW c \in Ctx, Enter(c) PROVE TypeOK'
    BY <2>1 DEF IInv, TypeOK, Enter, Ctx, TaskCtx
  <2>2. ASSUME NEW c \in Ctx, Depart(c) PROVE TypeOK'
    BY <2>2, Minus1Type DEF IInv, TypeOK, Depart
  <2>3. ASSUME NEW c \in Ctx, Claim(c) PROVE TypeOK'
    <3>1. claims[c] - 1 \in Nat
      BY <2>3 DEF IInv, TypeOK, Claim
    <3> QED
      BY <2>3, <3>1 DEF IInv, TypeOK, Claim
  <2>4. ASSUME NEW c \in Ctx, FindStale(c) \/ CloseStdin(c) PROVE TypeOK'
    BY <2>4 DEF IInv, TypeOK, FindStale, CloseStdin
  <2>5. CASE RecountList
    BY <2>5 DEF IInv, TypeOK, RecountList
  <2>6. CASE RecountSet
    BY <2>6, RecountedType DEF IInv, TypeOK, RecountSet, NoRecount
  <2> QED
    BY <2>1, <2>2, <2>3, <2>4, <2>5, <2>6
<1>2. UNCHANGED <<run, registry>>
  BY DEF Enter, Depart, Claim, FindStale, CloseStdin, RecountList, RecountSet
<1> QED
  BY <1>1, <1>2, QuietPreserves DEF IInv

\* The invariant holds at first.
LEMMA InitIInv == Init => IInv
  BY RunAssumption
     DEF Init, IInv, TypeOK, Owned, UsedRunHasContext, LiveRunOwnsEntry,
         EntryHasItsRun, Live, Launching, At, Unused, Runs, Points, NoRecount,
         Ctx

\* Every step preserves the invariant.
LEMMA NextPreserves == IInv /\ [Next]_vars => IInv'
<1> SUFFICES ASSUME IInv, [Next]_vars PROVE IInv'
  OBVIOUS
<1>1. CASE UNCHANGED vars
  BY <1>1, QuietPreserves DEF vars, IInv, TypeOK
<1>2. ASSUME NEW r \in Run, RunStep(r) PROVE IInv'
  <2>1. ASSUME NEW c \in Ctx, Register(r, c) PROVE IInv'
    BY <2>1, RegisterType, RegisterPreserves DEF IInv
  <2>2. CASE \/ CheckCapacity(r) \/ Count(r) \/ Spawned(r) \/ SpawnFailed(r)
             \/ Drop(r)
    BY <2>2, LaunchPreserves
  <2>3. CASE TurnComplete(r)
    BY <2>3, TurnCompletePreserves
  <2>4. CASE NextTurn(r)
    BY <2>4, NextTurnPreserves
  <2>5. CASE StreamEnds(r)
    BY <2>5, StreamEndsPreserves
  <2>6. CASE Kill(r)
    BY <2>6, KillPreserves
  <2>7. CASE Unregister(r)
    BY <2>7, UnregisterPreserves
  <2>8. CASE Clear(r)
    BY <2>8, ClearPreserves
  <2>9. CASE Reincrement(r)
    BY <2>9, ReincrementPreserves
  <2>10. CASE HandleResult(r)
    BY <2>10, HandleResultPreserves
  <2> QED
    BY <1>2, <2>1, <2>2, <2>3, <2>4, <2>5, <2>6, <2>7, <2>8, <2>9, <2>10
       DEF RunStep, Progress
<1>3. ASSUME NEW c \in Ctx, CtxStep(c) PROVE IInv'
  BY <1>3, WritePreserves, DeleteStalePreserves, OtherStepsPreserve DEF CtxStep
<1>4. CASE RecountList \/ RecountSet
  BY <1>4, OtherStepsPreserve
<1> QED
  BY <1>1, <1>2, <1>3, <1>4 DEF Next

\* The inductive invariant: types, and who owns the registry.
THEOREM IInvInductive == Spec => []IInv
<1> QED
  BY InitIInv, NextPreserves, PTL DEF Spec

\* The variables of the slots have their types, for any contexts and runs.
THEOREM TypeCorrect == Spec => []TypeOK
<1>1. IInv => TypeOK
  BY DEF IInv
<1> QED
  BY <1>1, IInvInductive, PTL

\* A live run owns the registry entry of its context, unless a run of that
\* context lost its entry without being killed: a finishing agent cannot delete
\* a newer agent's slot.
THEOREM OwnershipOfEntries == Spec => []LiveRunOwnsEntry
<1>1. IInv => LiveRunOwnsEntry
  BY DEF IInv, Owned
<1> QED
  BY <1>1, IInvInductive, PTL

\* No registry entry outlives its run, whatever was deleted or taken over.
THEOREM NoEntryLeftBehind == Spec => []EntryHasItsRun
<1>1. IInv => EntryHasItsRun
  BY DEF IInv, Owned
<1> QED
  BY <1>1, IInvInductive, PTL

\* Two agents are at work in one context only after one lost its entry.
THEOREM OneAgentUnlessEntryLost ==
  Spec => [](\A r, s \in Run :
               Working(r) /\ Working(s) /\ run[r].ctx = run[s].ctx
                 => r = s \/ EntryLost(run[r].ctx))
<1>1. IInv => \A r, s \in Run :
               Working(r) /\ Working(s) /\ run[r].ctx = run[s].ctx
                 => r = s \/ EntryLost(run[r].ctx)
  <2>1. SUFFICES ASSUME IInv, NEW r \in Run, NEW s \in Run,
                        Working(r), Working(s), run[r].ctx = run[s].ctx,
                        ~EntryLost(run[r].ctx)
                 PROVE  r = s
    OBVIOUS
  <2>2. Live(r) /\ Live(s)
    BY <2>1 DEF Live, Working
  <2>3. registry[run[r].ctx] = r /\ registry[run[s].ctx] = s
    BY <2>1, <2>2 DEF IInv, Owned, LiveRunOwnsEntry
  <2> QED
    BY <2>1, <2>3
<1> QED
  BY <1>1, IInvInductive, PTL
=============================================================================
