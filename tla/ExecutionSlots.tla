--------------------------- MODULE ExecutionSlots ---------------------------
(***************************************************************************)
(* Execution slots: the counter running_count, the registry of running     *)
(* agents, the interactive processes that free their slot between turns,   *)
(* and the recount that puts the counter right.                            *)
(*                                                                         *)
(* An agent run is one incarnation of an agent process.  It works in a     *)
(* chat context: the execution or the review of a task, or an ideation     *)
(* session.  At most one run may be registered for a context; its message  *)
(* loop, its teardown and the handling of its result are steps of its own, *)
(* interleaved with messages sent to it, with the task leaving its status, *)
(* and with later runs of the same context.                                *)
(***************************************************************************)
EXTENDS Integers, FiniteSets

CONSTANTS
  Execution, Review, Ideation,  \* contexts of each type
  Run,                          \* agent runs
  NoRun,
  GlobalMax,                    \* global_max_concurrent
  MaxEntries, MaxMessages       \* bounds: status entries, messages to a live
                                \* interactive process

Ctx == Execution \cup Review \cup Ideation
TaskCtx == Execution \cup Review

ASSUME RunAssumption == IsFiniteSet(Run) /\ NoRun \notin Run
ASSUME CtxAssumption == IsFiniteSet(Ctx)
ASSUME MaxAssumption == GlobalMax \in 1 .. 50

VARIABLES
  running,   \* running_count
  registry,  \* Ctx -> the registered run
  ipr,       \* Ctx -> the run whose stdin is open (interactive processes)
  idle,      \* interactive_idle_slots
  run,       \* Run -> its progress
  on,        \* contexts whose task is in the status the agent works for,
             \* and the open ideation sessions
  attempt,   \* Ctx -> how often the status was entered
  claims,    \* Ctx -> senders that wrote to stdin and have yet to claim
  messages,  \* messages written to live processes so far
  cleaning,  \* contexts of which a sender is about to delete a stale entry
  recount    \* the registered contexts the recount has listed

vars == <<running, registry, ipr, idle, run, on, attempt, claims, messages,
          cleaning, recount>>

NoRecount == [listed |-> FALSE, ctxs |-> {}]

Points == {"unused", "registered", "checked", "counted", "turn", "between",
           "unregister", "clear", "reincrement", "handle", "done"}

(***************************************************************************)
(* A run: where it is; its context and the attempt it serves; the messages *)
(* waiting on its stdin; whether its stream ended with the slot held       *)
(* (execution_slot_held), whether it completed a turn, was killed, and      *)
(* whether it lost its registry entry without being killed (a history).    *)
(***************************************************************************)
Runs == [pc : Points, ctx : Ctx \cup {NoRun}, attempt : Nat, stdin : Nat,
         held : BOOLEAN, turned : BOOLEAN, killed : BOOLEAN,
         dropped : BOOLEAN]

Unused == [pc |-> "unused", ctx |-> NoRun, attempt |-> 0, stdin |-> 0,
           held |-> FALSE, turned |-> FALSE, killed |-> FALSE,
           dropped |-> FALSE]

Init ==
  /\ running = 0
  /\ registry = [c \in Ctx |-> NoRun]
  /\ ipr = [c \in Ctx |-> NoRun]
  /\ idle = {}
  /\ run = [r \in Run |-> Unused]
  /\ on = Ideation
  /\ attempt = [c \in Ctx |-> 0]
  /\ claims = [c \in Ctx |-> 0]
  /\ messages = 0
  /\ cleaning = {}
  /\ recount = NoRecount

At(r, p) == run[r].pc = p
Launching(r) == run[r].pc \in {"registered", "checked", "counted"}
Live(r) == Launching(r) \/ run[r].pc \in {"turn", "between"}
Becomes(r, e) == run' = [run EXCEPT ![r] = e]
\* A run that is over: all that is kept of it is its context, and whether it
\* lost its entry.
Over(r) == Becomes(r, [Unused EXCEPT !.pc = "done", !.ctx = run[r].ctx,
                                     !.dropped = run[r].dropped])
Goto(r, p) == Becomes(r, [run[r] EXCEPT !.pc = p])

\* Mutant of Minus1: the subtraction does not saturate.
Minus1Raw(n) == n - 1

\* decrement_running: a saturating subtraction.
Minus1(n) == IF n = 0 THEN 0 ELSE n - 1

-----------------------------------------------------------------------------
(***************************************************************************)
(* The task's status                                                       *)
(***************************************************************************)

\* The task enters the status an agent works for.
Enter(c) ==
  /\ c \in TaskCtx \ on
  /\ attempt[c] < MaxEntries
  /\ on' = on \cup {c}
  /\ attempt' = [attempt EXCEPT ![c] = @ + 1]
  /\ UNCHANGED <<running, registry, ipr, idle, run, claims, messages, cleaning,
                 recount>>

\* A transition takes the task out of it: the agent reports completion in the
\* middle of its turn, or a user or recovery moves the task.
Depart(c) ==
  /\ c \in TaskCtx \cap on
  /\ on' = on \ {c}
  /\ running' = Minus1(running)
  /\ UNCHANGED <<registry, ipr, idle, run, attempt, claims, messages, cleaning,
                 recount>>

-----------------------------------------------------------------------------
(***************************************************************************)
(* send_message to a context without a live process                        *)
(***************************************************************************)

\* Gate 1 found no stdin to write to, gate 2 no registered run.
MayRegister(c) == ipr[c] = NoRun /\ registry[c] = NoRun

Register(r, c) ==
  /\ At(r, "unused") /\ c \in on
  /\ MayRegister(c)
  /\ registry' = [registry EXCEPT ![c] = r]
  /\ Becomes(r, [Unused EXCEPT !.pc = "registered", !.ctx = c,
                               !.attempt = attempt[c]])
  /\ UNCHANGED <<running, ipr, idle, on, attempt, claims, messages, cleaning,
                 recount>>

\* Mutant of Released: whatever run is registered is removed.
ReleasedAny(r) == [registry EXCEPT ![run[r].ctx] = NoRun]

\* unregister: only the run that owns the entry removes it.
Released(r) ==
  [c \in Ctx |-> IF c = run[r].ctx /\ registry[c] = r THEN NoRun
                                                      ELSE registry[c]]

\* A launch that fails moves an executing task to Failed without exit
\* actions; a reviewing task stays where it is.
LaunchFailed(r) == on' = on \ ({run[r].ctx} \cap Execution)

\* cleanup_stale_entry: a sender without a stdin to write to finds the process
\* of the registered run dead ...
FindStale(c) ==
  /\ c \notin cleaning
  /\ registry[c] # NoRun /\ At(registry[c], "unregister")
  /\ cleaning' = cleaning \cup {c}
  /\ ipr' = [ipr EXCEPT ![c] = NoRun]
  /\ UNCHANGED <<running, registry, idle, run, on, attempt, claims, messages,
                 recount>>

\* ... and deletes the entry of the context, without looking at it again.
DeleteStale(c) ==
  LET r == registry[c] IN
  /\ c \in cleaning
  /\ cleaning' = cleaning \ {c}
  /\ registry' = [registry EXCEPT ![c] = NoRun]
  /\ IF r # NoRun /\ Live(r) THEN Becomes(r, [run[r] EXCEPT !.dropped = TRUE])
                             ELSE UNCHANGED run
  /\ UNCHANGED <<running, ipr, idle, on, attempt, claims, messages, recount>>

\* Paused, blocked by the provider, at the cap of the project or of the whole
\* application, or an error on the way: the launch is given up.
CheckCapacity(r) ==
  /\ At(r, "registered")
  /\ \/ running < GlobalMax /\ Goto(r, "checked") /\ UNCHANGED <<registry, on>>
     \/ Over(r) /\ registry' = Released(r) /\ LaunchFailed(r)
  /\ UNCHANGED <<running, ipr, idle, attempt, claims, messages, cleaning,
                 recount>>

Count(r) ==
  /\ At(r, "checked")
  /\ running' = running + 1
  /\ Goto(r, "counted")
  /\ UNCHANGED <<registry, ipr, idle, on, attempt, claims, messages, cleaning,
                 recount>>

\* update_agent_process: the entry of the context becomes this run's, also if
\* it was deleted in the meantime or belongs to another run by now.
Spawned(r) ==
  /\ At(r, "counted")
  /\ ipr' = [ipr EXCEPT ![run[r].ctx] = r]
  /\ registry' = [registry EXCEPT ![run[r].ctx] = r]
  /\ Goto(r, "turn")
  /\ UNCHANGED <<running, idle, on, attempt, claims, messages, cleaning,
                 recount>>

\* Mutant of SpawnFailed: an early return without the cleanup.
SpawnFailedLeaks(r) ==
  /\ At(r, "counted")
  /\ LaunchFailed(r)
  /\ Over(r)
  /\ UNCHANGED <<running, registry, ipr, idle, attempt, claims, messages,
                 cleaning, recount>>

SpawnFailed(r) ==
  /\ At(r, "counted")
  /\ running' = Minus1(running)
  /\ registry' = Released(r)
  /\ LaunchFailed(r)
  /\ Over(r)
  /\ UNCHANGED <<ipr, idle, attempt, claims, messages, cleaning, recount>>

-----------------------------------------------------------------------------
(***************************************************************************)
(* send_message to a live interactive process, and its turns               *)
(***************************************************************************)

\* Gate 1: the message goes to the process's stdin at once.
Write(c) ==
  LET r == ipr[c] IN
  /\ r # NoRun /\ messages < MaxMessages
  /\ run[r].pc \in {"turn", "between"}
  /\ Becomes(r, [run[r] EXCEPT !.stdin = @ + 1])
  /\ claims' = [claims EXCEPT ![c] = @ + 1]
  /\ messages' = messages + 1
  /\ UNCHANGED <<running, registry, ipr, idle, on, attempt, cleaning, recount>>

\* A tool that reports completion, or a send that asks for a fresh session,
\* closes the stdin of the process.
CloseStdin(c) ==
  /\ ipr[c] # NoRun
  /\ ipr' = [ipr EXCEPT ![c] = NoRun]
  /\ UNCHANGED <<running, registry, idle, run, on, attempt, claims, messages,
                 cleaning, recount>>

\* Then the sender takes the slot back, if the process had freed it.
Claim(c) ==
  /\ claims[c] > 0
  /\ claims' = [claims EXCEPT ![c] = @ - 1]
  /\ idle' = idle \ {c}
  /\ running' = IF c \in idle THEN running + 1 ELSE running
  /\ UNCHANGED <<registry, ipr, run, on, attempt, messages, cleaning, recount>>

\* The window between the end of a run's stream and the end of its teardown is
\* a few queries and map removals.  A later run of the context needs a process
\* and a model's answer to complete a turn: it does not do so in that window.
TeardownPending(c) ==
  \E r \in Run : run[r].pc \in {"unregister", "clear"} /\ run[r].ctx = c

\* A sender claims the slot at once after it wrote to stdin: a message that
\* the process has taken is claimed before the model has answered it.
TakenClaimed(r) == claims[run[r].ctx] <= run[r].stdin

\* decrement_and_mark_idle: the slot is free until the next message.
TurnComplete(r) ==
  LET c == run[r].ctx IN
  /\ At(r, "turn") /\ ~TeardownPending(c) /\ TakenClaimed(r)
  /\ running' = Minus1(running)
  /\ idle' = idle \cup {c}
  /\ Becomes(r, [run[r] EXCEPT !.pc = "between", !.turned = TRUE])
  /\ UNCHANGED <<registry, ipr, on, attempt, claims, messages, cleaning,
                 recount>>

\* The process takes the next message from its stdin.
NextTurn(r) ==
  /\ At(r, "between") /\ run[r].stdin > 0
  /\ Becomes(r, [run[r] EXCEPT !.pc = "turn", !.stdin = @ - 1])
  /\ UNCHANGED <<running, registry, ipr, idle, on, attempt, claims, messages,
                 cleaning, recount>>

-----------------------------------------------------------------------------
(***************************************************************************)
(* The end of a run                                                        *)
(***************************************************************************)

\* The process exits, in a turn or between two.
StreamEnds(r) ==
  /\ run[r].pc \in {"turn", "between"}
  /\ Becomes(r, [run[r] EXCEPT !.pc = "unregister", !.held = At(r, "turn")])
  /\ UNCHANGED <<running, registry, ipr, idle, on, attempt, claims, messages,
                 cleaning, recount>>

\* Stop and pause take the registered run out of the registry, close its stdin
\* and kill its process.
Kill(r) ==
  /\ run[r].pc \in {"turn", "between"} /\ registry[run[r].ctx] = r
  /\ registry' = Released(r)
  /\ ipr' = [ipr EXCEPT ![run[r].ctx] = NoRun]
  /\ Becomes(r, [run[r] EXCEPT !.pc = "unregister", !.held = At(r, "turn"),
                               !.killed = TRUE])
  /\ UNCHANGED <<running, idle, on, attempt, claims, messages, cleaning,
                 recount>>

\* A run that is still being launched has an entry but no process to kill: its
\* launch goes on.
Drop(r) ==
  /\ Launching(r) /\ registry[run[r].ctx] = r
  /\ registry' = Released(r)
  /\ ipr' = [ipr EXCEPT ![run[r].ctx] = NoRun]
  /\ Becomes(r, [run[r] EXCEPT !.dropped = TRUE])
  /\ UNCHANGED <<running, idle, on, attempt, claims, messages, cleaning,
                 recount>>

Unregister(r) ==
  /\ At(r, "unregister")
  /\ registry' = Released(r)
  /\ Goto(r, "clear")
  /\ UNCHANGED <<running, ipr, idle, on, attempt, claims, messages, cleaning,
                 recount>>

\* The stdin and the idle mark of the context are removed, whoever's they are.
\* A run killed in its first turn has no result to handle.
Clear(r) ==
  LET c == run[r].ctx IN
  /\ At(r, "clear")
  /\ ipr' = [ipr EXCEPT ![c] = NoRun]
  /\ idle' = idle \ {c}
  /\ IF run[r].killed /\ ~run[r].turned THEN Over(r)
                                         ELSE Goto(r, "reincrement")
  /\ UNCHANGED <<running, registry, on, attempt, claims, messages, cleaning,
                 recount>>

\* A process that ended between turns takes its slot again, so that the exit
\* actions of the transition that follows can give it back: always after a
\* kill, and otherwise unless a reviewed task has already left Reviewing or
\* an ideation process ended silently.
TakesAgain(r, silent) ==
  LET c == run[r].ctx IN
  \/ run[r].killed
  \/ /\ ~run[r].held
     /\ c \in Review => c \in on
     /\ ~(c \in Ideation /\ silent)

Reincrement(r) ==
  /\ At(r, "reincrement")
  /\ \E silent \in BOOLEAN :
       /\ running' = IF TakesAgain(r, silent) THEN running + 1 ELSE running
       /\ Becomes(r, [run[r] EXCEPT !.pc = "handle",
                                    !.held = @ /\ ~run[r].killed])
  /\ UNCHANGED <<registry, ipr, idle, on, attempt, claims, messages, cleaning,
                 recount>>

\* Only the execution of the current attempt completes the task; any review
\* that ends without a verdict escalates it.
Completes(r) ==
  LET c == run[r].ctx IN
  /\ c \in on
  /\ \/ c \in Execution /\ run[r].attempt = attempt[c]
     \/ c \in Review

\* A review whose task has already moved on gives back the slot it is
\* supposed to have taken again.
NegatesAgain(r) ==
  run[r].ctx \in Review \ on /\ ~run[r].held

HandleResult(r) ==
  /\ At(r, "handle")
  /\ on' = IF Completes(r) THEN on \ {run[r].ctx} ELSE on
  /\ running' = IF Completes(r) \/ NegatesAgain(r) THEN Minus1(running)
                                                   ELSE running
  /\ Over(r)
  /\ UNCHANGED <<registry, ipr, idle, attempt, claims, messages, cleaning,
                 recount>>

-----------------------------------------------------------------------------
(***************************************************************************)
(* The reconciler's recount: list the registry, then set the counter       *)
(***************************************************************************)

RecountList ==
  /\ ~recount.listed
  /\ recount' = [listed |-> TRUE, ctxs |-> {c \in Ctx : registry[c] # NoRun}]
  /\ UNCHANGED <<running, registry, ipr, idle, run, on, attempt, claims,
                 messages, cleaning>>

\* Mutant of Recounted: idle processes are counted as running.
RecountedAll == Cardinality(recount.ctxs)

\* Idle processes are registered but hold no slot.
Recounted == Cardinality(recount.ctxs \ idle)

RecountSet ==
  /\ recount.listed
  /\ running' = Recounted
  /\ recount' = NoRecount
  /\ UNCHANGED <<registry, ipr, idle, run, on, attempt, claims, messages,
                 cleaning>>

-----------------------------------------------------------------------------
\* The stdin of a process is dropped with its entry.
StdinClosed(r) == ipr[run[r].ctx] # r

\* What a run does by itself once registered.  A turn ends, one way or the
\* other; a process between turns may stay there until its stdin is closed.
Progress(r) ==
  \/ CheckCapacity(r) \/ Count(r) \/ Spawned(r) \/ SpawnFailed(r)
  \/ TurnComplete(r) \/ NextTurn(r)
  \/ At(r, "turn") /\ StreamEnds(r)
  \/ At(r, "between") /\ StdinClosed(r) /\ StreamEnds(r)
  \/ Unregister(r) \/ Clear(r) \/ Reincrement(r) \/ HandleResult(r)

RunStep(r) ==
  \/ \E c \in Ctx : Register(r, c)
  \/ Progress(r)
  \/ At(r, "between") /\ StreamEnds(r)
  \/ Kill(r) \/ Drop(r)

CtxStep(c) ==
  \/ Enter(c) \/ Depart(c)
  \/ FindStale(c) \/ DeleteStale(c)
  \/ Write(c) \/ Claim(c) \/ CloseStdin(c)

Next ==
  \/ \E r \in Run : RunStep(r)
  \/ \E c \in Ctx : CtxStep(c)
  \/ RecountList \/ RecountSet

Spec == Init /\ [][Next]_vars

\* Registered runs and senders are tasks of the runtime; the reconciler's loop
\* runs for the life of the application.
FairSpec ==
  /\ Spec
  /\ \A r \in Run : WF_vars(Progress(r))
  /\ \A c \in Ctx : WF_vars(Claim(c)) /\ WF_vars(DeleteStale(c))
  /\ WF_vars(RecountList) /\ WF_vars(RecountSet)

-----------------------------------------------------------------------------
(***************************************************************************)
(* Properties                                                              *)
(***************************************************************************)

\* The variables have their types.
TypeOK ==
  /\ running \in Nat
  /\ registry \in [Ctx -> Run \cup {NoRun}]
  /\ ipr \in [Ctx -> Run \cup {NoRun}]
  /\ idle \subseteq Ctx
  /\ run \in [Run -> Runs]
  /\ on \subseteq Ctx
  /\ attempt \in [Ctx -> Nat]
  /\ claims \in [Ctx -> Nat]
  /\ messages \in Nat
  /\ cleaning \subseteq Ctx
  /\ recount \in [listed : BOOLEAN, ctxs : SUBSET Ctx]

\* A run of the context lost its entry without being killed: a pause or stop
\* came while it was being launched, or a sender deleted the entry as stale.
EntryLost(c) == \E r \in Run : run[r].ctx = c /\ run[r].dropped

\* A run that has not ended owns the registry entry of its context, whatever
\* older runs of that context still have to tear down: a finishing agent
\* cannot delete a newer agent's slot.  So two agents never work in one
\* context, although a message that finds no live process may launch one at
\* any moment.
LiveRunOwnsEntry ==
  \A r \in Run :
    Live(r) /\ ~EntryLost(run[r].ctx) => registry[run[r].ctx] = r

\* Even then, an entry is never left behind: its run has not been torn down.
EntryHasItsRun ==
  \A c \in Ctx, r \in Run :
    registry[c] = r => /\ run[r].ctx = c
                       /\ Live(r) \/ At(r, "unregister")

Working(r) == run[r].pc \in {"turn", "between"}

\* What the comment at the registration says: it is an atomic guard, so at most
\* one agent is at work in a context.
OneAgentPerContext ==
  \A r, s \in Run :
    Working(r) /\ Working(s) /\ run[r].ctx = run[s].ctx => r = s

Occupied == {c \in Ctx : \E r \in Run : At(r, "turn") /\ run[r].ctx = c}

\* However the counter was driven off, by turns that overlap messages, by
\* runs that ended after their task moved on, or by a recount that was
\* overtaken, once messages and launches cease it comes to agree with the
\* agents at work, and stays so, also after two agents shared a context.
CountHeals == <>[](running = Cardinality(Occupied))

\* What the comment at execution_slot_held says: the slot is held unless the
\* process is idle between turns.
SlotHeldUnlessBetweenTurns ==
  \A r \in Run :
    At(r, "turn") /\ claims[run[r].ctx] = 0 => run[r].ctx \notin idle
=============================================================================
