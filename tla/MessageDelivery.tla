--------------------------- MODULE MessageDelivery ---------------------------
(***************************************************************************)
(* What becomes of the messages sent to the agent of one context: written  *)
(* to the stdin of a running process, given to a process of their own, or  *)
(* queued in memory for the end of the run that is in the way.             *)
(*                                                                         *)
(* Senders and the ends of runs act on the same queue, registry entry and  *)
(* stdin handle, one await at a time.                                      *)
(***************************************************************************)
EXTENDS Naturals, Sequences, SequencesExt, FiniteSets

CONSTANTS
  Message,
  Run,
  MaxPauses   \* bound: how often the execution is paused

ASSUME MessageAssumption == IsFiniteSet(Message) /\ IsFiniteSet(Run)
ASSUME BoundAssumption == MaxPauses \in Nat

None == "none"
ASSUME NoneAssumption == None \notin Message /\ None \notin Run

(***************************************************************************)
(* Contexts differ in three ways: a pause of the execution holds back the  *)
(* work of those that use an execution slot; the queue of a task execution *)
(* is emptied once the task has left Executing; and a message refused by   *)
(* the provider is queued again for chats only.                            *)
(***************************************************************************)
Kind == {"TaskExecution", "Ideation", "Project"}
UsesSlot == {"TaskExecution", "Ideation"}
GuardsTask == {"TaskExecution"}
RequeuesAlways == Kind   \* mutant: task executions too
Requeues == {"Ideation", "Project"}

VARIABLES
  kind,      \* the kind of the context
  paused,    \* ExecutionState: paused
  pauses,    \* pauses so far
  active,    \* the task is in Executing or ReExecuting
  sender,    \* Message -> where its send_message or queue_message is
  queue,     \* MessageQueue: the context's queue
  marked,    \* queued messages to resume in place
  old,       \* messages queued for longer than the staleness threshold
  resumed,   \* messages that resume took from the queue and sends again
  owner,     \* the run the registry entry belongs to
  pipe,      \* the run whose stdin is kept for the context
  run,       \* Run -> [pc, end, cancelled, served]
  first,     \* Run -> the message it was launched for
  inbox,     \* Run -> its turn's message, and those written behind it
  hand,      \* Run -> the message it has taken from the queue
  answered,  \* history: messages that were answered
  gone       \* history: messages refused, dropped or lost

execution == <<kind, paused, pauses, active>>
waiting == <<queue, marked, old>>
process == <<owner, pipe>>
runs == <<run, first, inbox, hand>>
fates == <<answered, gone>>
vars == <<execution, sender, waiting, resumed, process, runs, fates>>

SenderPoints == {"unsent", "gate", "gateq", "claim", "append", "done"}
RunPoints == {"free", "launch", "live", "ended", "unregistered", "cleared",
              "look", "wait", "pop", "hold", "serve", "over"}
Ends == {None, "ok", "error", "drained"}

Init ==
  /\ kind \in Kind
  /\ paused = FALSE /\ pauses = 0 /\ active = TRUE
  /\ sender = [m \in Message |-> "unsent"]
  /\ queue = <<>> /\ marked = {} /\ old = {} /\ resumed = {}
  /\ owner = None /\ pipe = None
  /\ run = [r \in Run |-> [pc |-> "free", end |-> None, cancelled |-> FALSE,
                           served |-> FALSE]]
  /\ first = [r \in Run |-> None]
  /\ inbox = [r \in Run |-> <<>>]
  /\ hand = [r \in Run |-> None]
  /\ answered = {} /\ gone = {}

Holds == paused /\ kind \in UsesSlot
Queued == ToSet(queue)
Alive(r) == run[r].pc = "live"
RunAt(r, p) == run[r].pc = p
RunGoes(r, p) == run' = [run EXCEPT ![r].pc = p]

SenderGoes(m, p) == sender' = [sender EXCEPT ![m] = p]

-----------------------------------------------------------------------------
(***************************************************************************)
(* MessageQueue                                                            *)
(***************************************************************************)

PushBack(m) ==
  queue' = Append(queue, m) /\ old' = old \ {m} /\ UNCHANGED marked

PushFront(m, inPlace) ==
  /\ queue' = <<m>> \o queue
  /\ marked' = IF inPlace THEN marked \cup {m} ELSE marked
  /\ UNCHANGED old

TakeHead ==
  /\ queue' = Tail(queue)
  /\ UNCHANGED <<marked, old>>

\* Time passes: everything in the queue is older than the threshold.
Age ==
  /\ Queued \ old # {}
  /\ old' = old \cup Queued
  /\ UNCHANGED <<execution, sender, queue, marked, resumed, process, runs,
                 fates>>

-----------------------------------------------------------------------------
(***************************************************************************)
(* Senders: send_message and queue_message                                 *)
(***************************************************************************)

\* While the execution is paused the message is queued, nothing is launched.
Send(m) ==
  /\ sender[m] = "unsent"
  /\ IF Holds
       THEN PushBack(m) /\ SenderGoes(m, "done")
       ELSE SenderGoes(m, "gate") /\ UNCHANGED waiting
  /\ UNCHANGED <<execution, resumed, process, runs, fates>>

\* queue_message: never launches, and does not look at the pause.
SendToQueue(m) ==
  /\ sender[m] = "unsent"
  /\ SenderGoes(m, "gateq")
  /\ UNCHANGED <<execution, waiting, resumed, process, runs, fates>>

\* Mutant: the message counts as delivered though the process is gone.
WriteStdinUnchecked(m) ==
  /\ sender[m] \in {"gate", "gateq"}
  /\ IF pipe # None
       THEN /\ inbox' = IF Alive(pipe)
                        THEN [inbox EXCEPT ![pipe] = Append(@, m)] ELSE inbox
            /\ SenderGoes(m, "done")
       ELSE /\ SenderGoes(m, IF sender[m] = "gate" THEN "claim" ELSE "append")
            /\ UNCHANGED inbox
  /\ UNCHANGED <<execution, waiting, resumed, process, run, first, hand, fates>>

\* Gate 1: write to the stdin that is kept for the context.  A write to a
\* process that is gone fails and removes it.
WriteStdin(m) ==
  /\ sender[m] \in {"gate", "gateq"}
  /\ IF pipe # None /\ Alive(pipe)
       THEN /\ inbox' = [inbox EXCEPT ![pipe] = Append(@, m)]
            /\ SenderGoes(m, "done")
            /\ UNCHANGED pipe
       ELSE /\ pipe' = None
            /\ SenderGoes(m, IF sender[m] = "gate" THEN "claim" ELSE "append")
            /\ UNCHANGED inbox
  /\ UNCHANGED <<execution, waiting, resumed, owner, run, first, hand, fates>>

Claimable == {None} \cup {r \in Run : run[r].pc \notin {"launch", "live"}}

\* Gate 2: one registry entry per context.  The entry of a process that is
\* gone may be cleaned up on the way.
Claim(m) ==
  /\ sender[m] = "claim"
  /\ \/ /\ owner \in Claimable
        /\ \E r \in Run :
             /\ RunAt(r, "free")
             /\ owner' = r
             /\ first' = [first EXCEPT ![r] = m]
             /\ RunGoes(r, "launch")
        /\ SenderGoes(m, "done")
     \/ /\ owner # None
        /\ SenderGoes(m, "append")
        /\ UNCHANGED <<owner, first, run>>
  /\ UNCHANGED <<execution, waiting, resumed, pipe, inbox, hand, fates>>

\* The message is queued, whatever has become of the entry in the way.
Enqueue(m) ==
  /\ sender[m] = "append"
  /\ PushBack(m)
  /\ SenderGoes(m, "done")
  /\ UNCHANGED <<execution, resumed, process, runs, fates>>

-----------------------------------------------------------------------------
(***************************************************************************)
(* Runs                                                                    *)
(***************************************************************************)

Released(r) == IF owner = r THEN None ELSE owner

\* Interactive harnesses keep the stdin of the process.
Launch(r) ==
  /\ RunAt(r, "launch")
  /\ inbox' = [inbox EXCEPT ![r] = <<first[r]>>]
  /\ pipe' \in {pipe, r}
  /\ RunGoes(r, "live")
  /\ UNCHANGED <<execution, sender, waiting, resumed, owner, first, hand,
                 fates>>

\* The caller gets an error; resume puts the message back.
LaunchFails(r) ==
  LET m == first[r] IN
  /\ RunAt(r, "launch")
  /\ owner' = Released(r)
  /\ run' = [run EXCEPT ![r].pc = "over", ![r].end = "error"]
  /\ IF m \in resumed THEN PushFront(m, FALSE) /\ UNCHANGED gone
                      ELSE gone' = gone \cup {m} /\ UNCHANGED waiting
  /\ UNCHANGED <<execution, sender, resumed, pipe, first, inbox, hand,
                 answered>>

\* The agent answers, and turns to the next message in its stdin.
Answer(r) ==
  /\ RunAt(r, "live") /\ inbox[r] # <<>>
  /\ answered' = answered \cup {Head(inbox[r])}
  /\ inbox' = [inbox EXCEPT ![r] = Tail(@)]
  /\ UNCHANGED <<execution, sender, waiting, resumed, process, run, first, hand,
                 gone>>

\* The process ends; what it had not answered is lost with it.
Stops(r, end) ==
  /\ run' = [run EXCEPT ![r].pc = "ended", ![r].end = end]
  /\ inbox' = [inbox EXCEPT ![r] = <<>>]
  /\ gone' = gone \cup (ToSet(inbox[r]) \ (answered \cup Queued))
  /\ UNCHANGED <<first, hand, answered>>

Exit(r) ==
  /\ RunAt(r, "live")
  /\ \E end \in {"ok", "error"} : Stops(r, end)
  /\ UNCHANGED <<execution, sender, waiting, resumed, process>>

\* The provider refuses: everything is paused, and a chat's message, the one
\* the run was launched for, is queued once more.
ProviderRefuses(r) ==
  /\ RunAt(r, "live") /\ inbox[r] # <<>> /\ pauses < MaxPauses
  /\ Stops(r, "error")
  /\ paused' = TRUE /\ pauses' = pauses + 1
  /\ IF kind \in Requeues
       THEN /\ queue' = Append(queue, first[r])
            /\ marked' = marked \cup {first[r]}
            /\ old' = old \ {first[r]}
       ELSE UNCHANGED waiting
  /\ UNCHANGED <<kind, active, sender, resumed, process>>

\* The end of the stream gives back the entry, if it is still its own ...
Unregister(r) ==
  /\ RunAt(r, "ended")
  /\ owner' = Released(r)
  /\ RunGoes(r, "unregistered")
  /\ UNCHANGED <<execution, sender, waiting, resumed, pipe, first, inbox, hand,
                 fates>>

\* ... and the stdin, whoever's it is.
ClearPipe(r) ==
  /\ RunAt(r, "unregistered")
  /\ pipe' = None
  /\ RunGoes(r, "cleared")
  /\ UNCHANGED <<execution, sender, waiting, resumed, owner, first, inbox, hand,
                 fates>>

Over(r, end) == run' = [run EXCEPT ![r].pc = "over", ![r].end = end]

\* The messages of q that are not stale, in their order.
Fresh(q, stale) ==
  LET kept[i \in 0 .. Len(q)] ==
        IF i = 0 THEN <<>>
        ELSE IF q[i] \in stale THEN kept[i - 1]
        ELSE Append(kept[i - 1], q[i])
  IN  kept[Len(q)]

\* A run that ended well drops what has waited too long and drains the queue,
\* if the provider's session is known.
AfterSuccess(r) ==
  /\ RunAt(r, "cleared") /\ run[r].end = "ok"
  /\ queue' = Fresh(queue, old)
  /\ gone' = gone \cup (Queued \cap old)
  /\ RunGoes(r, "look") \/ Over(r, "error")
  /\ UNCHANGED <<execution, sender, marked, old, resumed, process, first, inbox,
                 hand, answered>>

\* One that failed drains it only to resume a message in place.
AfterError(r) ==
  /\ RunAt(r, "cleared") /\ run[r].end = "error"
  /\ IF Queued \cap marked # {} THEN RunGoes(r, "look") ELSE Over(r, "error")
  /\ UNCHANGED <<execution, sender, waiting, resumed, process, first, inbox,
                 hand,
                 fates>>

-----------------------------------------------------------------------------
(***************************************************************************)
(* process_queued_messages                                                 *)
(***************************************************************************)

\* Mutant: takes the first empty look for granted before it has looked.
LookHasty(r) ==
  /\ RunAt(r, "look")
  /\ CASE Holds \/ run[r].cancelled -> Over(r, "error")
       [] ~run[r].served             -> Over(r, "drained")
       [] OTHER -> RunGoes(r, IF queue # <<>> THEN "pop" ELSE "wait")
  /\ UNCHANGED <<execution, sender, waiting, resumed, process, first, inbox,
                 hand,
                 fates>>

Look(r) ==
  /\ RunAt(r, "look")
  /\ CASE Holds \/ run[r].cancelled              -> Over(r, "error")
       [] OTHER ->
            IF queue # <<>> THEN RunGoes(r, "pop")
            ELSE IF run[r].served THEN RunGoes(r, "wait")
            ELSE Over(r, "drained")
  /\ UNCHANGED <<execution, sender, waiting, resumed, process, first, inbox,
                 hand,
                 fates>>

\* 50 ms later.
LookAgain(r) ==
  /\ RunAt(r, "wait")
  /\ IF queue # <<>> THEN RunGoes(r, "pop") ELSE Over(r, "drained")
  /\ UNCHANGED <<execution, sender, waiting, resumed, process, first, inbox,
                 hand,
                 fates>>

Pop(r) ==
  /\ RunAt(r, "pop")
  /\ IF queue = <<>>
       THEN RunGoes(r, "look") /\ UNCHANGED <<waiting, hand>>
       ELSE /\ hand' = [hand EXCEPT ![r] = Head(queue)]
            /\ TakeHead
            /\ RunGoes(r, "hold")
  /\ UNCHANGED <<execution, sender, resumed, process, first, inbox, fates>>

DropsLate(r) == UNCHANGED hand   \* mutant
Drops(r) == hand' = [hand EXCEPT ![r] = None]

\* What was taken is put back if the execution has been paused, and dropped
\* with the rest of the queue if the task has left execution.  (The token is
\* checked here again, in vain: nobody can cancel a run that has given back its
\* entry, so Look has seen it.)
Hold(r) ==
  /\ RunAt(r, "hold")
  /\ \/ /\ Holds
        /\ PushFront(hand[r], FALSE) /\ Drops(r)
        /\ RunGoes(r, "look") /\ UNCHANGED gone
     \/ /\ ~Holds /\ kind \in GuardsTask /\ ~active
        /\ gone' = gone \cup {hand[r]} \cup Queued /\ Drops(r)
        /\ queue' = <<>> /\ UNCHANGED <<marked, old>>
        /\ RunGoes(r, "look")
     \/ /\ ~Holds /\ (kind \notin GuardsTask \/ active)
        /\ run' = [run EXCEPT ![r].pc = "serve", ![r].served = TRUE]
        /\ UNCHANGED <<waiting, hand, gone>>
  /\ UNCHANGED <<execution, sender, resumed, process, first, inbox, answered>>

\* A process of its own answers the message ...
Serve(r) ==
  /\ RunAt(r, "serve")
  /\ answered' = answered \cup {hand[r]}
  /\ Drops(r) /\ RunGoes(r, "pop")
  /\ UNCHANGED <<execution, sender, waiting, resumed, process, first, inbox,
                 gone>>

\* ... or it cannot be prepared, and the rest stays in the queue; or it cannot
\* be started, or fails.
ServeFails(r) ==
  /\ RunAt(r, "serve")
  /\ gone' = gone \cup {hand[r]}
  /\ Drops(r)
  /\ RunGoes(r, "pop") \/ Over(r, "error")
  /\ UNCHANGED <<execution, sender, waiting, resumed, process, first, inbox,
                 answered>>

\* The provider refuses: the message goes back, and everything is paused.
ServeRefused(r) ==
  /\ RunAt(r, "serve") /\ pauses < MaxPauses
  /\ PushFront(hand[r], TRUE)
  /\ paused' = TRUE /\ pauses' = pauses + 1
  /\ Drops(r) /\ RunGoes(r, "pop")
  /\ UNCHANGED <<kind, active, sender, resumed, process, first, inbox, fates>>

-----------------------------------------------------------------------------
(***************************************************************************)
(* Pause, resume, stop                                                     *)
(***************************************************************************)

\* The registered run is cancelled and its process killed: an error, or a silent
\* end if it was idle between two turns.
Killed ==
  IF owner # None /\ run[owner].pc \in {"live", "ended"}
    THEN /\ \E end \in {"ok", "error"} :
              /\ end = "ok" => first[owner] \in answered
              /\ run' = [run EXCEPT ![owner].cancelled = TRUE,
                                    ![owner].pc = "ended",
                                    ![owner].end = IF @ = None THEN end ELSE @]
         /\ inbox' = [inbox EXCEPT ![owner] = <<>>]
         /\ gone' = gone \cup (ToSet(inbox[owner]) \ (answered \cup Queued))
    ELSE UNCHANGED <<run, inbox, gone>>

\* pause_execution, and stop_execution up to the kill of all agents.
Pause ==
  /\ ~paused /\ pauses < MaxPauses
  /\ paused' = TRUE /\ pauses' = pauses + 1
  /\ Killed
  /\ owner' = None /\ pipe' = None
  /\ UNCHANGED <<kind, active, sender, waiting, resumed, first, hand, answered>>

\* stop_execution goes on to clear the queue.
StopClears ==
  /\ paused /\ queue # <<>>
  /\ queue' = <<>> /\ gone' = gone \cup Queued
  /\ UNCHANGED <<execution, sender, marked, old, resumed, process, runs,
                 answered>>

\* The first queued message of a context is sent again, through the gates; the
\* others wait for the end of its run.
Resume ==
  /\ paused
  /\ paused' = FALSE
  /\ IF queue # <<>> /\ (kind \notin GuardsTask \/ active)
       THEN /\ SenderGoes(Head(queue), "gate")
            /\ resumed' = resumed \cup {Head(queue)}
            /\ TakeHead
       ELSE UNCHANGED <<sender, resumed, waiting>>
  /\ UNCHANGED <<kind, pauses, active, process, runs, fates>>

\* The task leaves Executing.
Leave ==
  /\ kind \in GuardsTask /\ active
  /\ active' = FALSE
  /\ UNCHANGED <<kind, paused, pauses, sender, waiting, resumed, process, runs,
                 fates>>

-----------------------------------------------------------------------------
Sends(m) == WriteStdin(m) \/ Claim(m) \/ Enqueue(m)

Ending(r) ==
  \/ Unregister(r) \/ ClearPipe(r) \/ AfterSuccess(r) \/ AfterError(r)
  \/ Look(r) \/ LookAgain(r) \/ Pop(r) \/ Hold(r)
  \/ Serve(r) \/ ServeFails(r) \/ ServeRefused(r)

Next ==
  \/ \E m \in Message : Send(m) \/ SendToQueue(m) \/ Sends(m)
  \/ \E r \in Run :
       \/ Launch(r) \/ LaunchFails(r)
       \/ Answer(r) \/ Exit(r) \/ ProviderRefuses(r)
       \/ Ending(r)
  \/ Age \/ Pause \/ StopClears \/ Resume \/ Leave

Spec == Init /\ [][Next]_vars

\* Senders and the ends of runs are tasks of the runtime, and processes end.
Advances(r) == Launch(r) \/ LaunchFails(r) \/ Exit(r) \/ Ending(r)

FairSpec ==
  /\ Spec
  /\ \A m \in Message : WF_vars(Sends(m))
  /\ \A r \in Run : WF_vars(Advances(r))

-----------------------------------------------------------------------------
(***************************************************************************)
(* Properties                                                              *)
(***************************************************************************)

\* Every variable has its type, and a run holds a message of the queue while it
\* is about to serve it.
TypeOK ==
  /\ kind \in Kind /\ paused \in BOOLEAN /\ active \in BOOLEAN
  /\ pauses \in 0 .. MaxPauses
  /\ sender \in [Message -> SenderPoints]
  /\ queue \in Seq(Message)
  /\ marked \subseteq Message /\ old \subseteq Message
  /\ resumed \subseteq Message
  /\ owner \in Run \cup {None} /\ pipe \in Run \cup {None}
  /\ run \in [Run -> [pc : RunPoints, end : Ends, cancelled : BOOLEAN,
                      served : BOOLEAN]]
  /\ first \in [Run -> Message \cup {None}]
  /\ inbox \in [Run -> Seq(Message)]
  /\ hand \in [Run -> Message \cup {None}]
  /\ \A r \in Run : hand[r] # None <=> run[r].pc \in {"hold", "serve"}
  /\ answered \subseteq Message /\ gone \subseteq Message

\* Where a message is on its way: queued, in the hands of a run that drains the
\* queue, given to a run that starts or written to one that works.
With(r) == ToSet(inbox[r]) \cup {hand[r]}
             \cup (IF RunAt(r, "launch") THEN {first[r]} ELSE {})

\* However senders, pauses and the drains of several runs interleave, a message
\* whose sender has returned is answered, known to be lost, or on its way, and
\* it is on its way in one place: two runs never hold the same message and none
\* holds one that is still queued (MessageQueue::pop, queue_front_existing).
InOnePlace ==
  /\ IsInjective(queue)
  /\ \A m \in Message :
       LET holders == {r \in Run : m \in With(r)} IN
       /\ Cardinality(holders) <= 1
       /\ m \in Queued => holders = {}
       /\ sender[m] = "done" =>
            m \in answered \cup gone \cup Queued \/ holders # {}

\* No message to a task's agent that was answered is on its way once more.
\* (In chats one may be: handle_stream_error queues the message of the launch
\* again when the provider refuses a later one.)
AnsweredOnce ==
  kind = "TaskExecution" =>
    \A m \in answered : m \notin Queued /\ \A r \in Run : m \notin With(r)

\* What is queued while a run works leaves the queue, all of it, by the end of
\* that run's drain at the latest, unless the run fails, is cancelled, or may
\* not drain (process_queued_messages, with its look at late arrivals).
Drains ==
  \A r \in Run :
    (queue # <<>> /\ RunAt(r, "live")) ~> (queue = <<>> \/ run[r].end = "error")

\* A message of a sender that found no process to write to is answered, by a
\* run of its own or, queued, by the one in the way, unless it is known to be
\* lost or a run fails (send_message's second gate, enqueue_pending_send; the
\* claim is of docs/user-guides/agent-orchestration.md:309).
SentIsServed ==
  \A m \in Message :
    (sender[m] = "claim") ~>
      (m \in answered \cup gone \/ \E r \in Run : run[r].end = "error")
=============================================================================
