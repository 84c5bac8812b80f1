------------------------- MODULE MessageDeliveryProofs -------------------------
(***************************************************************************)
(* Type correctness of MessageDelivery, that a message on its way is in    *)
(* one place and none is forgotten, and that a task's agent is not given   *)
(* an answered message again.  For any messages, runs and number of        *)
(* pauses.                                                                 *)
(***************************************************************************)
EXTENDS MessageDelivery, SequenceTheorems, FiniteSetTheorems, TLAPS

\* A run that starts or works was launched for a message; only a run that works
\* has something in its stdin.
Fed ==
  \A r \in Run :
    /\ run[r].pc \in {"launch", "live"} => first[r] \in Message
    /\ run[r].pc # "live" => inbox[r] = <<>>

TypeInv == TypeOK /\ Fed

\* What a run answers for: what it holds, and until it has ended the message it
\* was launched for, which it may have to put back although it answered it.
Mine(r) == With(r) \cup (IF run[r].pc = "live" THEN {first[r]} ELSE {})

\* Nothing is in two places, counting what runs answer for.
Apart ==
  /\ IsInjective(queue)
  /\ \A r \in Run : IsInjective(inbox[r])
  /\ \A m \in Message :
       /\ \A r, s \in Run : m \in Mine(r) /\ m \in Mine(s) => r = s
       /\ m \in Queued => \A r \in Run : m \notin Mine(r)

\* A message whose sender has not returned is nowhere.
Unsent ==
  \A m \in Message :
    sender[m] # "done" => m \notin Queued /\ \A r \in Run : m \notin Mine(r)

\* A message whose sender has returned is somewhere.
Accounted ==
  \A m \in Message :
    sender[m] = "done" =>
      m \in answered \cup gone \cup Queued \/ \E r \in Run : m \in With(r)

\* Answered messages of a task's agent are not on their way, and their senders
\* have returned.
Settled ==
  AnsweredOnce
  /\ (kind = "TaskExecution" => \A m \in answered : sender[m] = "done")

PlaceInv == Apart /\ Unsent /\ Accounted /\ Settled

-----------------------------------------------------------------------------
(***************************************************************************)
(* Sequences                                                               *)
(***************************************************************************)

\* What a message pushed at the back changes.
LEMMA AppendFacts ==
  ASSUME NEW S, NEW q \in Seq(S), NEW m \in S
  PROVE  /\ Append(q, m) \in Seq(S)
         /\ ToSet(Append(q, m)) = ToSet(q) \cup {m}
         /\ IsInjective(q) /\ m \notin ToSet(q) => IsInjective(Append(q, m))
<1> DEFINE a == Append(q, m)
<1>1. /\ a \in Seq(S) /\ Len(a) = Len(q) + 1 /\ Len(q) \in Nat
      /\ \A i \in 1 .. Len(q) : a[i] = q[i]
      /\ a[Len(q) + 1] = m
      /\ DOMAIN a = 1 .. Len(a) /\ DOMAIN q = 1 .. Len(q)
  BY AppendProperties, LenProperties
<1> HIDE DEF a
<1>2. DOMAIN a = DOMAIN q \cup {Len(q) + 1}
  BY <1>1
<1>3. ToSet(a) = ToSet(q) \cup {m}
  BY <1>1, <1>2 DEF ToSet
<1>4. ASSUME IsInjective(q), m \notin ToSet(q)
      PROVE  IsInjective(a)
  BY <1>1, <1>2, <1>4 DEF IsInjective, ToSet
<1> QED
  BY <1>1, <1>3, <1>4 DEF a

\* What a message pushed at the front changes.
LEMMA FrontFacts ==
  ASSUME NEW S, NEW q \in Seq(S), NEW m \in S
  PROVE  /\ <<m>> \o q \in Seq(S)
         /\ ToSet(<<m>> \o q) = ToSet(q) \cup {m}
         /\ IsInjective(q) /\ m \notin ToSet(q) => IsInjective(<<m>> \o q)
<1> DEFINE a == <<m>> \o q
<1>1. <<m>> \in Seq(S) /\ Len(<<m>>) = 1 /\ <<m>>[1] = m
  OBVIOUS
<1>2. /\ a \in Seq(S) /\ Len(a) = 1 + Len(q) /\ Len(q) \in Nat
      /\ \A i \in 1 .. 1 + Len(q) : a[i] = IF i <= 1 THEN <<m>>[i] ELSE q[i - 1]
      /\ DOMAIN a = 1 .. Len(a) /\ DOMAIN q = 1 .. Len(q)
  BY <1>1, ConcatProperties, LenProperties
<1> HIDE DEF a
<1>3. /\ a[1] = m /\ 1 \in DOMAIN a
      /\ \A i \in DOMAIN a : i = 1 \/ (i - 1 \in DOMAIN q /\ a[i] = q[i - 1])
      /\ \A i \in DOMAIN q : i + 1 \in DOMAIN a /\ a[i + 1] = q[i]
  BY <1>1, <1>2
<1>4. ToSet(a) = ToSet(q) \cup {m}
  BY <1>3 DEF ToSet
<1>5. ASSUME IsInjective(q), m \notin ToSet(q)
      PROVE  IsInjective(a)
  BY <1>2, <1>3, <1>5 DEF IsInjective, ToSet
<1> QED
  BY <1>2, <1>4, <1>5 DEF a

\* What taking the head changes.
LEMMA TailFacts ==
  ASSUME NEW S, NEW q \in Seq(S), q # <<>>
  PROVE  /\ Head(q) \in S /\ Tail(q) \in Seq(S)
         /\ ToSet(q) = ToSet(Tail(q)) \cup {Head(q)}
         /\ IsInjective(q) =>
              IsInjective(Tail(q)) /\ Head(q) \notin ToSet(Tail(q))
<1> DEFINE a == Tail(q)
           m == Head(q)
<1>1. /\ a \in Seq(S) /\ Len(a) = Len(q) - 1 /\ Len(q) \in Nat /\ Len(q) # 0
      /\ \A i \in 1 .. Len(a) : a[i] = q[i + 1]
      /\ DOMAIN a = 1 .. Len(a) /\ DOMAIN q = 1 .. Len(q)
      /\ m \in S /\ m = q[1]
  BY HeadTailProperties, LenProperties, EmptySeq
<1> HIDE DEF a, m
<1>2. /\ q[1] = m /\ 1 \in DOMAIN q
      /\ \A i \in DOMAIN q : i = 1 \/ (i - 1 \in DOMAIN a /\ q[i] = a[i - 1])
      /\ \A i \in DOMAIN a : i + 1 \in DOMAIN q /\ q[i + 1] = a[i]
  BY <1>1
<1>3. ToSet(q) = ToSet(a) \cup {m}
  BY <1>2 DEF ToSet
<1>4. ASSUME IsInjective(q)
      PROVE  IsInjective(a) /\ m \notin ToSet(a)
  BY <1>1, <1>2, <1>4 DEF IsInjective, ToSet
<1> QED
  BY <1>1, <1>3, <1>4 DEF a, m

\* The empty queue.
LEMMA EmptyFacts ==
  /\ ToSet(<<>>) = {} /\ IsInjective(<<>>)
  /\ \A S : <<>> \in Seq(S)
  BY DEF ToSet, IsInjective

\* What a sequence of messages holds are messages.
LEMMA ToSetFacts ==
  ASSUME NEW S, NEW q \in Seq(S)
  PROVE  ToSet(q) \subseteq S
  BY ElementOfSeq, LenProperties DEF ToSet

\* A set of numbers that is not empty has a least one: the first-order form
\* of induction the following proofs use.
LEMMA Least ==
  ASSUME NEW S \in SUBSET Nat, S # {}
  PROVE  \E n \in S : \A k \in S : n <= k
<1> DEFINE R == {p \in Nat \X Nat : p[1] < p[2]}
<1>1. IsWellFoundedOn(R, Nat)
  BY NatLessThanWellFounded, Zenon DEF OpToRel
<1>2. PICK n \in S : \A k \in S : <<k, n>> \notin R
  <2> HIDE DEF R
  <2> QED
    BY <1>1, WFMin
<1>3. ASSUME NEW k \in S, k < n
      PROVE  FALSE
  <2>1. <<k, n>> \in Nat \X Nat /\ <<k, n>>[1] < <<k, n>>[2]
    BY <1>3
  <2>2. <<k, n>> \in R
    BY <2>1
  <2> HIDE DEF R
  <2> QED
    BY <1>2, <2>2
<1> QED
  BY <1>3

\* One step of the function that Fresh is defined by, from a function that
\* kept what is fresh among the elements before.
Step(q, stale, f, i) ==
  IF i = 0 THEN <<>>
  ELSE IF q[i] \in stale THEN f[i - 1] ELSE Append(f[i - 1], q[i])

\* f keeps what is fresh among the first n elements.
Keeps(q, stale, f, n) == f = [i \in 0 .. n |-> Step(q, stale, f, i)]

\* Such a function exists for every n.
LEMMA KeepsExists ==
  ASSUME NEW q, NEW stale
  PROVE  \A n \in Nat : \E f : Keeps(q, stale, f, n)
<1> DEFINE Bad == {n \in Nat : ~ \E f : Keeps(q, stale, f, n)}
<1>1. SUFFICES ASSUME Bad # {} PROVE FALSE
  OBVIOUS
<1>2. PICK n \in Bad : \A k \in Bad : n <= k
  <2>1. Bad \in SUBSET Nat
    OBVIOUS
  <2> HIDE DEF Bad
  <2> QED
    BY <1>1, <2>1, Least
<1>3. CASE n = 0
  <2> DEFINE f == [i \in 0 .. 0 |-> <<>>]
  <2>1. \A i \in 0 .. 0 : i = 0
    OBVIOUS
  <2>2. Keeps(q, stale, f, 0)
    BY <2>1 DEF Keeps, Step
  <2> QED
    BY <1>3, <2>2
<1>4. CASE n # 0
  <2>1. n - 1 \in Nat /\ n - 1 \notin Bad
    BY <1>2, <1>4
  <2>2. PICK f : Keeps(q, stale, f, n - 1)
    BY <2>1
  <2> DEFINE g == [i \in 0 .. n |-> Step(q, stale, f, i)]
  <2>3. \A i \in 0 .. n - 1 : f[i] = g[i]
    BY <2>1, <2>2 DEF Keeps
  <2>4. \A i \in 0 .. n : Step(q, stale, f, i) = Step(q, stale, g, i)
    <3>1. \A i \in 0 .. n : i = 0 \/ i - 1 \in 0 .. n - 1
      BY <2>1
    <3> HIDE DEF g
    <3> QED
      BY <2>3, <3>1 DEF Step
  <2>5. Keeps(q, stale, g, n)
    BY <2>4 DEF Keeps
  <2> QED
    BY <2>5
<1> QED
  BY <1>3, <1>4

\* Fresh keeps the order, drops exactly what is stale, and adds nothing.
LEMMA FreshFacts ==
  ASSUME NEW S, NEW q \in Seq(S), NEW stale
  PROVE  /\ Fresh(q, stale) \in Seq(S)
         /\ ToSet(Fresh(q, stale)) = ToSet(q) \ stale
         /\ IsInjective(q) => IsInjective(Fresh(q, stale))
<1> DEFINE n == Len(q)
           kept == CHOOSE f : Keeps(q, stale, f, n)
           Elems(i) == {q[j] : j \in {j \in 1 .. i : q[j] \notin stale}}
           Good(i) == /\ kept[i] \in Seq(S)
                      /\ ToSet(kept[i]) = Elems(i)
                      /\ IsInjective(q) => IsInjective(kept[i])
           Bad == {i \in 0 .. n : ~Good(i)}
<1>1. n \in Nat /\ DOMAIN q = 1 .. n /\ \A i \in 1 .. n : q[i] \in S
  BY LenProperties, ElementOfSeq
<1>2. Fresh(q, stale) = kept[n]
  BY Zenon DEF Fresh, Keeps, Step
<1>3. Keeps(q, stale, kept, n)
  BY <1>1, KeepsExists
<1>4. \A i \in 0 .. n : kept[i] = Step(q, stale, kept, i)
  BY <1>3 DEF Keeps
<1> HIDE DEF kept
<1>5. Bad = {}
  <2> SUFFICES ASSUME Bad # {} PROVE FALSE
    OBVIOUS
  <2>1. PICK i \in Bad : \A k \in Bad : i <= k
    <3>1. Bad \in SUBSET Nat
      BY <1>1
    <3> HIDE DEF Bad
    <3> QED
      BY <3>1, Least
  <2>2. CASE i = 0
    <3>1. kept[0] = <<>>
      BY <1>1, <1>4 DEF Step
    <3>2. Elems(0) = {}
      OBVIOUS
    <3> HIDE DEF Elems
    <3> QED
      BY <2>1, <2>2, <3>1, <3>2, EmptyFacts
  <2>3. CASE i # 0
    <3>1. i \in 1 .. n /\ i - 1 \in 0 .. n
      <4> HIDE DEF Good
      <4> QED
        BY <1>1, <2>1, <2>3
    <3>2. Good(i - 1)
      <4>1. ~(i <= i - 1)
        BY <3>1
      <4> HIDE DEF Good
      <4> QED
        BY <2>1, <3>1, <4>1
    <3>3. kept[i] = IF q[i] \in stale THEN kept[i - 1]
                                     ELSE Append(kept[i - 1], q[i])
      BY <1>4, <2>3, <3>1 DEF Step
    <3>4. Elems(i) = IF q[i] \in stale THEN Elems(i - 1)
                                       ELSE Elems(i - 1) \cup {q[i]}
      <4>1. 1 .. i = (1 .. i - 1) \cup {i}
        BY <3>1
      <4> QED
        BY <4>1
    <3>5. CASE q[i] \in stale
      <4> HIDE DEF Elems
      <4> QED
        BY <2>1, <3>2, <3>3, <3>4, <3>5
    <3>6. CASE q[i] \notin stale
      <4>1. q[i] \in S
        BY <1>1, <3>1
      <4>2. IsInjective(q) => q[i] \notin Elems(i - 1)
        BY <1>1, <3>1 DEF IsInjective
      <4> HIDE DEF Elems
      <4>3. kept[i] = Append(kept[i - 1], q[i])
        BY <3>3, <3>6
      <4>4. Elems(i) = Elems(i - 1) \cup {q[i]}
        BY <3>4, <3>6
      <4>5. Good(i)
        BY <3>2, <4>1, <4>2, <4>3, <4>4, AppendFacts
      <4> HIDE DEF Good
      <4> QED
        BY <2>1, <4>5
    <3> QED
      BY <3>5, <3>6
  <2> QED
    BY <2>2, <2>3
<1>6. Good(n)
  <2>1. n \in 0 .. n
    BY <1>1
  <2> HIDE DEF Good
  <2> QED
    BY <1>5, <2>1
<1>7. Elems(n) = ToSet(q) \ stale
  BY <1>1 DEF ToSet
<1> QED
  BY <1>2, <1>6, <1>7

-----------------------------------------------------------------------------
(***************************************************************************)
(* Type correctness                                                        *)
(***************************************************************************)

\* Initial states are well typed.
LEMMA InitType == ASSUME Init PROVE TypeInv
<1>1. /\ sender \in [Message -> SenderPoints]
      /\ run \in [Run -> [pc : RunPoints, end : Ends, cancelled : BOOLEAN,
                          served : BOOLEAN]]
      /\ \A r \in Run : run[r].pc = "free"
  BY DEF Init, SenderPoints, RunPoints, Ends
<1>2. /\ queue \in Seq(Message) /\ inbox \in [Run -> Seq(Message)]
      /\ first \in [Run -> Message \cup {None}]
      /\ hand \in [Run -> Message \cup {None}]
      /\ \A r \in Run : hand[r] = None /\ inbox[r] = <<>>
  BY EmptyFacts DEF Init
<1>3. Fed
  BY <1>1, <1>2 DEF Fed
<1>4. \A r \in Run : hand[r] # None <=> run[r].pc \in {"hold", "serve"}
  BY <1>1, <1>2
<1>5. pauses \in 0 .. MaxPauses
  <2>1. pauses = 0
    BY DEF Init
  <2> QED
    BY <2>1, BoundAssumption
<1>6. /\ kind \in Kind /\ paused \in BOOLEAN /\ active \in BOOLEAN
      /\ marked = {} /\ old = {} /\ resumed = {} /\ owner = None /\ pipe = None
      /\ answered = {} /\ gone = {}
  BY Zenon DEF Init
<1> QED
  BY <1>1, <1>2, <1>3, <1>4, <1>5, <1>6 DEF TypeInv, TypeOK

\* Senders, and time passing.
LEMMA SenderType ==
  ASSUME TypeInv, NEW m \in Message, Send(m) \/ SendToQueue(m) \/ Enqueue(m)
  PROVE  TypeInv'
<1>1. queue' \in Seq(Message) /\ old' \subseteq Message /\ marked' = marked
  <2>1. queue \in Seq(Message) /\ old \subseteq Message
    BY DEF TypeInv, TypeOK
  <2>2. CASE PushBack(m)
    BY <2>1, <2>2, AppendFacts DEF PushBack
  <2>3. CASE UNCHANGED waiting
    BY <2>1, <2>3 DEF waiting
  <2> QED
    BY <2>2, <2>3 DEF Send, SendToQueue, Enqueue
<1>2. sender' \in [Message -> SenderPoints]
  BY DEF TypeInv, TypeOK, Send, SendToQueue, Enqueue, SenderGoes, SenderPoints
<1>3. UNCHANGED <<execution, resumed, process, runs, fates>>
  BY DEF Send, SendToQueue, Enqueue
<1> QED
  BY <1>1, <1>2, <1>3
     DEF TypeInv, TypeOK, Fed, execution, process, runs, fates

\* Ageing keeps the types.
LEMMA AgeType ==
  ASSUME TypeInv, Age
  PROVE  TypeInv'
<1>1. old' \subseteq Message
  BY ToSetFacts DEF Age, TypeInv, TypeOK, Queued
<1> QED
  BY <1>1 DEF Age, TypeInv, TypeOK, Fed, execution, process, runs, fates

\* A message is written to a process that works.
LEMMA WriteStdinType ==
  ASSUME TypeInv, NEW m \in Message, WriteStdin(m)
  PROVE  TypeInv'
<1>1. sender' \in [Message -> SenderPoints]
  BY DEF TypeInv, TypeOK, WriteStdin, SenderGoes, SenderPoints
<1>2. pipe' \in Run \cup {None}
  BY DEF TypeInv, TypeOK, WriteStdin
<1>3. /\ inbox' \in [Run -> Seq(Message)]
      /\ \A r \in Run : run[r].pc # "live" => inbox'[r] = <<>>
  <2>1. CASE pipe # None /\ Alive(pipe)
    <3>1. /\ pipe \in Run /\ run[pipe].pc = "live"
          /\ inbox' = [inbox EXCEPT ![pipe] = Append(@, m)]
      BY <2>1 DEF TypeInv, TypeOK, WriteStdin, Alive
    <3>2. Append(inbox[pipe], m) \in Seq(Message)
      BY <3>1, AppendFacts DEF TypeInv, TypeOK
    <3> QED
      BY <3>1, <3>2 DEF TypeInv, TypeOK, Fed
  <2>2. CASE ~(pipe # None /\ Alive(pipe))
    BY <2>2 DEF TypeInv, TypeOK, Fed, WriteStdin
  <2> QED
    BY <2>1, <2>2
<1>4. UNCHANGED <<execution, waiting, resumed, owner, run, first, hand, fates>>
  BY DEF WriteStdin
<1> QED
  BY <1>1, <1>2, <1>3, <1>4
     DEF TypeInv, TypeOK, Fed, execution, waiting, fates

\* A message gets a run of its own, or is to be queued.
LEMMA ClaimType ==
  ASSUME TypeInv, NEW m \in Message, Claim(m)
  PROVE  TypeInv'
<1>1. sender' \in [Message -> SenderPoints]
  BY DEF TypeInv, TypeOK, Claim, SenderGoes, SenderPoints
<1>2. UNCHANGED <<execution, waiting, resumed, pipe, inbox, hand, fates>>
  BY DEF Claim
<1>3. CASE UNCHANGED <<owner, first, run>>
  BY <1>1, <1>2, <1>3
     DEF TypeInv, TypeOK, Fed, execution, waiting, fates
<1>4. ASSUME NEW r \in Run, RunAt(r, "free"), owner' = r,
             first' = [first EXCEPT ![r] = m], RunGoes(r, "launch")
      PROVE  TypeInv'
  <2>1. /\ run' \in [Run -> [pc : RunPoints, end : Ends, cancelled : BOOLEAN,
                             served : BOOLEAN]]
        /\ run'[r].pc = "launch"
        /\ \A q \in Run \ {r} : run'[q] = run[q]
    BY <1>4 DEF TypeInv, TypeOK, RunGoes, RunPoints
  <2>2. first' \in [Run -> Message \cup {None}] /\ Fed'
    BY <1>2, <1>4, <2>1 DEF TypeInv, TypeOK, Fed, RunAt
  <2>3. \A q \in Run : hand'[q] # None <=> run'[q].pc \in {"hold", "serve"}
    BY <1>2, <1>4, <2>1 DEF TypeInv, TypeOK, RunAt
  <2> QED
    BY <1>1, <1>2, <1>4, <2>1, <2>2, <2>3
       DEF TypeInv, TypeOK, execution, waiting, fates
<1> QED
  BY <1>3, <1>4 DEF Claim

RunRec == [pc : RunPoints, end : Ends, cancelled : BOOLEAN, served : BOOLEAN]

\* A step that changes the entry of one run, in the way the types allow.
LEMMA RunType ==
  ASSUME TypeInv, NEW r \in Run, NEW o \in RunRec,
         run' = [run EXCEPT ![r] = o],
         UNCHANGED <<kind, active, sender, first>>,
         paused' \in BOOLEAN, pauses' \in 0 .. MaxPauses,
         queue' \in Seq(Message), marked' \subseteq Message,
         old' \subseteq Message, resumed' = resumed,
         owner' \in Run \cup {None}, pipe' \in Run \cup {None},
         NEW i \in Seq(Message), inbox' = [inbox EXCEPT ![r] = i],
         NEW h \in Message \cup {None}, hand' = [hand EXCEPT ![r] = h],
         o.pc = "live" => first[r] \in Message,
         o.pc # "launch",
         o.pc # "live" => i = <<>>,
         h # None <=> o.pc \in {"hold", "serve"},
         answered' \subseteq Message, gone' \subseteq Message
  PROVE  TypeInv'
<1>1. /\ run' \in [Run -> RunRec] /\ run'[r] = o
      /\ \A s \in Run \ {r} : run'[s] = run[s]
  BY DEF TypeInv, TypeOK, RunRec
<1>2. /\ inbox' \in [Run -> Seq(Message)] /\ inbox'[r] = i
      /\ \A s \in Run \ {r} : inbox'[s] = inbox[s]
  BY DEF TypeInv, TypeOK
<1>3. /\ hand' \in [Run -> Message \cup {None}] /\ hand'[r] = h
      /\ \A s \in Run \ {r} : hand'[s] = hand[s]
  BY DEF TypeInv, TypeOK
<1>4. Fed'
  BY <1>1, <1>2 DEF TypeInv, Fed
<1>5. \A s \in Run : hand'[s] # None <=> run'[s].pc \in {"hold", "serve"}
  BY <1>1, <1>3 DEF TypeInv, TypeOK
<1> QED
  BY <1>1, <1>2, <1>3, <1>4, <1>5 DEF TypeInv, TypeOK, RunRec

\* What a run has in its stdin and in hand.
LEMMA RunFields ==
  ASSUME TypeInv, NEW r \in Run
  PROVE  /\ run[r] \in RunRec
         /\ inbox[r] \in Seq(Message) /\ hand[r] \in Message \cup {None}
         /\ inbox = [inbox EXCEPT ![r] = inbox[r]]
         /\ hand = [hand EXCEPT ![r] = hand[r]]
         /\ hand[r] # None <=> run[r].pc \in {"hold", "serve"}
         /\ run[r].pc # "live" => inbox[r] = <<>>
         /\ run[r].pc \in {"launch", "live"} => first[r] \in Message
         /\ Released(r) \in Run \cup {None}
  BY DEF TypeInv, TypeOK, Fed, RunRec, Released

\* A run that only moves on: it neither starts nor takes a message.
LEMMA RunGoesType ==
  ASSUME TypeInv, NEW r \in Run, NEW o \in RunRec,
         run' = [run EXCEPT ![r] = o],
         o.pc \notin {"launch", "live", "hold", "serve"},
         run[r].pc \notin {"launch", "live", "hold", "serve"},
         UNCHANGED <<execution, sender, marked, old, resumed, first, inbox,
                     hand, answered>>,
         queue' \in Seq(Message), gone' \subseteq Message,
         owner' \in Run \cup {None}, pipe' \in Run \cup {None}
  PROVE  TypeInv'
<1>1. /\ inbox' = [inbox EXCEPT ![r] = inbox[r]]
      /\ hand' = [hand EXCEPT ![r] = hand[r]]
      /\ inbox[r] \in Seq(Message) /\ hand[r] \in Message \cup {None}
      /\ hand[r] = None /\ inbox[r] = <<>>
  BY RunFields
<1>2. /\ UNCHANGED <<kind, active, sender, first>>
      /\ paused' \in BOOLEAN /\ pauses' \in 0 .. MaxPauses
      /\ marked' \subseteq Message /\ old' \subseteq Message
      /\ resumed' = resumed /\ answered' \subseteq Message
  BY DEF TypeInv, TypeOK, execution
<1> QED
  BY <1>1, <1>2, RunType

\* A pause that the bound allows.
LEMMA PauseCount ==
  ASSUME TypeInv, pauses < MaxPauses
  PROVE  pauses + 1 \in 0 .. MaxPauses
<1>1. pauses \in 0 .. MaxPauses
  BY DEF TypeInv, TypeOK
<1> QED
  BY <1>1, BoundAssumption

\* A run starts, or fails to.
LEMMA LaunchType ==
  ASSUME TypeInv, NEW r \in Run, Launch(r) \/ LaunchFails(r)
  PROVE  TypeInv'
<1>1. run[r] \in RunRec /\ run[r].pc = "launch" /\ first[r] \in Message
      /\ hand[r] = None
  BY RunFields DEF Launch, LaunchFails, RunAt
<1>2. CASE Launch(r)
  <2> DEFINE o == [run[r] EXCEPT !.pc = "live"]
  <2>1. o \in RunRec /\ o.pc = "live" /\ run' = [run EXCEPT ![r] = o]
    BY <1>1, <1>2 DEF RunRec, RunPoints, Launch, RunGoes
  <2>2. <<first[r]>> \in Seq(Message)
    BY <1>1
  <2>3. hand' = [hand EXCEPT ![r] = None]
    BY <1>1, <1>2 DEF Launch, TypeInv, TypeOK
  <2> HIDE DEF o
  <2>4. /\ UNCHANGED <<kind, active, sender, first, paused, pauses, queue,
                       marked, old, resumed, owner, answered, gone>>
        /\ pipe' \in Run \cup {None}
    BY <1>2 DEF Launch, TypeInv, TypeOK, execution, waiting, fates
  <2>5. /\ paused \in BOOLEAN /\ pauses \in 0 .. MaxPauses
        /\ queue \in Seq(Message) /\ marked \subseteq Message
        /\ old \subseteq Message /\ owner \in Run \cup {None}
        /\ answered \subseteq Message /\ gone \subseteq Message
    BY DEF TypeInv, TypeOK
  <2>6. inbox' = [inbox EXCEPT ![r] = <<first[r]>>]
    BY <1>2 DEF Launch
  <2> QED
    BY <1>1, <2>1, <2>2, <2>3, <2>4, <2>5, <2>6, RunType
<1>3. CASE LaunchFails(r)
  <2> DEFINE o == [run[r] EXCEPT !.pc = "over", !.end = "error"]
  <2>1. o \in RunRec /\ o.pc = "over" /\ run' = [run EXCEPT ![r] = o]
    BY <1>1, <1>3 DEF RunRec, RunPoints, Ends, LaunchFails
  <2> HIDE DEF o
  <2>2. hand' = [hand EXCEPT ![r] = None] /\ inbox' = [inbox EXCEPT ![r] = <<>>]
    BY <1>1, <1>3, RunFields DEF LaunchFails, TypeInv, TypeOK
  <2>3. queue' \in Seq(Message) /\ marked' = marked /\ old' = old
    <3>1. queue \in Seq(Message) /\ <<first[r]>> \o queue \in Seq(Message)
      BY <1>1, FrontFacts DEF TypeInv, TypeOK
    <3> QED
      BY <1>3, <3>1 DEF LaunchFails, PushFront, waiting
  <2>4. gone' \subseteq Message /\ owner' \in Run \cup {None}
    BY <1>1, <1>3, RunFields DEF LaunchFails, PushFront, TypeInv, TypeOK
  <2>5. UNCHANGED <<kind, active, sender, first, paused, pauses, resumed, pipe,
                    answered>>
    BY <1>3 DEF LaunchFails, execution
  <2> QED
    BY <2>1, <2>2, <2>3, <2>4, <2>5, RunType, EmptyFacts DEF TypeInv, TypeOK
<1> QED
  BY <1>2, <1>3

\* A run answers.
LEMMA AnswerType ==
  ASSUME TypeInv, NEW r \in Run, Answer(r)
  PROVE  TypeInv'
<1>1. /\ run[r] \in RunRec /\ run[r].pc = "live" /\ inbox[r] # <<>>
      /\ inbox[r] \in Seq(Message)
  BY RunFields DEF Answer, RunAt
<1>2. /\ inbox' = [inbox EXCEPT ![r] = Tail(inbox[r])]
      /\ answered' = answered \cup {Head(inbox[r])}
  BY DEF Answer
<1>3. Tail(inbox[r]) \in Seq(Message) /\ Head(inbox[r]) \in Message
  BY <1>1, TailFacts
<1>4. /\ inbox' \in [Run -> Seq(Message)] /\ answered' \subseteq Message
      /\ \A s \in Run : run[s].pc # "live" => inbox'[s] = <<>>
  BY <1>1, <1>2, <1>3 DEF TypeInv, TypeOK, Fed
<1> QED
  BY <1>4 DEF Answer, TypeInv, TypeOK, Fed, execution, waiting, process

\* The end of a run's process, whatever ends it.
LEMMA StopsFields ==
  ASSUME TypeInv, NEW r \in Run, NEW end \in {"ok", "error"}, Stops(r, end),
         run[r].pc = "live"
  PROVE  /\ \E o \in RunRec : /\ run' = [run EXCEPT ![r] = o]
                              /\ o.pc = "ended"
         /\ inbox' = [inbox EXCEPT ![r] = <<>>]
         /\ hand' = [hand EXCEPT ![r] = None]
         /\ gone' \subseteq Message
<1>1. run[r] \in RunRec /\ hand[r] = None /\ inbox[r] \in Seq(Message)
  BY RunFields
<1> DEFINE o == [run[r] EXCEPT !.pc = "ended", !.end = end]
<1>2. o \in RunRec /\ o.pc = "ended" /\ run' = [run EXCEPT ![r] = o]
  BY <1>1 DEF RunRec, RunPoints, Ends, Stops
<1>3. hand' = [hand EXCEPT ![r] = None]
  BY <1>1 DEF Stops, TypeInv, TypeOK
<1>4. gone' \subseteq Message
  BY <1>1, ToSetFacts DEF Stops, TypeInv, TypeOK
<1> QED
  BY <1>2, <1>3, <1>4 DEF Stops

\* An agent that stops keeps the types.
LEMMA StopsType ==
  ASSUME TypeInv, NEW r \in Run, Exit(r) \/ ProviderRefuses(r)
  PROVE  TypeInv'
<1>1. PICK end \in {"ok", "error"} : Stops(r, end)
  BY DEF Exit, ProviderRefuses
<1>2. run[r].pc = "live" /\ first[r] \in Message
  BY RunFields DEF Exit, ProviderRefuses, RunAt
<1>3. PICK o \in RunRec : run' = [run EXCEPT ![r] = o] /\ o.pc = "ended"
  BY <1>1, <1>2, StopsFields
<1>4. /\ inbox' = [inbox EXCEPT ![r] = <<>>]
      /\ hand' = [hand EXCEPT ![r] = None]
      /\ gone' \subseteq Message
  BY <1>1, <1>2, StopsFields
<1>5. UNCHANGED <<kind, active, sender, first, resumed, owner, pipe, answered>>
  BY <1>1 DEF Exit, ProviderRefuses, Stops, execution, process
<1>6. paused' \in BOOLEAN /\ pauses' \in 0 .. MaxPauses
  <2>1. CASE Exit(r)
    BY <2>1 DEF Exit, execution, TypeInv, TypeOK
  <2>2. CASE ProviderRefuses(r)
    BY <2>2, PauseCount DEF ProviderRefuses
  <2> QED
    BY <2>1, <2>2
<1>7. /\ queue' \in Seq(Message) /\ marked' \subseteq Message
      /\ old' \subseteq Message
  <2>1. /\ queue \in Seq(Message) /\ marked \subseteq Message
        /\ old \subseteq Message
    BY DEF TypeInv, TypeOK
  <2>2. Append(queue, first[r]) \in Seq(Message)
    BY <1>2, <2>1, AppendFacts
  <2> QED
    BY <1>2, <2>1, <2>2 DEF Exit, ProviderRefuses, waiting
<1> QED
  BY <1>3, <1>4, <1>5, <1>6, <1>7, RunType, EmptyFacts DEF TypeInv, TypeOK

\* A run moves on to a point, or is over.
LEMMA GoesFields ==
  ASSUME TypeInv, NEW r \in Run, NEW p \in RunPoints
  PROVE  /\ RunGoes(r, p) =>
              \E o \in RunRec : /\ run' = [run EXCEPT ![r] = o]
                                /\ o.pc = p
         /\ \A end \in Ends : Over(r, end) =>
              \E o \in RunRec : /\ run' = [run EXCEPT ![r] = o]
                                /\ o.pc = "over"
<1>1. run[r] \in RunRec
  BY RunFields
<1>2. /\ [run[r] EXCEPT !.pc = p] \in RunRec
      /\ [run[r] EXCEPT !.pc = p].pc = p
  BY <1>1 DEF RunRec
<1>3. \A end \in Ends :
        /\ [run[r] EXCEPT !.pc = "over", !.end = end] \in RunRec
        /\ [run[r] EXCEPT !.pc = "over", !.end = end].pc = "over"
  BY <1>1 DEF RunRec, RunPoints
<1>4. ASSUME RunGoes(r, p)
      PROVE  run' = [run EXCEPT ![r] = [run[r] EXCEPT !.pc = p]]
  BY <1>4 DEF RunGoes
<1>5. ASSUME NEW end \in Ends, Over(r, end)
      PROVE  run' = [run EXCEPT ![r] =
                       [run[r] EXCEPT !.pc = "over", !.end = end]]
  BY <1>5 DEF Over
<1> QED
  BY <1>2, <1>3, <1>4, <1>5

\* The steps of an ending run between the end of its process and its first
\* message from the queue.
LEMMA EndingType ==
  ASSUME TypeInv, NEW r \in Run,
         \/ Unregister(r) \/ ClearPipe(r) \/ AfterSuccess(r) \/ AfterError(r)
         \/ Look(r) \/ LookAgain(r)
  PROVE  TypeInv'
<1> DEFINE Moves == {"unregistered", "cleared", "look", "pop", "wait"}
<1>1. run[r].pc \in {"ended", "unregistered", "cleared", "look", "wait"}
  BY DEF Unregister, ClearPipe, AfterSuccess, AfterError, Look, LookAgain,
         RunAt
<1>2. \/ \E p \in Moves : RunGoes(r, p)
      \/ \E end \in Ends : Over(r, end)
  BY Zenon DEF Unregister, ClearPipe, AfterSuccess, AfterError, Look,
               LookAgain, Ends
<1>3. PICK o \in RunRec : /\ run' = [run EXCEPT ![r] = o]
                          /\ o.pc \in Moves \cup {"over"}
  <2>1. \A p \in Moves : p \in RunPoints
    BY DEF RunPoints
  <2>2. "over" \in RunPoints
    BY DEF RunPoints
  <2> HIDE DEF Moves
  <2> QED
    BY <1>2, <2>1, <2>2, GoesFields
<1>4. UNCHANGED <<execution, sender, marked, old, resumed, first, inbox, hand,
                  answered>>
  BY DEF Unregister, ClearPipe, AfterSuccess, AfterError, Look, LookAgain,
         waiting, fates
<1>5. queue' \in Seq(Message) /\ gone' \subseteq Message
  <2>1. /\ queue \in Seq(Message) /\ gone \subseteq Message
        /\ Queued \subseteq Message
    BY ToSetFacts DEF TypeInv, TypeOK, Queued
  <2>2. CASE AfterSuccess(r)
    BY <2>1, <2>2, FreshFacts DEF AfterSuccess
  <2>3. CASE ~AfterSuccess(r)
    BY <2>1, <2>3 DEF Unregister, ClearPipe, AfterError, Look, LookAgain,
                      waiting, fates
  <2> QED
    BY <2>2, <2>3
<1>6. owner' \in Run \cup {None} /\ pipe' \in Run \cup {None}
  <2>1. /\ owner \in Run \cup {None} /\ pipe \in Run \cup {None}
        /\ Released(r) \in Run \cup {None}
    BY RunFields DEF TypeInv, TypeOK
  <2> QED
    BY <2>1 DEF Unregister, ClearPipe, AfterSuccess, AfterError, Look,
                LookAgain, process
<1> QED
  BY <1>1, <1>3, <1>4, <1>5, <1>6, RunGoesType

\* A run at its queued messages: where it stands, what it has in hand.
LEMMA DrainStep ==
  ASSUME TypeInv, NEW r \in Run, NEW o \in RunRec,
         run' = [run EXCEPT ![r] = o],
         run[r].pc \in {"pop", "hold", "serve"},
         o.pc \notin {"launch", "live"},
         NEW h \in Message \cup {None}, hand' = [hand EXCEPT ![r] = h],
         h # None <=> o.pc \in {"hold", "serve"},
         UNCHANGED <<kind, active, sender, resumed, process, first, inbox>>,
         paused' \in BOOLEAN, pauses' \in 0 .. MaxPauses,
         queue' \in Seq(Message), marked' \subseteq Message, old' = old,
         answered' \subseteq Message, gone' \subseteq Message
  PROVE  TypeInv'
<1>1. inbox' = [inbox EXCEPT ![r] = <<>>]
  BY RunFields
<1>2. /\ old' \subseteq Message
      /\ owner' \in Run \cup {None} /\ pipe' \in Run \cup {None}
  BY DEF TypeInv, TypeOK, process
<1> QED
  BY <1>1, <1>2, RunType, EmptyFacts

\* Taking a message off the queue keeps the types.
LEMMA PopType ==
  ASSUME TypeInv, NEW r \in Run, Pop(r)
  PROVE  TypeInv'
<1>1. /\ run[r].pc = "pop" /\ hand[r] = None /\ queue \in Seq(Message)
      /\ UNCHANGED <<execution, sender, resumed, process, first, inbox, fates>>
  BY RunFields DEF Pop, RunAt, TypeInv, TypeOK
<1>2. /\ marked \subseteq Message /\ answered \subseteq Message
      /\ gone \subseteq Message /\ paused \in BOOLEAN
      /\ pauses \in 0 .. MaxPauses
      /\ hand = [hand EXCEPT ![r] = None]
  BY <1>1, RunFields DEF TypeInv, TypeOK
<1>3. CASE queue = <<>>
  <2>1. PICK o \in RunRec : run' = [run EXCEPT ![r] = o] /\ o.pc = "look"
    BY <1>3, GoesFields DEF Pop, RunPoints
  <2> QED
    BY <1>1, <1>2, <1>3, <2>1, DrainStep DEF Pop, waiting, execution, fates
<1>4. CASE queue # <<>>
  <2>1. PICK o \in RunRec : run' = [run EXCEPT ![r] = o] /\ o.pc = "hold"
    BY <1>4, GoesFields DEF Pop, RunPoints
  <2>2. /\ Head(queue) \in Message /\ Head(queue) # None
        /\ Tail(queue) \in Seq(Message)
    BY <1>1, <1>4, TailFacts, NoneAssumption
  <2>3. /\ hand' = [hand EXCEPT ![r] = Head(queue)]
        /\ queue' = Tail(queue) /\ UNCHANGED <<marked, old>>
    BY <1>4 DEF Pop, TakeHead
  <2> QED
    BY <1>1, <1>2, <2>1, <2>2, <2>3, DrainStep DEF execution, fates
<1> QED
  BY <1>3, <1>4

\* What a run has in hand is put back, dropped with the queue, or served.
LEMMA HoldType ==
  ASSUME TypeInv, NEW r \in Run, Hold(r)
  PROVE  TypeInv'
<1>1. /\ run[r].pc = "hold" /\ run[r] \in RunRec /\ hand[r] \in Message
      /\ hand[r] # None
      /\ UNCHANGED <<execution, sender, resumed, process, first, inbox,
                     answered>>
  BY RunFields, NoneAssumption DEF Hold, RunAt
<1>2. /\ marked \subseteq Message /\ answered \subseteq Message
      /\ gone \subseteq Message /\ paused \in BOOLEAN
      /\ pauses \in 0 .. MaxPauses /\ queue \in Seq(Message)
      /\ hand = [hand EXCEPT ![r] = hand[r]]
      /\ Queued \subseteq Message
  BY ToSetFacts, RunFields DEF TypeInv, TypeOK, Queued
<1>3. CASE RunGoes(r, "look")
  <2>1. PICK o \in RunRec : run' = [run EXCEPT ![r] = o] /\ o.pc = "look"
    BY <1>3, GoesFields DEF RunPoints
  <2>2. run'[r].pc = "look"
    BY <2>1 DEF TypeInv, TypeOK
  <2>3. /\ Drops(r) /\ UNCHANGED <<marked, old>>
        /\ queue' = <<hand[r]>> \o queue \/ queue' = <<>>
        /\ gone' \in {gone, gone \cup {hand[r]} \cup Queued}
    <3>1. run' # [run EXCEPT ![r].pc = "serve", ![r].served = TRUE]
      BY <2>2 DEF TypeInv, TypeOK
    <3> QED
      BY <3>1 DEF Hold, PushFront
  <2>4. queue' \in Seq(Message) /\ gone' \subseteq Message
    <3>1. <<hand[r]>> \o queue \in Seq(Message) /\ <<>> \in Seq(Message)
      BY <1>1, <1>2, FrontFacts, EmptyFacts
    <3>2. gone' \subseteq Message
      BY <1>1, <1>2, <2>3
    <3> QED
      BY <2>3, <3>1, <3>2
  <2>5. hand' = [hand EXCEPT ![r] = None]
    BY <2>3 DEF Drops
  <2> QED
    BY <1>1, <1>2, <2>1, <2>3, <2>4, <2>5, DrainStep DEF execution
<1>4. CASE /\ run' = [run EXCEPT ![r].pc = "serve", ![r].served = TRUE]
           /\ UNCHANGED <<waiting, hand, gone>>
  <2> DEFINE o == [run[r] EXCEPT !.pc = "serve", !.served = TRUE]
  <2>1. o \in RunRec /\ o.pc = "serve" /\ run' = [run EXCEPT ![r] = o]
    BY <1>1, <1>4 DEF RunRec, RunPoints
  <2> HIDE DEF o
  <2> QED
    BY <1>1, <1>2, <1>4, <2>1, DrainStep DEF execution, waiting
<1> QED
  BY <1>3, <1>4 DEF Hold

\* It is answered by a process of its own, or not.
LEMMA ServeType ==
  ASSUME TypeInv, NEW r \in Run, Serve(r) \/ ServeFails(r) \/ ServeRefused(r)
  PROVE  TypeInv'
<1>1. /\ run[r].pc = "serve" /\ hand[r] \in Message
      /\ UNCHANGED <<kind, active, sender, resumed, process, first, inbox>>
      /\ hand' = [hand EXCEPT ![r] = None]
  BY RunFields, NoneAssumption
     DEF Serve, ServeFails, ServeRefused, RunAt, Drops, execution
<1>2. /\ marked \subseteq Message /\ answered \subseteq Message
      /\ gone \subseteq Message /\ paused \in BOOLEAN
      /\ pauses \in 0 .. MaxPauses /\ queue \in Seq(Message)
  BY DEF TypeInv, TypeOK
<1>3. PICK o \in RunRec : /\ run' = [run EXCEPT ![r] = o]
                          /\ o.pc \in {"pop", "over"}
  <2>1. {"pop", "over"} \subseteq RunPoints /\ "error" \in Ends
    BY DEF RunPoints, Ends
  <2> QED
    BY <2>1, GoesFields DEF Serve, ServeFails, ServeRefused
<1>4. CASE Serve(r)
  BY <1>1, <1>2, <1>3, <1>4, DrainStep DEF Serve, execution, waiting
<1>5. CASE ServeFails(r)
  BY <1>1, <1>2, <1>3, <1>5, DrainStep DEF ServeFails, execution, waiting
<1>6. CASE ServeRefused(r)
  <2>1. queue' \in Seq(Message) /\ marked' \subseteq Message /\ old' = old
    BY <1>1, <1>2, <1>6, FrontFacts DEF ServeRefused, PushFront
  <2>2. /\ paused' \in BOOLEAN /\ pauses' \in 0 .. MaxPauses
        /\ UNCHANGED fates
    BY <1>6, PauseCount DEF ServeRefused
  <2> QED
    BY <1>1, <1>2, <1>3, <2>1, <2>2, DrainStep DEF fates
<1> QED
  BY <1>4, <1>5, <1>6

\* A pause cancels the registered run, if its process works or has just ended.
LEMMA PauseType ==
  ASSUME TypeInv, Pause
  PROVE  TypeInv'
<1>1. /\ UNCHANGED <<kind, active, sender, waiting, resumed, first, hand,
                     answered>>
      /\ paused' = TRUE /\ pauses' \in 0 .. MaxPauses
      /\ owner' = None /\ pipe' = None
  BY PauseCount DEF Pause
<1>2. CASE UNCHANGED <<run, inbox, gone>>
  BY <1>1, <1>2 DEF TypeInv, TypeOK, Fed, waiting
<1>3. CASE owner # None /\ run[owner].pc \in {"live", "ended"}
  <2> DEFINE r == owner
  <2>1. r \in Run
    BY <1>3 DEF TypeInv, TypeOK
  <2>0. PICK end \in {"ok", "error"} :
          run' = [run EXCEPT ![r].cancelled = TRUE, ![r].pc = "ended",
                             ![r].end = IF @ = None THEN end ELSE @]
    BY <1>3 DEF Pause, Killed
  <2> DEFINE o == [run[r] EXCEPT !.cancelled = TRUE, !.pc = "ended",
                                 !.end = IF @ = None THEN end ELSE @]
  <2>2. run[r] \in RunRec /\ inbox[r] \in Seq(Message) /\ hand[r] = None
    BY <1>3, <2>1, RunFields
  <2>3. o \in RunRec /\ o.pc = "ended" /\ run' = [run EXCEPT ![r] = o]
    BY <2>0, <2>2 DEF RunRec, RunPoints, Ends
  <2>4. /\ inbox' = [inbox EXCEPT ![r] = <<>>]
        /\ gone' = gone \cup (ToSet(inbox[r]) \ (answered \cup Queued))
    BY <1>3 DEF Pause, Killed
  <2>5. gone' \subseteq Message
    BY <2>2, <2>4, ToSetFacts DEF TypeInv, TypeOK
  <2>6. hand' = [hand EXCEPT ![r] = None]
    BY <1>1, <2>2 DEF TypeInv, TypeOK
  <2>7. /\ queue' \in Seq(Message) /\ marked' \subseteq Message
        /\ old' \subseteq Message /\ answered' \subseteq Message
    BY <1>1 DEF TypeInv, TypeOK, waiting
  <2> HIDE DEF o
  <2> QED
    BY <1>1, <2>1, <2>3, <2>4, <2>5, <2>6, <2>7, RunType, EmptyFacts
<1> QED
  BY <1>2, <1>3 DEF Pause, Killed

\* A resume sends the first queued message again.
LEMMA ResumeType ==
  ASSUME TypeInv, Resume
  PROVE  TypeInv'
<1>1. CASE UNCHANGED <<sender, resumed, waiting>>
  BY <1>1 DEF Resume, TypeInv, TypeOK, Fed, waiting, process, runs, fates
<1>2. CASE /\ queue # <<>> /\ SenderGoes(Head(queue), "gate") /\ TakeHead
           /\ resumed' = resumed \cup {Head(queue)}
  <2>1. Head(queue) \in Message /\ Tail(queue) \in Seq(Message)
    BY <1>2, TailFacts DEF TypeInv, TypeOK
  <2>2. sender' \in [Message -> SenderPoints]
    BY <1>2 DEF SenderGoes, SenderPoints, TypeInv, TypeOK
  <2> QED
    BY <1>2, <2>1, <2>2
       DEF Resume, TakeHead, TypeInv, TypeOK, Fed, process, runs, fates
<1> QED
  BY <1>1, <1>2 DEF Resume

\* A stop clears the queue.
LEMMA StopClearsType ==
  ASSUME TypeInv, StopClears
  PROVE  TypeInv'
<1>1. /\ queue' = <<>> /\ gone' = gone \cup Queued
      /\ UNCHANGED <<execution, sender, marked, old, resumed, process, runs,
                     answered>>
  BY DEF StopClears
<1>2. queue' \in Seq(Message) /\ gone' \subseteq Message
  BY <1>1, EmptyFacts, ToSetFacts DEF TypeInv, TypeOK, Queued
<1> QED
  BY <1>1, <1>2 DEF execution, process, runs, TypeInv, TypeOK, Fed

\* Every step keeps the types.
LEMMA NextType == ASSUME TypeInv, [Next]_vars PROVE TypeInv'
<1>1. CASE UNCHANGED vars
  BY <1>1 DEF vars, execution, waiting, process, runs, fates, TypeInv, TypeOK,
              Fed
<1>2. CASE Leave
  BY <1>2 DEF Leave, waiting, process, runs, fates, TypeInv, TypeOK, Fed
<1> QED
  BY <1>1, <1>2, SenderType, AgeType, WriteStdinType, ClaimType, LaunchType,
     AnswerType, StopsType, EndingType, PopType, HoldType, ServeType,
     PauseType, StopClearsType, ResumeType DEF Next, Sends, Ending

\* Every variable has its type at all times, and a run has a message of the
\* queue in hand exactly while it is about to serve it.
THEOREM TypeCorrect == Spec => []TypeOK
<1>1. Init => TypeInv
  BY InitType
<1>2. TypeInv /\ [Next]_vars => TypeInv'
  BY NextType
<1>3. TypeInv => TypeOK
  BY DEF TypeInv
<1> QED
  BY <1>1, <1>2, <1>3, PTL DEF Spec

-----------------------------------------------------------------------------
(***************************************************************************)
(* Every message in one place                                              *)
(***************************************************************************)

\* A queue of one message.
LEMMA SingleFacts ==
  ASSUME NEW m
  PROVE  ToSet(<<m>>) = {m} /\ IsInjective(<<m>>)
  BY DEF ToSet, IsInjective

\* A step of one run: what the run answers for afterwards it or the queue had
\* before, and what they had is still there, or its fate is known.
LEMMA RunMoves ==
  ASSUME TypeInv, PlaceInv, NEW r \in Run,
         UNCHANGED <<kind, sender, first>>,
         \A s \in Run \ {r} : /\ run'[s] = run[s] /\ inbox'[s] = inbox[s]
                              /\ hand'[s] = hand[s],
         IsInjective(queue'), IsInjective(inbox'[r]),
         \A m \in Message :
           /\ m \in Queued' \/ m \in Mine(r)' => m \in Queued \/ m \in Mine(r)
           /\ ~(m \in Queued' /\ m \in Mine(r)')
           /\ m \in Queued \/ m \in With(r) =>
                m \in answered' \cup gone' \cup Queued' \/ m \in With(r)'
           /\ m \in answered' => m \in answered \/ m \in With(r)
           /\ kind = "TaskExecution" /\ m \in answered' =>
                m \notin Queued' /\ m \notin With(r)',
         answered \subseteq answered', answered' \subseteq Message,
         gone \subseteq gone'
  PROVE  PlaceInv'
<1>1. \A s \in Run \ {r} : With(s)' = With(s) /\ Mine(s)' = Mine(s)
  BY DEF With, Mine, RunAt
<1>2. \A s \in Run : With(s) \subseteq Mine(s)
  BY DEF Mine
<1>3. Apart'
  <2>1. \A s \in Run : IsInjective(inbox[s])'
    BY DEF PlaceInv, Apart
  <2>2. \A m \in Message : \A s, t \in Run :
          m \in Mine(s)' /\ m \in Mine(t)' => s = t
    BY <1>1 DEF PlaceInv, Apart
  <2>3. \A m \in Message : m \in Queued' => \A s \in Run : m \notin Mine(s)'
    BY <1>1 DEF PlaceInv, Apart
  <2> QED
    BY <2>1, <2>2, <2>3 DEF Apart
<1>4. Unsent'
  BY <1>1 DEF PlaceInv, Unsent
<1>5. Accounted'
  BY <1>1 DEF PlaceInv, Accounted
<1>6. Settled'
  <2>1. ASSUME kind = "TaskExecution", NEW m \in answered'
        PROVE  /\ sender[m] = "done" /\ m \notin Queued'
               /\ \A s \in Run : m \notin With(s)'
    <3>1. m \in Message /\ m \in answered \cup With(r)
      BY <2>1
    <3>2. CASE m \in answered
      BY <1>1, <2>1, <3>1, <3>2 DEF PlaceInv, Settled, AnsweredOnce
    <3>3. CASE m \in With(r)
      <4>1. m \in Mine(r)
        BY <1>2, <3>3
      <4>2. \A s \in Run \ {r} : m \notin Mine(s)
        BY <3>1, <4>1 DEF PlaceInv, Apart
      <4>3. sender[m] = "done"
        BY <3>1, <4>1 DEF PlaceInv, Unsent
      <4> QED
        BY <1>1, <1>2, <2>1, <3>1, <4>2, <4>3
    <3> QED
      BY <3>1, <3>2, <3>3
  <2> QED
    BY <2>1 DEF Settled, AnsweredOnce
<1> QED
  BY <1>3, <1>4, <1>5, <1>6 DEF PlaceInv

\* A step that leaves the runs alone: a message comes to the queue from its
\* sender, or goes back to it.
LEMMA QueueMoves ==
  ASSUME TypeInv, PlaceInv,
         UNCHANGED <<kind, runs, fates>>,
         IsInjective(queue'),
         \A m \in Message :
           /\ m \in Queued' => m \in Queued \/ sender[m] # "done"
           /\ sender'[m] # "done" =>
                m \notin Queued' /\ (sender[m] # "done" \/ m \in Queued)
           /\ sender'[m] = "done" =>
                \/ m \in Queued'
                \/ sender[m] = "done" /\ m \notin Queued
  PROVE  PlaceInv'
<1>1. \A s \in Run : With(s)' = With(s) /\ Mine(s)' = Mine(s)
  BY DEF With, Mine, RunAt, runs
<1>2. \A s \in Run : With(s) \subseteq Mine(s)
  BY DEF Mine
<1>3. UNCHANGED <<answered, gone, inbox>> /\ answered \subseteq Message
  BY DEF fates, runs, TypeInv, TypeOK
<1>4. Apart'
  BY <1>1, <1>3 DEF PlaceInv, Apart, Unsent
<1>5. Unsent'
  BY <1>1 DEF PlaceInv, Apart, Unsent
<1>6. Accounted'
  BY <1>1, <1>3 DEF PlaceInv, Accounted
<1>7. Settled'
  BY <1>1, <1>3 DEF PlaceInv, Settled, AnsweredOnce
<1> QED
  BY <1>4, <1>5, <1>6, <1>7 DEF PlaceInv

\* A run gets a message from its sender.
LEMMA RunGets ==
  ASSUME TypeInv, PlaceInv, NEW r \in Run, NEW x \in Message,
         sender[x] # "done", sender' = [sender EXCEPT ![x] = "done"],
         UNCHANGED <<kind, queue, fates>>,
         \A s \in Run \ {r} : With(s)' = With(s) /\ Mine(s)' = Mine(s),
         \A s \in Run : IsInjective(inbox'[s]),
         \A m \in Message : /\ m \in Mine(r)' => m \in Mine(r) \cup {x}
                            /\ m \in With(r)' <=> m \in With(r) \cup {x}
  PROVE  PlaceInv'
<1>1. /\ UNCHANGED <<answered, gone, Queued>> /\ answered \subseteq Message
      /\ sender \in [Message -> SenderPoints]
  BY DEF fates, Queued, TypeInv, TypeOK
<1>2. sender'[x] = "done" /\ \A m \in Message \ {x} : sender'[m] = sender[m]
  BY <1>1
<1>3. x \notin Queued /\ \A s \in Run : x \notin Mine(s)
  BY DEF PlaceInv, Unsent
<1>4. Apart'
  BY <1>1, <1>3 DEF PlaceInv, Apart
<1>5. Unsent'
  BY <1>1, <1>2 DEF PlaceInv, Unsent
<1>6. Accounted'
  BY <1>1, <1>2 DEF PlaceInv, Accounted
<1>7. Settled'
  <2>1. kind = "TaskExecution" => x \notin answered
    BY DEF PlaceInv, Settled
  <2> QED
    BY <1>1, <1>2, <2>1 DEF PlaceInv, Settled, AnsweredOnce
<1> QED
  BY <1>4, <1>5, <1>6, <1>7 DEF PlaceInv

\* At first no message is anywhere.
LEMMA InitPlace == ASSUME Init PROVE PlaceInv
<1>1. /\ queue = <<>> /\ answered = {}
      /\ \A m \in Message : sender[m] = "unsent"
      /\ \A r \in Run : inbox[r] = <<>> /\ hand[r] = None /\ run[r].pc = "free"
  BY DEF Init
<1>2. Queued = {} /\ IsInjective(queue) /\ \A r \in Run : IsInjective(inbox[r])
  BY <1>1, EmptyFacts DEF Queued
<1>3. \A r \in Run : Mine(r) = {None}
  BY <1>1, EmptyFacts DEF Mine, With, RunAt
<1>4. \A m \in Message : \A r \in Run : m \notin Mine(r)
  BY <1>3, NoneAssumption
<1> QED
  BY <1>1, <1>2, <1>4 DEF PlaceInv, Apart, Unsent, Accounted, Settled,
                          AnsweredOnce

\* Senders that queue their message, time passing, and a message that is sent
\* again.
LEMMA QueuePlace ==
  ASSUME TypeInv, PlaceInv, NEW m \in Message,
         Send(m) \/ SendToQueue(m) \/ Enqueue(m)
  PROVE  PlaceInv'
<1>1. /\ sender[m] # "done" /\ m \notin Queued /\ IsInjective(queue)
      /\ queue \in Seq(Message) /\ sender \in [Message -> SenderPoints]
      /\ UNCHANGED <<kind, runs, fates>>
  BY DEF Send, SendToQueue, Enqueue, PlaceInv, Apart, Unsent, TypeInv, TypeOK,
         execution
<1>2. CASE PushBack(m) /\ SenderGoes(m, "done")
  <2>1. Queued' = Queued \cup {m} /\ IsInjective(queue')
    BY <1>1, <1>2, AppendFacts DEF PushBack, Queued
  <2>2. /\ sender'[m] = "done"
        /\ \A x \in Message \ {m} : sender'[x] = sender[x]
    BY <1>1, <1>2 DEF SenderGoes
  <2> QED
    BY <1>1, <2>1, <2>2, QueueMoves DEF PlaceInv, Unsent
<1>3. CASE /\ UNCHANGED waiting
           /\ SenderGoes(m, "gate") \/ SenderGoes(m, "gateq")
  <2>1. UNCHANGED <<queue, Queued>>
    BY <1>3 DEF waiting, Queued
  <2>2. /\ sender'[m] # "done"
        /\ \A x \in Message \ {m} : sender'[x] = sender[x]
    BY <1>1, <1>3 DEF SenderGoes
  <2> QED
    BY <1>1, <2>1, <2>2, QueueMoves DEF PlaceInv, Unsent
<1> QED
  BY <1>2, <1>3 DEF Send, SendToQueue, Enqueue

\* A step that moves no message keeps the invariant.
LEMMA StillPlace ==
  ASSUME TypeInv, PlaceInv, UNCHANGED <<kind, queue, sender, runs, fates>>
  PROVE  PlaceInv'
<1>1. UNCHANGED Queued /\ IsInjective(queue)
  BY DEF Queued, PlaceInv, Apart
<1> QED
  BY <1>1, QueueMoves DEF PlaceInv, Unsent

\* A resume hands the head of the queue to its sender.
LEMMA ResumePlace ==
  ASSUME TypeInv, PlaceInv, Resume
  PROVE  PlaceInv'
<1>1. UNCHANGED <<kind, runs, fates>>
  BY DEF Resume
<1>2. CASE UNCHANGED <<sender, resumed, waiting>>
  BY <1>1, <1>2, StillPlace DEF waiting
<1>3. CASE queue # <<>> /\ SenderGoes(Head(queue), "gate") /\ TakeHead
  <2> DEFINE h == Head(queue)
  <2>1. /\ queue \in Seq(Message) /\ IsInjective(queue)
        /\ sender \in [Message -> SenderPoints]
    BY DEF PlaceInv, Apart, TypeInv, TypeOK
  <2>2. /\ h \in Message /\ Queued = Queued' \cup {h} /\ h \notin Queued'
        /\ IsInjective(queue')
    BY <1>3, <2>1, TailFacts DEF TakeHead, Queued
  <2> HIDE DEF h
  <2>3. sender' = [sender EXCEPT ![h] = "gate"]
    BY <1>3 DEF SenderGoes, h
  <2>4. sender'[h] = "gate" /\ \A x \in Message \ {h} : sender'[x] = sender[x]
    BY <2>1, <2>2, <2>3
  <2> QED
    BY <1>1, <2>2, <2>4, QueueMoves DEF PlaceInv, Unsent
<1> QED
  BY <1>2, <1>3 DEF Resume

\* A message is written to a process that works.
LEMMA WriteStdinPlace ==
  ASSUME TypeInv, PlaceInv, NEW m \in Message, WriteStdin(m)
  PROVE  PlaceInv'
<1>1. /\ sender[m] # "done" /\ sender \in [Message -> SenderPoints]
      /\ UNCHANGED <<kind, queue, run, first, hand, fates>>
  BY DEF WriteStdin, TypeInv, TypeOK, execution, waiting
<1>2. CASE pipe # None /\ Alive(pipe)
  <2>1. PICK r \in Run :
          /\ run[r].pc = "live" /\ inbox[r] \in Seq(Message)
          /\ inbox' = [inbox EXCEPT ![r] = Append(inbox[r], m)]
          /\ sender' = [sender EXCEPT ![m] = "done"]
    BY <1>2 DEF WriteStdin, Alive, SenderGoes, TypeInv, TypeOK
  <2>2. /\ inbox'[r] = Append(inbox[r], m)
        /\ \A s \in Run \ {r} : inbox'[s] = inbox[s]
    BY <2>1 DEF TypeInv, TypeOK
  <2>3. IsInjective(inbox[r]) /\ m \notin Mine(r)
    BY <1>1, <2>1 DEF PlaceInv, Apart, Unsent
  <2>4. /\ ToSet(inbox[r])' = ToSet(inbox[r]) \cup {m}
        /\ IsInjective(inbox'[r])
    BY <2>1, <2>2, <2>3, AppendFacts DEF Mine, With
  <2>5. \A s \in Run : IsInjective(inbox'[s])
    BY <2>2, <2>4 DEF PlaceInv, Apart
  <2>6. \A s \in Run \ {r} : With(s)' = With(s) /\ Mine(s)' = Mine(s)
    BY <1>1, <2>2 DEF With, Mine, RunAt
  <2>7. With(r)' = With(r) \cup {m} /\ Mine(r)' = Mine(r) \cup {m}
    BY <1>1, <2>4 DEF With, Mine, RunAt
  <2> QED
    BY <1>1, <2>1, <2>5, <2>6, <2>7, RunGets
<1>3. CASE ~(pipe # None /\ Alive(pipe))
  <2>1. UNCHANGED <<inbox, Queued>> /\ IsInjective(queue)
    BY <1>1, <1>3 DEF WriteStdin, Queued, PlaceInv, Apart
  <2>2. /\ sender'[m] # "done"
        /\ \A x \in Message \ {m} : sender'[x] = sender[x]
    BY <1>1, <1>3 DEF WriteStdin, SenderGoes
  <2> QED
    BY <1>1, <2>1, <2>2, QueueMoves DEF PlaceInv, Unsent, runs
<1> QED
  BY <1>2, <1>3

\* A message gets a run of its own, or is to be queued.
LEMMA ClaimPlace ==
  ASSUME TypeInv, PlaceInv, NEW m \in Message, Claim(m)
  PROVE  PlaceInv'
<1>1. /\ sender[m] # "done" /\ sender \in [Message -> SenderPoints]
      /\ UNCHANGED <<kind, queue, inbox, hand, fates>>
  BY DEF Claim, TypeInv, TypeOK, execution, waiting
<1>2. CASE UNCHANGED <<owner, first, run>> /\ SenderGoes(m, "append")
  <2>1. UNCHANGED Queued /\ IsInjective(queue)
    BY <1>1 DEF Queued, PlaceInv, Apart
  <2>2. /\ sender'[m] # "done"
        /\ \A x \in Message \ {m} : sender'[x] = sender[x]
    BY <1>1, <1>2 DEF SenderGoes
  <2> QED
    BY <1>1, <1>2, <2>1, <2>2, QueueMoves DEF PlaceInv, Unsent, runs
<1>3. ASSUME NEW r \in Run, RunAt(r, "free"), SenderGoes(m, "done"),
             first' = [first EXCEPT ![r] = m], RunGoes(r, "launch")
      PROVE  PlaceInv'
  <2>1. /\ run'[r].pc = "launch" /\ first'[r] = m /\ run[r].pc = "free"
        /\ \A s \in Run \ {r} : run'[s] = run[s] /\ first'[s] = first[s]
    BY <1>3 DEF RunGoes, RunAt, TypeInv, TypeOK
  <2>2. \A s \in Run \ {r} : With(s)' = With(s) /\ Mine(s)' = Mine(s)
    BY <1>1, <2>1 DEF With, Mine, RunAt
  <2>3. With(r)' = With(r) \cup {m} /\ Mine(r)' = Mine(r) \cup {m}
    BY <1>1, <2>1 DEF With, Mine, RunAt
  <2>4. \A s \in Run : IsInjective(inbox'[s])
    BY <1>1 DEF PlaceInv, Apart
  <2> QED
    BY <1>1, <1>3, <2>2, <2>3, <2>4, RunGets DEF SenderGoes
<1> QED
  BY <1>2, <1>3 DEF Claim

\* A run starts, or fails to.
LEMMA LaunchPlace ==
  ASSUME TypeInv, PlaceInv, NEW r \in Run, Launch(r) \/ LaunchFails(r)
  PROVE  PlaceInv'
<1> DEFINE f == first[r]
<1>1. /\ run[r].pc = "launch" /\ f \in Message /\ hand[r] = None
      /\ inbox[r] = <<>> /\ hand = [hand EXCEPT ![r] = None]
      /\ inbox = [inbox EXCEPT ![r] = <<>>]
      /\ UNCHANGED <<kind, sender, first, hand, answered>>
      /\ answered \subseteq Message
  BY RunFields DEF Launch, LaunchFails, RunAt, TypeInv, TypeOK, execution, fates
<1>2. /\ f \in Mine(r) /\ f \in With(r)
      /\ \A m \in Message : m \in Mine(r) \/ m \in With(r) => m = f
  BY <1>1, EmptyFacts, NoneAssumption DEF Mine, With, RunAt
<1>3. /\ f \notin Queued /\ IsInjective(queue) /\ queue \in Seq(Message)
      /\ kind = "TaskExecution" =>
           f \notin answered /\ \A m \in answered : m \notin Queued
  BY <1>1, <1>2 DEF PlaceInv, Apart, Settled, AnsweredOnce, TypeInv, TypeOK
<1> HIDE DEF f
<1>4. CASE Launch(r)
  <2>1. /\ run'[r].pc = "live" /\ inbox'[r] = <<f>> /\ hand'[r] = None
        /\ \A s \in Run \ {r} : /\ run'[s] = run[s] /\ inbox'[s] = inbox[s]
                                /\ hand'[s] = hand[s]
        /\ UNCHANGED <<queue, Queued, gone>>
    BY <1>1, <1>4 DEF Launch, RunGoes, TypeInv, TypeOK, waiting, fates, Queued,
                      f
  <2>2. With(r)' = {f, None} /\ Mine(r)' = {f, None} /\ IsInjective(inbox'[r])
    BY <1>1, <2>1, SingleFacts DEF With, Mine, RunAt, f
  <2> QED
    BY <1>1, <1>2, <1>3, <2>1, <2>2, NoneAssumption, RunMoves
<1>5. CASE LaunchFails(r)
  <2>1. /\ run'[r].pc = "over" /\ inbox'[r] = <<>> /\ hand'[r] = None
        /\ \A s \in Run \ {r} : /\ run'[s] = run[s] /\ inbox'[s] = inbox[s]
                                /\ hand'[s] = hand[s]
    BY <1>1, <1>5 DEF LaunchFails, TypeInv, TypeOK
  <2>2. With(r)' = {None} /\ Mine(r)' = {None} /\ IsInjective(inbox'[r])
    BY <2>1, EmptyFacts DEF With, Mine, RunAt
  <2>3. /\ IsInjective(queue') /\ gone \subseteq gone'
        /\ \/ Queued' = Queued \cup {f}
           \/ Queued' = Queued /\ f \in gone'
    <3>1. CASE PushFront(f, FALSE) /\ UNCHANGED gone
      BY <1>1, <1>3, <3>1, FrontFacts DEF PushFront, Queued
    <3>2. CASE gone' = gone \cup {f} /\ UNCHANGED waiting
      BY <1>3, <3>2 DEF waiting, Queued
    <3> QED
      BY <1>5, <3>1, <3>2 DEF LaunchFails, f
  <2> QED
    BY <1>1, <1>2, <1>3, <2>1, <2>2, <2>3, NoneAssumption, RunMoves
<1> QED
  BY <1>4, <1>5

\* A run answers.
LEMMA AnswerPlace ==
  ASSUME TypeInv, PlaceInv, NEW r \in Run, Answer(r)
  PROVE  PlaceInv'
<1> DEFINE f == first[r]
           h == Head(inbox[r])
<1>1. /\ run[r].pc = "live" /\ inbox[r] # <<>> /\ inbox[r] \in Seq(Message)
      /\ hand[r] = None /\ answered \subseteq Message
      /\ UNCHANGED <<kind, sender, first, run, hand, gone, queue, Queued>>
  BY RunFields DEF Answer, RunAt, TypeInv, TypeOK, execution, waiting, Queued
<1>2. /\ inbox'[r] = Tail(inbox[r]) /\ answered' = answered \cup {h}
      /\ \A s \in Run \ {r} : inbox'[s] = inbox[s]
  BY DEF Answer, TypeInv, TypeOK
<1>3. IsInjective(inbox[r]) /\ IsInjective(queue)
  BY DEF PlaceInv, Apart
<1>4. /\ h \in Message /\ IsInjective(inbox'[r])
      /\ h \notin ToSet(Tail(inbox[r]))
      /\ ToSet(inbox[r]) = ToSet(Tail(inbox[r])) \cup {h}
  BY <1>1, <1>2, <1>3, TailFacts
<1> HIDE DEF h
<1>5. /\ With(r) = ToSet(inbox[r]) \cup {None} /\ Mine(r) = With(r) \cup {f}
      /\ With(r)' = ToSet(Tail(inbox[r])) \cup {None}
      /\ Mine(r)' = With(r)' \cup {f}
  BY <1>1, <1>2 DEF With, Mine, RunAt
<1>6. h \in Mine(r) /\ h \in With(r) /\ h \notin With(r)'
  BY <1>4, <1>5, NoneAssumption
<1>7. /\ \A m \in Message : ~(m \in Queued /\ m \in Mine(r))
      /\ kind = "TaskExecution" =>
           \A m \in answered : m \notin Queued /\ m \notin With(r)
  BY DEF PlaceInv, Apart, Settled, AnsweredOnce
<1> HIDE DEF f
<1>8. With(r) = With(r)' \cup {h}
  BY <1>4, <1>5
<1> QED
  BY <1>1, <1>2, <1>3, <1>4, <1>5, <1>6, <1>7, <1>8, RunMoves

\* A run's process ends, whatever ends it, and the message it was launched for
\* may be queued once more.
LEMMA EndPlace ==
  ASSUME TypeInv, PlaceInv, NEW r \in Run, run[r].pc \in {"live", "ended"},
         UNCHANGED <<kind, sender, first, hand, answered>>,
         run'[r].pc = "ended", inbox' = [inbox EXCEPT ![r] = <<>>],
         \A s \in Run \ {r} : run'[s] = run[s],
         gone' = gone \cup (ToSet(inbox[r]) \ (answered \cup Queued)),
         \/ UNCHANGED queue
         \/ /\ kind # "TaskExecution" /\ run[r].pc = "live"
            /\ queue' = Append(queue, first[r])
  PROVE  PlaceInv'
<1> DEFINE f == first[r]
<1>1. /\ hand[r] = None
      /\ run[r].pc = "live" => f \in Message
      /\ queue \in Seq(Message) /\ answered \subseteq Message
      /\ inbox'[r] = <<>> /\ \A s \in Run \ {r} : inbox'[s] = inbox[s]
  BY RunFields DEF TypeInv, TypeOK
<1>2. /\ With(r) = ToSet(inbox[r]) \cup {None}
      /\ With(r)' = {None} /\ Mine(r)' = {None} /\ IsInjective(inbox'[r])
      /\ run[r].pc = "live" => f \in Mine(r)
      /\ With(r) \subseteq Mine(r)
  BY <1>1, EmptyFacts DEF With, Mine, RunAt
<1>3. /\ IsInjective(queue)
      /\ \A m \in Message : ~(m \in Queued /\ m \in Mine(r))
      /\ kind = "TaskExecution" => \A m \in answered : m \notin Queued
  BY DEF PlaceInv, Apart, Settled, AnsweredOnce
<1>4. /\ IsInjective(queue')
      /\ \/ Queued' = Queued
         \/ kind # "TaskExecution" /\ f \in Mine(r) /\ Queued' = Queued \cup {f}
  <2>1. CASE UNCHANGED queue
    BY <1>3, <2>1 DEF Queued
  <2>2. CASE /\ kind # "TaskExecution" /\ run[r].pc = "live"
             /\ queue' = Append(queue, f)
    BY <1>1, <1>2, <1>3, <2>2, AppendFacts DEF Queued
  <2> QED
    BY <2>1, <2>2
<1> HIDE DEF f
<1>5. \A m \in Message : m \in Queued \/ m \in With(r) =>
        m \in answered' \cup gone' \cup Queued'
  BY <1>2, <1>4, NoneAssumption
<1> QED
  BY <1>1, <1>2, <1>3, <1>4, <1>5, NoneAssumption, RunMoves

\* What a stopped agent leaves unanswered has its place.
LEMMA StopsPlace ==
  ASSUME TypeInv, PlaceInv, NEW r \in Run, Exit(r) \/ ProviderRefuses(r)
  PROVE  PlaceInv'
<1>1. PICK end \in {"ok", "error"} : Stops(r, end)
  BY DEF Exit, ProviderRefuses
<1>2. /\ run[r].pc = "live"
      /\ UNCHANGED <<kind, sender, first, hand, answered>>
      /\ \A s \in Run \ {r} : run'[s] = run[s]
  BY <1>1 DEF Exit, ProviderRefuses, Stops, RunAt, execution, TypeInv, TypeOK
<1>3. run'[r].pc = "ended"
  BY <1>1 DEF Stops, TypeInv, TypeOK
<1>4. /\ inbox' = [inbox EXCEPT ![r] = <<>>]
      /\ gone' = gone \cup (ToSet(inbox[r]) \ (answered \cup Queued))
  BY <1>1 DEF Stops
<1>5. \/ UNCHANGED queue
      \/ /\ kind # "TaskExecution" /\ run[r].pc = "live"
         /\ queue' = Append(queue, first[r])
  BY <1>2 DEF Exit, ProviderRefuses, Requeues, waiting
<1> QED
  BY <1>2, <1>3, <1>4, <1>5, EndPlace

\* A pause loses what the killed agent had not answered.
LEMMA PausePlace ==
  ASSUME TypeInv, PlaceInv, Pause
  PROVE  PlaceInv'
<1>1. UNCHANGED <<kind, sender, queue, first, hand, answered>>
  BY DEF Pause, waiting
<1>2. CASE UNCHANGED <<run, inbox, gone>>
  BY <1>1, <1>2, StillPlace DEF runs, fates
<1>3. CASE owner # None /\ run[owner].pc \in {"live", "ended"}
  <2>1. PICK r \in Run : owner = r
    BY <1>3 DEF TypeInv, TypeOK
  <2>2. /\ inbox' = [inbox EXCEPT ![r] = <<>>]
        /\ gone' = gone \cup (ToSet(inbox[r]) \ (answered \cup Queued))
    BY <1>3, <2>1 DEF Pause, Killed
  <2>3. run'[r].pc = "ended" /\ \A s \in Run \ {r} : run'[s] = run[s]
    <3>1. PICK end \in {"ok", "error"} :
            run' = [run EXCEPT ![r].cancelled = TRUE, ![r].pc = "ended",
                               ![r].end = IF @ = None THEN end ELSE @]
      BY <1>3, <2>1 DEF Pause, Killed
    <3> QED
      BY <3>1 DEF TypeInv, TypeOK
  <2> QED
    BY <1>1, <1>3, <2>1, <2>2, <2>3, EndPlace
<1> QED
  BY <1>2, <1>3 DEF Pause, Killed

\* What a stop clears off the queue is known to be lost.
LEMMA StopClearsPlace ==
  ASSUME TypeInv, PlaceInv, StopClears
  PROVE  PlaceInv'
<1>1. /\ queue' = <<>> /\ gone' = gone \cup Queued
      /\ UNCHANGED <<kind, sender, answered, runs>>
  BY DEF StopClears, execution
<1>2. Queued' = {} /\ IsInjective(queue')
  BY <1>1, EmptyFacts DEF Queued
<1>3. /\ \A s \in Run : With(s)' = With(s) /\ Mine(s)' = Mine(s)
      /\ UNCHANGED inbox /\ answered \subseteq Message
  BY <1>1 DEF With, Mine, RunAt, runs, TypeInv, TypeOK
<1>4. Apart' /\ Unsent'
  BY <1>1, <1>2, <1>3 DEF PlaceInv, Apart, Unsent
<1>5. Accounted'
  BY <1>1, <1>3 DEF PlaceInv, Accounted
<1>6. Settled'
  BY <1>1, <1>2, <1>3 DEF PlaceInv, Settled, AnsweredOnce
<1> QED
  BY <1>4, <1>5, <1>6 DEF PlaceInv

\* An ending run drops what has waited too long, or only moves on.
LEMMA EndingPlace ==
  ASSUME TypeInv, PlaceInv, NEW r \in Run,
         \/ Unregister(r) \/ ClearPipe(r) \/ AfterSuccess(r) \/ AfterError(r)
         \/ Look(r) \/ LookAgain(r)
  PROVE  PlaceInv'
<1>1. /\ UNCHANGED <<kind, sender, first, inbox, hand, answered>>
      /\ run[r].pc \in {"ended", "unregistered", "cleared", "look", "wait"}
  BY DEF Unregister, ClearPipe, AfterSuccess, AfterError, Look, LookAgain,
         RunAt, execution, fates
<1>2. /\ run'[r].pc \notin {"launch", "live"}
      /\ \A s \in Run \ {r} : run'[s] = run[s]
  <2> DEFINE Moves == {"unregistered", "cleared", "look", "pop", "wait"}
  <2>1. \/ \E p \in Moves : RunGoes(r, p)
        \/ \E end \in Ends : Over(r, end)
    BY Zenon DEF Unregister, ClearPipe, AfterSuccess, AfterError, Look,
                 LookAgain, Ends
  <2>2. CASE \E p \in Moves : RunGoes(r, p)
    BY <2>2 DEF RunGoes, TypeInv, TypeOK
  <2>3. CASE \E end \in Ends : Over(r, end)
    BY <2>3 DEF Over, TypeInv, TypeOK
  <2> QED
    BY <2>1, <2>2, <2>3
<1>3. With(r) = {None} /\ Mine(r) = {None}
      /\ With(r)' = {None} /\ Mine(r)' = {None}
  BY <1>1, <1>2, RunFields, EmptyFacts DEF With, Mine, RunAt
<1>4. /\ IsInjective(queue) /\ IsInjective(inbox[r])
      /\ answered \subseteq Message
      /\ kind = "TaskExecution" => \A m \in answered : m \notin Queued
  BY DEF PlaceInv, Apart, Settled, AnsweredOnce, TypeInv, TypeOK
<1>5. /\ IsInjective(queue') /\ Queued' \subseteq Queued
      /\ gone \subseteq gone' /\ Queued \subseteq gone' \cup Queued'
  <2>1. CASE AfterSuccess(r)
    <3>1. queue \in Seq(Message) /\ queue' = Fresh(queue, old)
          /\ gone' = gone \cup (Queued \cap old)
      BY <2>1 DEF AfterSuccess, TypeInv, TypeOK
    <3>2. Queued' = Queued \ old /\ IsInjective(queue')
      BY <1>4, <3>1, FreshFacts DEF Queued
    <3> QED
      BY <3>1, <3>2
  <2>2. CASE ~AfterSuccess(r)
    BY <1>4, <2>2 DEF Unregister, ClearPipe, AfterError, Look, LookAgain,
                      waiting, fates, Queued
  <2> QED
    BY <2>1, <2>2
<1> QED
  BY <1>1, <1>2, <1>3, <1>4, <1>5, NoneAssumption, RunMoves

\* What a step at the queued messages leaves of the queue and of what the run
\* has in hand.
LEMMA DrainPlace ==
  ASSUME TypeInv, PlaceInv, NEW r \in Run,
         run[r].pc \in {"pop", "hold", "serve"},
         run'[r].pc \notin {"launch", "live"},
         \A s \in Run \ {r} : run'[s] = run[s] /\ hand'[s] = hand[s],
         UNCHANGED <<kind, sender, first, inbox>>,
         IsInjective(queue'),
         Queued' \cup {hand'[r]} \subseteq Queued \cup {hand[r], None},
         hand'[r] # None => hand'[r] \notin Queued',
         Queued \cup {hand[r]}
           \subseteq answered' \cup gone' \cup Queued' \cup {hand'[r], None},
         answered \subseteq answered', gone \subseteq gone',
         answered' \subseteq Message,
         \A m \in answered' : \/ m \in answered
                              \/ m = hand[r] /\ m # hand'[r] /\ m \notin Queued'
  PROVE  PlaceInv'
<1> DEFINE h == hand'[r]
<1>1. inbox[r] = <<>> /\ inbox'[r] = <<>>
  BY RunFields
<1>2. /\ With(r) = {hand[r]} /\ Mine(r) = {hand[r]}
      /\ With(r)' = {h} /\ Mine(r)' = {h} /\ IsInjective(inbox'[r])
  BY <1>1, EmptyFacts DEF With, Mine, RunAt
<1> HIDE DEF h
<1>3. /\ None \notin Message /\ Queued \subseteq Message
      /\ kind = "TaskExecution" =>
           \A m \in answered : m \notin Queued /\ m # hand[r]
  BY <1>2, NoneAssumption, ToSetFacts
     DEF PlaceInv, Settled, AnsweredOnce, TypeInv, TypeOK, Queued
<1>4. \A m \in Message :
        /\ m \in Queued' \/ m = h => m \in Queued \/ m = hand[r]
        /\ ~(m \in Queued' /\ m = h)
        /\ m \in Queued \/ m = hand[r] =>
             m \in answered' \cup gone' \cup Queued' \/ m = h
        /\ m \in answered' => m \in answered \/ m = hand[r]
        /\ kind = "TaskExecution" /\ m \in answered' =>
             m \notin Queued' /\ m # h
  BY <1>3 DEF h
<1>5. \A m \in Message :
        /\ (m \in With(r) <=> m = hand[r]) /\ (m \in Mine(r) <=> m = hand[r])
        /\ (m \in With(r)' <=> m = h) /\ (m \in Mine(r)' <=> m = h)
  BY <1>2
<1> QED
  BY <1>1, <1>2, <1>4, <1>5, RunMoves

\* Such a step is one of its run.
LEMMA DrainFrame ==
  ASSUME TypeInv, PlaceInv, NEW r \in Run,
         Pop(r) \/ Hold(r) \/ Serve(r) \/ ServeFails(r) \/ ServeRefused(r)
  PROVE  /\ run[r].pc \in {"pop", "hold", "serve"}
         /\ run'[r].pc \notin {"launch", "live"}
         /\ \A s \in Run \ {r} : run'[s] = run[s] /\ hand'[s] = hand[s]
         /\ UNCHANGED <<kind, sender, first, inbox>>
         /\ queue \in Seq(Message) /\ IsInjective(queue)
         /\ answered \subseteq Message
         /\ hand[r] # None => hand[r] \in Message /\ hand[r] \notin Queued
<1>1. /\ run \in [Run -> RunRec] /\ hand \in [Run -> Message \cup {None}]
      /\ queue \in Seq(Message) /\ answered \subseteq Message
  BY DEF TypeInv, TypeOK, RunRec
<1>2. /\ \/ \E p \in {"look", "hold", "pop"} : RunGoes(r, p)
         \/ Over(r, "error")
         \/ run' = [run EXCEPT ![r].pc = "serve", ![r].served = TRUE]
      /\ \/ UNCHANGED hand
         \/ Drops(r)
         \/ hand' = [hand EXCEPT ![r] = Head(queue)]
      /\ run[r].pc \in {"pop", "hold", "serve"}
      /\ UNCHANGED <<kind, sender, first, inbox>>
  BY DEF Pop, Hold, Serve, ServeFails, ServeRefused, RunAt, execution
<1>3. \A s \in Run \ {r} : hand'[s] = hand[s]
  BY <1>1, <1>2 DEF Drops
<1>4. /\ run'[r].pc \notin {"launch", "live"}
      /\ \A s \in Run \ {r} : run'[s] = run[s]
  <2>1. CASE \E p \in {"look", "hold", "pop"} : RunGoes(r, p)
    BY <1>1, <2>1 DEF RunGoes, RunRec
  <2>2. CASE Over(r, "error")
    BY <1>1, <2>2 DEF Over, RunRec
  <2>3. CASE run' = [run EXCEPT ![r].pc = "serve", ![r].served = TRUE]
    BY <1>1, <2>3 DEF RunRec
  <2> QED
    BY <1>2, <2>1, <2>2, <2>3
<1>5. hand[r] # None => hand[r] \in Message /\ hand[r] \notin Queued
  BY <1>1 DEF PlaceInv, Apart, Mine, With
<1>6. IsInjective(queue)
  BY DEF PlaceInv, Apart
<1> QED
  BY <1>1, <1>2, <1>3, <1>4, <1>5, <1>6

\* The message taken off the queue is in the hand of its run.
LEMMA PopPlace ==
  ASSUME TypeInv, PlaceInv, NEW r \in Run, Pop(r)
  PROVE  PlaceInv'
<1>1. /\ hand[r] = None /\ UNCHANGED <<answered, gone>>
  BY RunFields DEF Pop, RunAt, fates
<1>2. CASE queue = <<>>
  <2>1. UNCHANGED <<queue, hand, Queued>>
    BY <1>2 DEF Pop, waiting, Queued
  <2> QED
    BY <1>1, <2>1, DrainFrame, DrainPlace
<1>3. CASE queue # <<>>
  <2> DEFINE h == Head(queue)
  <2>1. hand' = [hand EXCEPT ![r] = h] /\ queue' = Tail(queue)
    BY <1>3 DEF Pop, TakeHead
  <2>2. hand'[r] = h
    BY <2>1 DEF TypeInv, TypeOK
  <2>3. /\ Queued = Queued' \cup {h} /\ h \notin Queued'
        /\ IsInjective(queue')
    BY <1>3, <2>1, DrainFrame, TailFacts DEF Queued
  <2> HIDE DEF h
  <2> QED
    BY <1>1, <2>2, <2>3, DrainFrame, DrainPlace
<1> QED
  BY <1>2, <1>3

\* What was taken is put back, dropped with the queue, or kept to be served.
LEMMA HoldPlace ==
  ASSUME TypeInv, PlaceInv, NEW r \in Run, Hold(r)
  PROVE  PlaceInv'
<1> DEFINE h == hand[r]
<1>1. h \in Message /\ h # None /\ UNCHANGED answered
  BY RunFields, NoneAssumption DEF Hold, RunAt
<1>2. Drops(r) => hand'[r] = None
  BY DEF Drops, TypeInv, TypeOK
<1> HIDE DEF h
<1>3. CASE PushFront(h, FALSE) /\ Drops(r) /\ UNCHANGED gone
  <2>1. Queued' = Queued \cup {h} /\ IsInjective(queue')
    BY <1>1, <1>3, DrainFrame, FrontFacts DEF PushFront, Queued, h
  <2> QED
    BY <1>1, <1>2, <1>3, <2>1, DrainFrame, DrainPlace DEF h
<1>4. CASE /\ gone' = gone \cup {h} \cup Queued /\ Drops(r)
           /\ queue' = <<>>
  <2>1. Queued' = {} /\ IsInjective(queue')
    BY <1>4, EmptyFacts DEF Queued
  <2> QED
    BY <1>1, <1>2, <1>4, <2>1, DrainFrame, DrainPlace DEF h
<1>5. CASE UNCHANGED <<waiting, hand, gone>>
  <2>1. UNCHANGED <<queue, Queued, hand>>
    BY <1>5 DEF waiting, Queued
  <2> QED
    BY <1>1, <1>5, <2>1, DrainFrame, DrainPlace DEF h
<1> QED
  BY <1>3, <1>4, <1>5 DEF Hold, h

\* A message that is served, or fails to be, leaves the hand of the run.
LEMMA ServePlace ==
  ASSUME TypeInv, PlaceInv, NEW r \in Run,
         Serve(r) \/ ServeFails(r) \/ ServeRefused(r)
  PROVE  PlaceInv'
<1> DEFINE h == hand[r]
<1>1. h \in Message /\ h # None /\ hand'[r] = None
  BY RunFields, NoneAssumption DEF Serve, ServeFails, ServeRefused, RunAt,
                                   Drops, TypeInv, TypeOK
<1> HIDE DEF h
<1>2. CASE Serve(r)
  <2>1. /\ UNCHANGED <<queue, Queued, gone>>
        /\ answered' = answered \cup {h}
    BY <1>2 DEF Serve, waiting, Queued, h
  <2> QED
    BY <1>1, <1>2, <2>1, DrainFrame, DrainPlace DEF h
<1>3. CASE ServeFails(r)
  <2>1. /\ UNCHANGED <<queue, Queued, answered>> /\ gone' = gone \cup {h}
    BY <1>3 DEF ServeFails, waiting, Queued, h
  <2> QED
    BY <1>1, <1>3, <2>1, DrainFrame, DrainPlace DEF h
<1>4. CASE ServeRefused(r)
  <2>1. queue' = <<h>> \o queue /\ UNCHANGED <<answered, gone>>
    BY <1>4 DEF ServeRefused, PushFront, fates, h
  <2>2. Queued' = Queued \cup {h} /\ IsInjective(queue')
    BY <1>1, <1>4, <2>1, DrainFrame, FrontFacts DEF Queued, h
  <2> QED
    BY <1>1, <1>4, <2>1, <2>2, DrainFrame, DrainPlace DEF h
<1> QED
  BY <1>2, <1>3, <1>4

\* Every step keeps the invariant.
LEMMA NextPlace ==
  ASSUME TypeInv, PlaceInv, [Next]_vars
  PROVE  PlaceInv'
<1>1. CASE UNCHANGED vars \/ Age \/ Leave
  <2>1. UNCHANGED <<kind, queue, sender, runs, fates>>
    BY <1>1 DEF Age, Leave, vars, execution, waiting
  <2> QED
    BY <2>1, StillPlace
<1> QED
  BY <1>1, QueuePlace, ResumePlace, WriteStdinPlace, ClaimPlace, LaunchPlace,
     AnswerPlace, StopsPlace, PausePlace, StopClearsPlace, EndingPlace,
     PopPlace, HoldPlace, ServePlace DEF Next, Sends, Ending

\* Types and places together are inductive.
LEMMA PlaceInvariant == Spec => [](TypeInv /\ PlaceInv)
<1>1. Init => TypeInv /\ PlaceInv
  BY InitType, InitPlace
<1>2. TypeInv /\ PlaceInv /\ [Next]_vars => (TypeInv /\ PlaceInv)'
  BY NextType, NextPlace
<1> QED
  BY <1>1, <1>2, PTL DEF Spec

\* Whatever senders, ends of runs, pauses and resumes do to the queue, the
\* stdin and the registry entry in whatever order, a message whose sender has
\* returned is answered, known to be lost or in exactly one place: no run takes
\* what another has, and no message is forgotten.
THEOREM OnePlace == Spec => []InOnePlace
<1>1. TypeInv /\ PlaceInv => InOnePlace
  <2> SUFFICES ASSUME TypeInv, PlaceInv PROVE InOnePlace
    OBVIOUS
  <2>1. ASSUME NEW m \in Message
        PROVE  LET holders == {r \in Run : m \in With(r)} IN
               /\ Cardinality(holders) <= 1
               /\ m \in Queued => holders = {}
               /\ sender[m] = "done" =>
                    m \in answered \cup gone \cup Queued \/ holders # {}
    <3> DEFINE holders == {r \in Run : m \in With(r)}
    <3>1. \A r \in holders : m \in Mine(r)
      BY DEF Mine
    <3>2. Cardinality(holders) <= 1
      <4>1. CASE holders = {}
        BY <4>1, FS_EmptySet
      <4>2. CASE holders # {}
        <5>1. PICK r \in holders : TRUE
          BY <4>2
        <5>2. holders = {r}
          BY <3>1, <5>1 DEF PlaceInv, Apart
        <5>3. Cardinality(holders) = 1
          <6> HIDE DEF holders
          <6> QED
            BY <5>2, FS_Singleton
        <5> QED
          BY <5>3
      <4> QED
        BY <4>1, <4>2
    <3>3. m \in Queued => holders = {}
      BY <3>1 DEF PlaceInv, Apart
    <3>4. sender[m] = "done" =>
            m \in answered \cup gone \cup Queued \/ holders # {}
      BY DEF PlaceInv, Accounted
    <3> QED
      BY <3>2, <3>3, <3>4
  <2> QED
    BY <2>1 DEF InOnePlace, PlaceInv, Apart
<1> QED
  BY <1>1, PlaceInvariant, PTL

\* A message that a task's agent has answered is never on its way again: it is
\* not queued, not in a run's hands, and not written to a process.
THEOREM NoSecondAnswer == Spec => []AnsweredOnce
<1>1. PlaceInv => AnsweredOnce
  BY DEF PlaceInv, Settled
<1> QED
  BY <1>1, PlaceInvariant, PTL

=============================================================================
