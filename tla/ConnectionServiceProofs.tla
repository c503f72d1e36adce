------------------------ MODULE ConnectionServiceProofs ------------------------
(***************************************************************************)
(* A connection whose socket breaks only when the server closes its side   *)
(* serves its tasks as RequestService says, for every set of tasks: the    *)
(* safety part of ImplementsService, step by step.                         *)
(***************************************************************************)
EXTENDS ConnectionService, ConnectionProofs

(***************************************************************************)
(* The hypothesis is what the code needs and no more than the runs have    *)
(* shown.  disconnect() and destroy() drop the socket under tasks that     *)
(* wait (runs DisconnectCloses and DestroyLosesTask), so do a reset and a  *)
(* fatal error; Queue.abort cannot tell an ExecuteTask that the server has *)
(* closed its side (run QueuedExecuteCrashes); and a packet that is too    *)
(* large leaves its receive function behind.                               *)
(***************************************************************************)
Reliable ==
  /\ Disconnects = {} /\ TooLarge = {} /\ Unwritable = {}
  /\ ~UserDestroys /\ Faults \cap {"reset", "fatal"} = {}
  /\ Executes = {} \/ "fin" \notin Faults

(***************************************************************************)
(* Calm says of a reliable connection what the right to send says only of  *)
(* an open one: when the socket has gone nothing is left to be served but  *)
(* the callback that is due.                                               *)
(***************************************************************************)
Calm ==
  ~crashed =>
    IF sock = "open"
    THEN /\ hasQueue
         /\ receive # "none" => wire = <<receive>>
         /\ emitting # <<>> => ~busy
    ELSE queue = <<>> /\ receive = "none" /\ gaps = {} /\ due.to \notin Executes

Inv == TypeOK /\ IInv /\ OnceInv /\ Calm

-----------------------------------------------------------------------------
(* The state of the service *)

Open == hasQueue /\ ReadyState # "closed"

\* The sequence that holds the one element of S, if it has any.
TheOne(S) == IF S = {} THEN <<>> ELSE <<CHOOSE t \in S : TRUE>>

Outstanding == TheOne(Served) \o queue

Settled == {t \in Tasks : calls[t] > 0}

\* The sequence of a set of at most one element.
LEMMA OneOf == TheOne({}) = <<>> /\ \A t : TheOne({t}) = <<t>>
BY DEF TheOne

\* readyState is "closed" unless the socket is open and the state exists.
LEMMA OpenIs == TypeOK /\ IInv => (Open <=> hasQueue /\ sock = "open")
BY DEF TypeOK, IInv, Open, ReadyState

\* So it is after a step.
LEMMA OpenWillBe == TypeOK' /\ IInv' => (Open' <=> hasQueue' /\ sock' = "open")
BY DEF TypeOK, IInv, Open, ReadyState

\* The task that is served is the one that has left the queue and was not called back.
LEMMA ServedIs == ASSUME Reliable, OnceInv, ~crashed PROVE Served = {t \in Tasks : Started(t)}
<1> SUFFICES ASSUME NEW t \in Tasks PROVE t \in Served <=> Started(t)
  BY DEF Served
<1>1. OncePerTask(t)
  BY DEF OnceInv, Sendable, Reliable
<1> QED
  BY <1>1 DEF OncePerTask, Served, Started

\* So it is after a step.
LEMMA ServedWillBe == ASSUME Reliable, OnceInv', ~crashed' PROVE Served' = {t \in Tasks : Started(t)'}
<1> SUFFICES ASSUME NEW t \in Tasks PROVE t \in Served' <=> Started(t)'
  BY DEF Served
<1>1. OncePerTask(t)'
  BY DEF OnceInv, Sendable, Reliable
<1> QED
  BY <1>1 DEF OncePerTask, Served, Started

\* A queued task waits: it is not served and was not called back.
LEMMA QueuedWaits ==
  ASSUME Reliable, TypeOK, OnceInv, ~crashed, NEW t \in Elements(queue)
  PROVE  t \in Tasks /\ t \in issued /\ ~Started(t) /\ calls[t] = 0
<1>1. t \in Tasks
  BY DEF Elements, TypeOK
<1>2. OncePerTask(t)
  BY <1>1 DEF OnceInv, Sendable, Reliable
<1> QED
  BY <1>1, <1>2 DEF OncePerTask, Waiting

-----------------------------------------------------------------------------
(* What a step means for the service *)

\* Nothing that the service promises has changed.
LEMMA Stutters ==
  ASSUME Open' <=> Open, Outstanding' = Outstanding, calls' = calls
  PROVE  UNCHANGED Service!serviceVars
<1>1. (hasQueue /\ ReadyState # "closed")' = (hasQueue /\ ReadyState # "closed")
  BY DEF Open
<1>2. (InService \o queue)' = InService \o queue
  BY DEF Outstanding, InService, TheOne
<1>3. {t \in Tasks : calls[t] > 0}' = {t \in Tasks : calls[t] > 0}
  OBVIOUS
<1> QED
  BY <1>1, <1>2, <1>3, Zenon DEF Service!serviceVars

\* The task that is served is answered; the answer may end the service.
LEMMA Answers ==
  ASSUME NEW t \in Tasks, Outstanding = <<t>> \o queue, Outstanding' = queue, queue \in Seq(Tasks),
         Settled' = Settled \cup {t}, Open' => Open
  PROVE  Service!Next
<1>1. Outstanding # <<>> /\ Head(Outstanding) = t /\ Tail(Outstanding) = queue
  OBVIOUS
<1>2. Open' \in {Open, FALSE}
  BY DEF Open
<1>3. Service!Answer
  BY <1>1, <1>2 DEF Service!Answer, Outstanding, TheOne, InService, Settled, Open
<1> QED
  BY <1>3 DEF Service!Next

\* A new request is put behind those that are outstanding.
LEMMA Submits ==
  ASSUME NEW t \in Tasks, Open, Open', t \notin Settled, \A i \in DOMAIN Outstanding : Outstanding[i] # t,
         Outstanding' = Append(Outstanding, t), Settled' = Settled
  PROVE  Service!Next
<1>1. Open' = Open
  BY DEF Open
<1>2. Service!Submit(t)
  BY <1>1 DEF Service!Submit, Service!Fresh, Outstanding, TheOne, InService, Settled, Open
<1> QED
  BY <1>2 DEF Service!Next

\* A closed service answers a new request at once.
LEMMA Refuses ==
  ASSUME NEW t \in Tasks, ~Open, ~Open', t \notin Settled, \A i \in DOMAIN Outstanding : Outstanding[i] # t,
         Outstanding' = Outstanding, Settled' = Settled \cup {t}
  PROVE  Service!Next
<1>1. Open' = Open
  BY DEF Open
<1>2. Service!Refuse(t)
  BY <1>1 DEF Service!Refuse, Service!Fresh, Outstanding, TheOne, InService, Settled, Open
<1> QED
  BY <1>2 DEF Service!Next

\* The queued tasks fail together and the one that is served stays.
LEMMA Breaks ==
  ASSUME ~Open', queue \in Seq(Tasks), queue' = <<>>, Served' = Served, Served \subseteq Tasks,
         Settled' = Settled \cup Elements(queue)
  PROVE  Service!Next
<1> DEFINE s == TheOne(Served)
           k == Len(s)
<1>1. s \in Seq(Tasks) /\ k \in {0, 1} /\ Outstanding = s \o queue /\ Outstanding' = s
  <2>1. s \in Seq(Tasks) /\ k \in {0, 1}
    BY DEF TheOne
  <2>2. Outstanding' = s \o <<>>
    BY DEF Outstanding
  <2> QED
    BY <2>1, <2>2 DEF Outstanding
<1> HIDE DEF s
<1>2. /\ Len(Outstanding) = k + Len(queue) /\ k \in 0..Len(Outstanding) /\ k <= 1
      /\ SubSeq(Outstanding, 1, k) = s
  BY <1>1
<1>3. {Outstanding[i] : i \in (k + 1)..Len(Outstanding)} = Elements(queue)
  <2>1. \A i \in 1..Len(queue) : Outstanding[k + i] = queue[i]
    BY <1>1
  <2>2. DOMAIN queue = 1..Len(queue) /\ Len(queue) \in Nat
    OBVIOUS
  <2>3. \A x \in Elements(queue) : \E i \in (k + 1)..Len(Outstanding) : Outstanding[i] = x
    BY <1>1, <1>2, <2>1, <2>2 DEF Elements
  <2>4. \A i \in (k + 1)..Len(Outstanding) : i - k \in 1..Len(queue) /\ Outstanding[i] = queue[i - k]
    <3> TAKE i \in (k + 1)..Len(Outstanding)
    <3>1. i - k \in 1..Len(queue) /\ k + (i - k) = i
      BY <1>1, <1>2, <2>2
    <3> QED
      BY <2>1, <3>1
  <2> QED
    <3>1. \A x : x \in Elements(queue) <=> \E i \in 1..Len(queue) : queue[i] = x
      BY <2>2 DEF Elements
    <3>2. \A x : (\E i \in (k + 1)..Len(Outstanding) : Outstanding[i] = x) => x \in Elements(queue)
      BY <2>4, <3>1
    <3> QED
      BY <2>3, <3>2
<1>4. Open' = FALSE
  BY DEF Open
<1>5. /\ (InService \o queue) = Outstanding /\ (InService' \o queue') = Outstanding'
  BY DEF InService, Outstanding, TheOne
<1>6. /\ k \in 0..Len(Outstanding) /\ k <= 1 /\ Outstanding' = SubSeq(Outstanding, 1, k)
      /\ Settled' = Settled \cup {Outstanding[i] : i \in (k + 1)..Len(Outstanding)}
  BY <1>1, <1>2, <1>3
<1> HIDE DEF k
<1>7. Service!Break
  <2> DEFINE answered == Outstanding'
             left == Settled'
             q == Outstanding
  <2>1. /\ (InService \o queue) = q /\ (InService \o queue)' = answered
        /\ {t \in Tasks : calls[t] > 0} = Settled /\ {t \in Tasks : calls[t] > 0}' = left
    BY <1>5 DEF Settled
  <2>2. k \in 0..Len(q) /\ k <= 1 /\ answered = SubSeq(q, 1, k)
        /\ left = Settled \cup {q[i] : i \in (k + 1)..Len(q)}
    BY <1>6
  <2>3. (hasQueue /\ ReadyState # "closed")' = FALSE
    BY <1>4 DEF Open
  <2> HIDE DEF answered, left, q
  <2> QED
    BY <2>1, <2>2, <2>3 DEF Service!Break
<1> QED
  BY <1>7 DEF Service!Next

-----------------------------------------------------------------------------
(* What the invariant says in the situations that matter *)

\* A step of the connection is a step of the service, or none.
Moves == Service!Next \/ UNCHANGED Service!serviceVars

\* A connection on which an exception was not caught does nothing any more.
LEMMA NoStepAfterCrash == Next => ~crashed
BY DEF Next, UserStep, HandlerStep, EventStep, FaultStep, Connect, UserDestroy, UserEnqueue,
       UserDisconnect, UserClose, CallbackReturns, DrainListener, TaskReceive, ExecuteReceive,
       AuthReceive, ConnReceive, NextTick, ServerReply, ProofReady, SocketClose, ParametersReady,
       ServerFin, SocketReset, UserRuns, StackEmpty, EventLoop

\* The nextTick queue holds no task: every packet can be written.
LEMMA TicksAreErrors ==
  ASSUME Reliable, Inv, ~crashed
  PROVE  Elements(ticks) \cap Tasks = {} /\ (sock = "open" => ticks = <<>>)
<1>1. Elements(ticks) \cap Tasks = {}
  BY DEF Inv, OnceInv, Sendable, Reliable, OncePerTask
<1>2. ASSUME sock = "open" PROVE ticks = <<>>
  <2>1. CASE auth = "ok" /\ busy
    <3>1. PICK t \in Tasks : InHand(t)
      BY <1>2, <2>1 DEF Inv, IInv, SessionInv
    <3>2. ticks # <<t>>
      <4> SUFFICES ASSUME ticks = <<t>> PROVE FALSE
        OBVIOUS
      <4>1. t \in Elements(ticks)
        BY DEF Elements
      <4> QED
        BY <1>1, <4>1
    <3> QED
      BY <3>1, <3>2 DEF InHand, Pending
  <2> QED
    BY <1>2, <2>1 DEF Inv, IInv, LoginInv, SessionInv, Nothing, Pending, Handshake, TypeOK
<1> QED
  BY <1>1, <1>2

\* An open connection whose queue is idle has nothing to serve.
LEMMA IdleServesNothing ==
  ASSUME Reliable, Inv, ~crashed, sock = "open", ~busy
  PROVE  receive = "none" /\ gaps = {} /\ due.to \notin Tasks
<1>1. "none" \notin Tasks /\ "authenticate" \notin Tasks /\ "connect" \notin Tasks
  BY TaskAssumption DEF Calls
<1>2. LoginInv /\ SessionInv /\ (receive # "none" => wire = <<receive>>)
  BY DEF Inv, IInv, Calm
<1>3. CASE auth = "ok"
  BY <1>1, <1>2, <1>3 DEF SessionInv, Nothing, Pending, NoCall
<1>4. CASE auth # "ok"
  BY <1>1, <1>2, <1>4 DEF Inv, TypeOK, LoginInv, Nothing, Pending, Handshake, NoCall
<1> QED
  BY <1>3, <1>4

\* Until the login has succeeded the queue is not running and no task is served.
LEMMA LoginServesNothing ==
  ASSUME Reliable, Inv, ~crashed, sock = "open", auth # "ok"
  PROVE  ~busy /\ ~running /\ receive = "none" /\ emitting = <<>>
BY DEF Inv, IInv, LoginInv

\* While the callback of a task runs, nothing else is pending.
LEMMA CallbackAlone ==
  ASSUME Reliable, Inv, ~crashed, sock = "open", stack # <<>>
  PROVE  auth = "ok" /\ busy /\ running /\ wire = <<>> /\ gaps = {} /\ due = NoCall /\ receive = "none"
<1>1. LoginInv /\ SessionInv /\ (receive # "none" => wire = <<receive>>)
  BY DEF Inv, IInv, Calm
<1>2. auth = "ok" /\ busy
  BY <1>1 DEF Inv, TypeOK, LoginInv, SessionInv, Nothing, Pending, Handshake
<1>3. PICK t \in Tasks : InHand(t)
  BY <1>1, <1>2 DEF SessionInv
<1> QED
  BY <1>1, <1>2, <1>3 DEF SessionInv, InHand, Pending

\* No task is served when none is collecting parameters, due or expecting a reply.
LEMMA NothingServed ==
  ASSUME Reliable, Inv, ~crashed, gaps = {}, receive = "none", due.to \notin Tasks
  PROVE  Served = {}
<1>1. "none" \notin Tasks
  BY TaskAssumption DEF Calls
<1> QED
  BY <1>1, ServedIs DEF Inv, Started

\* Only one task is served at a time, and only while the queue is busy or the connection has ended.
LEMMA OneServed ==
  ASSUME Reliable, Inv, ~crashed, NEW t \in Served
  PROVE  Served = {t}
<1>1. "none" \notin Tasks /\ "authenticate" \notin Tasks /\ "connect" \notin Tasks
  BY TaskAssumption DEF Calls
<1>2. t \in Tasks /\ Started(t) /\ Served = {u \in Tasks : Started(u)}
  BY ServedIs DEF Inv
<1>3. CASE sock = "open" /\ busy
  <2>1. auth = "ok"
    BY <1>3, LoginServesNothing
  <2>2. PICK u \in Tasks : InHand(u)
    BY <1>3, <2>1 DEF Inv, IInv, SessionInv
  <2>3. receive # "none" => wire = <<receive>>
    BY <1>3 DEF Inv, Calm
  <2>4. \A v \in Tasks : Started(v) => v = u
    BY <1>1, <2>2, <2>3 DEF Started, InHand, Pending, NoCall
  <2> QED
    BY <1>2, <2>4
<1>4. CASE sock = "open" /\ ~busy
  BY <1>1, <1>2, <1>4, IdleServesNothing DEF Started
<1>5. CASE sock # "open"
  <2>1. \A v \in Tasks : Started(v) => v = due.to
    BY <1>1, <1>5 DEF Inv, Calm, Started
  <2> QED
    BY <1>2, <2>1
<1> QED
  BY <1>3, <1>4, <1>5

\* What is outstanding, when nothing is served and when one task is.
LEMMA OutstandingIs ==
  /\ Served = {} => Outstanding = <<>> \o queue
  /\ \A t : Served = {t} => Outstanding = <<t>> \o queue
  /\ Served' = {} => Outstanding' = <<>> \o queue'
  /\ \A t : Served' = {t} => Outstanding' = <<t>> \o queue'
BY OneOf DEF Outstanding

\* A step after which the same tasks are served and queued, on the same socket.
LEMMA Same ==
  ASSUME Reliable, Inv, TypeOK', IInv', ~crashed, hasQueue' = hasQueue, sock' = "open" <=> sock = "open",
         queue' = queue, calls' = calls, Served' = Served
  PROVE  Moves
<1>1. Open' <=> Open
  BY OpenIs, OpenWillBe DEF Inv
<1>2. Outstanding' = Outstanding
  BY DEF Outstanding
<1> QED
  BY <1>1, <1>2, Stutters DEF Moves

\* The same tasks are started.
LEMMA SameStarted ==
  ASSUME Reliable, Inv, OnceInv', ~crashed, ~crashed', \A t \in Tasks : Started(t)' <=> Started(t)
  PROVE  Served' = Served
BY ServedIs, ServedWillBe DEF Inv

\* What is outstanding is a sequence of tasks.
LEMMA OutstandingTyped ==
  /\ TypeOK => Outstanding \in Seq(Tasks)
  /\ TypeOK' => Outstanding' \in Seq(Tasks)
<1>1. \A S : S \subseteq Tasks => TheOne(S) \in Seq(Tasks)
  BY DEF TheOne
<1>2. Served \subseteq Tasks /\ Served' \subseteq Tasks
  BY DEF Served
<1> QED
  BY <1>1, <1>2 DEF Outstanding, TypeOK

\* The tasks that are outstanding are the one that is served and those that are queued.
LEMMA OutstandingTasks ==
  ASSUME NEW S \in SUBSET Tasks, NEW q \in Seq(Tasks)
  PROVE  /\ Elements(TheOne(S) \o q) \subseteq S \cup Elements(q)
         /\ Elements(q) \subseteq Elements(TheOne(S) \o q)
         /\ \A t \in S : S = {t} => t \in Elements(TheOne(S) \o q)
<1>1. CASE S = {}
  <2>1. TheOne(S) \o q = q
    BY <1>1, OneOf
  <2> QED
    BY <1>1, <2>1
<1>2. CASE S # {}
  <2> DEFINE s == CHOOSE t \in S : TRUE
             a == TheOne(S) \o q
  <2>1. s \in S /\ TheOne(S) = <<s>>
    BY <1>2 DEF TheOne
  <2> HIDE DEF s
  <2>2. /\ DOMAIN a = 1..(1 + Len(q)) /\ DOMAIN q = 1..Len(q) /\ Len(q) \in Nat /\ a[1] = s
        /\ \A i \in 1..Len(q) : a[1 + i] = q[i]
    BY <2>1
  <2> HIDE DEF a
  <2>3. \A i \in DOMAIN a : i # 1 => i - 1 \in 1..Len(q) /\ a[i] = q[i - 1]
    <3> SUFFICES ASSUME NEW i \in DOMAIN a, i # 1 PROVE i - 1 \in 1..Len(q) /\ a[i] = q[i - 1]
      OBVIOUS
    <3>1. i - 1 \in 1..Len(q) /\ 1 + (i - 1) = i
      BY <2>2
    <3> QED
      BY <2>2, <3>1
  <2>4. Elements(a) \subseteq S \cup Elements(q)
    BY <2>1, <2>2, <2>3 DEF Elements
  <2>5. Elements(q) \subseteq Elements(a)
    <3>1. \A i \in 1..Len(q) : 1 + i \in DOMAIN a
      BY <2>2
    <3> QED
      BY <2>2, <3>1 DEF Elements
  <2>6. s \in Elements(a)
    BY <2>2 DEF Elements
  <2> QED
    BY <2>1, <2>4, <2>5, <2>6 DEF a
<1> QED
  BY <1>1, <1>2

-----------------------------------------------------------------------------
(* Starting a task *)

\* Task.run on an open connection with nothing pending: its task is the one that is served.
LEMMA RunServes ==
  ASSUME Reliable, NEW t \in Tasks, Run(t), sock = "open", wire = <<>>, gaps = {}, receive = "none",
         ticks = <<>>, emitting' # <<>> => ~busy'
  PROVE  /\ sock' = "open" /\ (receive' # "none" => wire' = <<receive'>>)
         /\ \A u \in Tasks : Started(u)' <=> u = t
<1>0. t # "none" /\ "none" \notin Tasks
  BY TaskAssumption DEF Calls
<1>1. CASE gaps' = gaps \cup {t} /\ due' = NoCall /\ UNCHANGED <<socketVars, msgType, session, receive>>
  BY <1>0, <1>1 DEF Started, NoCall, socketVars
<1>2. CASE due' = [to |-> t, err |-> TRUE] /\ UNCHANGED <<socketVars, msgType, session, receive, gaps>>
  BY <1>0, <1>2 DEF Started, socketVars
<1>3. CASE SendPacket(t) /\ due' = NoCall /\ UNCHANGED gaps
  <2>1. sock' = "open" /\ wire' = <<t>> /\ receive' = t
    BY <1>3 DEF SendPacket, Write
  <2> QED
    BY <1>0, <1>3, <2>1 DEF Started, NoCall
<1> QED
  BY <1>1, <1>2, <1>3 DEF Run, Reliable

\* Queue.dequeue that takes no task changes nothing.
LEMMA DequeueWaits ==
  ASSUME NEW q, NEW b, NEW r, Dequeue(q, b, r), ~MayRun(q, b, r), due = NoCall
  PROVE  queue' = q /\ busy' = b /\ UNCHANGED <<sock, ticks, wire, receive, gaps, due>>
BY DEF Dequeue, socketVars

\* Queue.dequeue that takes one: it is served, and those behind it stay queued.
LEMMA DequeueServes ==
  ASSUME Reliable, Inv, OnceInv', ~crashed, ~crashed', NEW q \in Seq(Tasks), NEW b, NEW r,
         Dequeue(q, b, r), MayRun(q, b, r),
         sock = "open", wire = <<>>, gaps = {}, receive = "none", emitting' = <<>>, hasQueue'
  PROVE  Calm' /\ sock' = "open" /\ Outstanding' = q
<1>1. q # <<>> /\ Head(q) \in Tasks /\ Tail(q) \in Seq(Tasks) /\ q = <<Head(q)>> \o Tail(q)
  BY DEF MayRun
<1>2. queue' = Tail(q) /\ Run(Head(q))
  BY DEF Dequeue
<1>3. ticks = <<>>
  BY TicksAreErrors
<1>4. /\ sock' = "open" /\ (receive' # "none" => wire' = <<receive'>>)
      /\ \A u \in Tasks : Started(u)' <=> u = Head(q)
  BY <1>1, <1>2, <1>3, RunServes
<1>5. Served' = {Head(q)}
  BY <1>1, <1>4, ServedWillBe
<1>6. Outstanding' = q
  BY <1>1, <1>2, <1>5, OutstandingIs
<1> QED
  BY <1>4, <1>6 DEF Calm

-----------------------------------------------------------------------------
(* Calls of user code *)

\* A task that has just been issued is new to the service.
LEMMA NewTask ==
  ASSUME Reliable, Inv, ~crashed, NEW t \in Tasks, t \notin issued
  PROVE  t \notin Settled /\ (\A i \in DOMAIN Outstanding : Outstanding[i] # t)
<1>1. calls[t] = 0 /\ ~Started(t) /\ t \notin Elements(queue)
  BY DEF Inv, OnceInv, Sendable, Reliable, OncePerTask, Waiting
<1>2. t \notin Served
  BY <1>1, ServedIs DEF Inv
<1>3. queue \in Seq(Tasks)
  BY DEF Inv, TypeOK
<1>4. \A i \in DOMAIN Outstanding : Outstanding[i] # t
  <2>1. CASE Served = {}
    <3>1. Outstanding = queue
      BY <1>3, <2>1, OutstandingIs
    <3> QED
      BY <1>1, <3>1 DEF Elements
  <2>2. CASE Served # {}
    <3>1. PICK s : s \in Served
      BY <2>2
    <3>2. s \in Tasks /\ s # t /\ Outstanding = <<s>> \o queue
      BY <1>2, <3>1, OneServed, OutstandingIs DEF Served
    <3> HIDE DEF Outstanding
    <3>3. \A i \in DOMAIN Outstanding : Outstanding[i] = s \/ Outstanding[i] \in Elements(queue)
      <4> TAKE i \in DOMAIN Outstanding
      <4>1. i \in 1..(1 + Len(queue)) /\ DOMAIN queue = 1..Len(queue)
        BY <1>3, <3>2
      <4>2. CASE i = 1
        BY <1>3, <3>2, <4>2
      <4>3. CASE i # 1
        <5>1. i - 1 \in 1..Len(queue) /\ Outstanding[i] = queue[i - 1]
          BY <1>3, <3>2, <4>1, <4>3
        <5> QED
          BY <4>1, <5>1 DEF Elements
      <4> QED
        BY <4>2, <4>3
    <3> QED
      BY <1>1, <3>2, <3>3
  <2> QED
    BY <2>1, <2>2
<1> QED
  BY <1>1, <1>4 DEF Settled

\* Connection.enqueue on an open connection submits the task, on a closed one it refuses it.
LEMMA EnqueueServed ==
  ASSUME Reliable, Inv, TypeOK', IInv', OnceInv', ~crashed, NEW t \in Requests \cup Executes, UserEnqueue(t)
  PROVE  Calm' /\ Moves /\ t \in Settled' \cup Elements(Outstanding')
<1>0. /\ t \in Tasks /\ t \notin issued /\ due = NoCall /\ emitting = <<>> /\ Enqueue(t) /\ ~crashed'
      /\ UNCHANGED <<alive, hasQueue, emitting, stack, auth, crashed>>
  BY DEF UserEnqueue, UserRuns, Tasks
<1>1. t \notin Settled /\ (\A i \in DOMAIN Outstanding : Outstanding[i] # t)
  BY <1>0, NewTask
<1>2. queue \in Seq(Tasks) /\ Pushed(t) \in Seq(Tasks) /\ Pushed(t) = queue \o <<t>> /\ Pushed(t) # <<>>
  <2>1. queue \in Seq(Tasks)
    BY DEF Inv, TypeOK
  <2> QED
    BY <1>0, <2>1, AppendProperties DEF Pushed
<1>3. CASE hasQueue /\ ReadyState # "closed" /\ Dequeue(Pushed(t), busy, running) /\ UNCHANGED calls
  <2>0. Outstanding' = Append(Outstanding, t) => t \in Elements(Outstanding')
    BY <1>0, AppendOnce, OutstandingTyped DEF Inv
  <2>1. Open /\ sock = "open" /\ Settled' = Settled
    BY <1>3, OpenIs DEF Inv, Open, Settled
  <2>2. CASE MayRun(Pushed(t), busy, running)
    <3>1. ~busy /\ running
      BY <2>2 DEF MayRun
    <3>2. auth = "ok" /\ wire = <<>> /\ queue = <<>>
      BY <2>1, <3>1, LoginServesNothing DEF Inv, IInv, SessionInv, Nothing, Pending
    <3>3. receive = "none" /\ gaps = {} /\ due.to \notin Tasks
      BY <2>1, <3>1, IdleServesNothing
    <3>4. Calm' /\ sock' = "open" /\ Outstanding' = Pushed(t)
      BY <1>0, <1>2, <1>3, <2>1, <2>2, <3>2, <3>3, DequeueServes
    <3>5. Outstanding = <<>> /\ Pushed(t) = <<t>>
      BY <3>2, <3>3, NothingServed, OutstandingIs DEF Pushed
    <3>6. Open' /\ Outstanding' = Append(Outstanding, t)
      BY <1>0, <1>3, <3>4, <3>5, OpenWillBe
    <3> QED
      BY <1>0, <1>1, <2>0, <2>1, <3>4, <3>6, Submits DEF Moves
  <2>3. CASE ~MayRun(Pushed(t), busy, running)
    <3>1. queue' = Pushed(t) /\ busy' = busy /\ UNCHANGED <<sock, ticks, wire, receive, gaps, due>>
      BY <1>0, <1>3, <2>3, DequeueWaits
    <3>2. Calm'
      BY <1>0, <2>1, <3>1 DEF Inv, Calm
    <3>3. Served' = Served
      BY <1>0, <3>1, SameStarted DEF Started
    <3>4. Outstanding' = Append(Outstanding, t)
      <4>1. TheOne(Served) \in Seq(Tasks)
        BY DEF TheOne, Served
      <4> QED
        BY <1>0, <1>2, <3>1, <3>3, <4>1 DEF Outstanding, Pushed
    <3>5. Open'
      BY <1>0, <1>3, <2>1, <3>1, OpenWillBe
    <3> QED
      BY <1>0, <1>1, <2>0, <2>1, <3>2, <3>4, <3>5, Submits DEF Moves
  <2> QED
    BY <2>2, <2>3
<1>4. CASE /\ ~hasQueue \/ ReadyState = "closed"
           /\ calls' = Called({t})
           /\ sock' = sock
           /\ UNCHANGED <<ticks, wire, msgType, session, receive, queue, busy, running, gaps, due>>
  <2>1. ~Open /\ ~Open'
    <3>1. ~Open
      BY <1>4 DEF Open
    <3>2. Open' <=> Open
      BY <1>0, <1>4, OpenIs, OpenWillBe DEF Inv
    <3> QED
      BY <3>1, <3>2
  <2>2. Served' = Served
    BY <1>0, <1>4, SameStarted DEF Started
  <2>3. Outstanding' = Outstanding
    BY <1>4, <2>2 DEF Outstanding
  <2>4. Settled' = Settled \cup {t}
    BY <1>0, <1>1, <1>4 DEF Settled, Called, Inv, TypeOK
  <2>5. Calm'
    BY <1>0, <1>4 DEF Inv, Calm
  <2> QED
    BY <1>0, <1>1, <2>1, <2>3, <2>4, <2>5, Refuses DEF Moves
<1>5. t \notin Disconnects
  BY DEF Reliable
<1> QED
  BY <1>0, <1>3, <1>4, <1>5 DEF Enqueue

\* close() of an idle connection ends the service with nothing outstanding.
LEMMA CloseServed ==
  ASSUME Reliable, Inv, TypeOK', IInv', OnceInv', ~crashed, NEW c \in Closes, UserClose(c)
  PROVE  Calm' /\ Moves
<1>0. /\ ~crashed' /\ due = NoCall /\ emitting = <<>>
      /\ UNCHANGED <<wire, receive, hasQueue, queue, busy, gaps, due, emitting, calls, crashed>>
  BY DEF UserClose, UserRuns, stateVars, jsVars, taskVars
<1>1. Served' = Served
  BY <1>0, SameStarted DEF Started
<1>2. CASE UNCHANGED sock
  <2>1. Calm'
    BY <1>0, <1>2 DEF Inv, Calm
  <2> QED
    BY <1>0, <1>1, <1>2, <2>1, Same
<1>3. CASE ReadyState # "closed" /\ Idle /\ sock' = Destroyed(sock)
  <2>1. sock = "open" /\ sock' # "open"
    BY <1>3 DEF Inv, TypeOK, ReadyState, Destroyed
  <2>2. hasQueue /\ queue = <<>> /\ ~busy
    BY <1>3, <2>1 DEF Inv, Calm, Idle
  <2>3. receive = "none" /\ gaps = {} /\ due.to \notin Tasks
    BY <2>1, <2>2, IdleServesNothing
  <2>4. Calm'
    BY <1>0, <2>1, <2>2, <2>3 DEF Calm, Tasks
  <2>5. Elements(queue) = {}
    BY <2>2 DEF Elements
  <2>6. Served \subseteq Tasks /\ queue \in Seq(Tasks) /\ ~Open' /\ Settled' = Settled
    BY <1>0, <2>1, OpenWillBe DEF Served, Inv, TypeOK, Settled
  <2> QED
    BY <1>0, <1>1, <2>2, <2>4, <2>5, <2>6, Breaks DEF Moves
<1> QED
  BY <1>2, <1>3 DEF UserClose

\* connect() sends the first packet of the login and serves no task.
LEMMA ConnectServed ==
  ASSUME Reliable, Inv, TypeOK', IInv', OnceInv', ~crashed, Connect
  PROVE  Calm' /\ Moves
<1>0. /\ ~crashed' /\ sock = "open" /\ sock' = "open" /\ auth # "ok"
      /\ UNCHANGED <<receive, hasQueue, queue, busy, gaps, due, emitting, calls, crashed>>
  BY DEF Connect, UserRuns, Write, queueVars, jsVars, taskVars
<1>1. receive = "none" /\ hasQueue /\ emitting = <<>>
  BY <1>0, LoginServesNothing DEF Inv, Calm
<1>2. Calm'
  BY <1>0, <1>1 DEF Calm
<1>3. Served' = Served
  BY <1>0, SameStarted DEF Started
<1> QED
  BY <1>0, <1>2, <1>3, Same

-----------------------------------------------------------------------------
(* Callbacks *)

\* next(): the task at the front of the queue, which was outstanding, is served.
LEMMA NextServed ==
  ASSUME Reliable, Inv, TypeOK', IInv', OnceInv', ~crashed, CallbackReturns
  PROVE  Calm' /\ Moves
<1>0. /\ ~crashed' /\ due = NoCall /\ emitting = <<>> /\ stack # <<>> /\ queue \in Seq(Tasks)
      /\ UNCHANGED <<alive, hasQueue, calls, auth, crashed>>
  BY DEF CallbackReturns, UserRuns, Inv, TypeOK
<1>1. CASE queue # <<>> /\ Dequeue(queue, FALSE, running) /\ UNCHANGED <<drain, emitting>>
  <2>1. sock = "open"
    BY <1>0, <1>1 DEF Inv, Calm
  <2>2. running /\ wire = <<>> /\ gaps = {} /\ receive = "none" /\ hasQueue
    BY <1>0, <2>1, CallbackAlone DEF Inv, Calm
  <2>3. MayRun(queue, FALSE, running)
    BY <1>1, <2>2 DEF MayRun
  <2>4. Calm' /\ sock' = "open" /\ Outstanding' = queue
    BY <1>0, <1>1, <2>1, <2>2, <2>3, DequeueServes
  <2>5. "none" \notin Tasks
    BY TaskAssumption DEF Calls
  <2>6. Outstanding = queue
    BY <1>0, <2>2, <2>5, NothingServed, OutstandingIs DEF NoCall
  <2>7. Open' <=> Open
    BY <1>0, <2>1, <2>4, OpenIs, OpenWillBe DEF Inv
  <2> QED
    BY <1>0, <2>4, <2>6, <2>7, Stutters DEF Moves
<1>2. CASE /\ queue = <<>> /\ busy' = FALSE
           /\ UNCHANGED <<socketVars, receive, queue, gaps, due>>
  <2>1. UNCHANGED <<sock, wire>>
    BY <1>2 DEF socketVars
  <2>2. Calm'
    BY <1>0, <1>2, <2>1 DEF Inv, Calm
  <2>3. Served' = Served
    BY <1>0, <1>2, SameStarted DEF Started
  <2> QED
    BY <1>0, <1>2, <2>1, <2>2, <2>3, Same
<1> QED
  BY <1>1, <1>2 DEF CallbackReturns

\* The drained queue closes the connection: nothing is outstanding.
LEMMA DrainServed ==
  ASSUME Reliable, Inv, TypeOK', IInv', OnceInv', ~crashed, DrainListener
  PROVE  Calm' /\ Moves
<1>0. /\ ~crashed' /\ due = NoCall /\ emitting # <<>>
      /\ UNCHANGED <<hasQueue, drain, stack, auth, crashed>>
  BY DEF DrainListener
<1>1. Head(emitting) \notin Disconnects
  BY DEF Reliable
<1>2. sock' = Destroyed(sock) /\ UNCHANGED <<ticks, wire, receive, queue, busy, gaps, due, calls>>
  BY <1>1 DEF DrainListener
<1>3. sock' # "open"
  BY <1>2 DEF Destroyed
<1>4. Served' = Served
  BY <1>0, <1>2, SameStarted DEF Started
<1>5. "none" \notin Executes
  BY TaskAssumption DEF Calls, Tasks
<1>6. CASE sock = "open"
  <2>1. ~busy
    BY <1>0, <1>6 DEF Inv, Calm
  <2>2. auth = "ok" /\ queue = <<>>
    BY <1>0, <1>6, <2>1, LoginServesNothing DEF Inv, IInv, SessionInv
  <2>3. receive = "none" /\ gaps = {} /\ due.to \notin Tasks
    BY <1>6, <2>1, IdleServesNothing
  <2>4. Calm'
    BY <1>0, <1>2, <1>3, <1>5, <2>2, <2>3 DEF Calm, NoCall
  <2>5. Elements(queue) = {}
    BY <2>2 DEF Elements
  <2>6. Served \subseteq Tasks /\ queue \in Seq(Tasks) /\ ~Open' /\ Settled' = Settled
    BY <1>2, <1>3, OpenWillBe DEF Served, Inv, TypeOK, Settled
  <2> QED
    BY <1>2, <1>4, <2>2, <2>4, <2>5, <2>6, Breaks DEF Moves
<1>7. CASE sock # "open"
  <2>1. Calm'
    BY <1>2, <1>3, <1>7 DEF Inv, Calm
  <2> QED
    BY <1>0, <1>2, <1>3, <1>4, <1>7, <2>1, Same
<1> QED
  BY <1>6, <1>7

\* The callback of the task that is served answers it.
LEMMA SettleServed ==
  ASSUME Reliable, Inv, OnceInv', ~crashed, ~crashed', NEW t \in Tasks, due.to = t, Settle(t),
         UNCHANGED <<sock, hasQueue, wire, receive, queue, busy, emitting, gaps>>
  PROVE  Calm' /\ ((Open' => Open) => Moves)
<1>1. "none" \notin Tasks
  BY TaskAssumption DEF Calls
<1>2. due' = NoCall /\ calls' = Called({t}) /\ due'.to \notin Tasks
  BY <1>1 DEF Settle, NoCall
<1>3. Calm'
  BY <1>2 DEF Inv, Calm, Tasks
<1>4. Served = {t}
  <2>1. t \in Served
    BY ServedIs DEF Inv, Started
  <2> QED
    BY <2>1, OneServed
<1>5. Served' = {}
  <2>1. \A u \in Tasks : Started(u) => u = t
    BY <1>4, ServedIs DEF Inv
  <2>2. receive # t /\ t \notin gaps
    BY DEF Inv, OnceInv, Sendable, Reliable, OncePerTask, StartedOnce
  <2>3. \A u \in Tasks : ~Started(u)'
    BY <1>1, <1>2, <2>1, <2>2 DEF Started
  <2> QED
    BY <2>3, ServedWillBe
<1>6. queue \in Seq(Tasks)
  BY DEF Inv, TypeOK
<1>7. Outstanding = <<t>> \o queue /\ Outstanding' = queue
  BY <1>4, <1>5, <1>6, OutstandingIs
<1>8. Settled' = Settled \cup {t}
  BY <1>2 DEF Settled, Called, Inv, TypeOK
<1> QED
  BY <1>3, <1>6, <1>7, <1>8, Answers DEF Moves

\* Task.run: the receive function of the task that is served calls it back.
LEMMA ReceiveServed ==
  ASSUME Reliable, Inv, TypeOK', IInv', OnceInv', ~crashed, TaskReceive
  PROVE  Calm' /\ Moves
<1>1. due.to \in Tasks /\ due.to \notin Disconnects /\ Settle(due.to) /\ ~crashed'
  BY DEF TaskReceive, Reliable, Tasks
<1>2. UNCHANGED <<sock, hasQueue, wire, receive, queue, busy, emitting, gaps>>
  BY <1>1 DEF TaskReceive, stateVars, queueVars, taskVars
<1>3. Open' => Open
  BY <1>2, OpenIs, OpenWillBe DEF Inv
<1> QED
  BY <1>1, <1>2, <1>3, SettleServed

\* An ExecuteTask in hand sends its next packet and stays the one that is served.
LEMMA SendsServed ==
  ASSUME Reliable, Inv, TypeOK', IInv', OnceInv', ~crashed, NEW t \in Executes,
         ExecuteSends(t), due.to = t \/ t \in gaps, gaps' = gaps \ {t},
         due' = IF due.to = t THEN NoCall ELSE due,
         UNCHANGED <<hasQueue, queue, busy, emitting, calls>>
  PROVE  Calm' /\ Moves
<1>1. t \in Tasks /\ t \notin Disconnects /\ t # "none" /\ "none" \notin Tasks
  BY TaskAssumption DEF Tasks, Reliable, Calls
<1>2. sock = "open" /\ alive /\ hasQueue
  BY DEF Inv, Calm, IInv
<1>3. t \in Served
  BY <1>1, ServedIs DEF Inv, Started
<1>4. Served = {t}
  BY <1>3, OneServed
<1>5. busy /\ wire = <<>>
  <2>1. busy
    BY <1>1, <1>2, IdleServesNothing
  <2>2. auth = "ok"
    BY <1>2, <2>1, LoginServesNothing
  <2>3. PICK u \in Tasks : InHand(u)
    BY <1>2, <2>1, <2>2 DEF Inv, IInv, SessionInv
  <2>4. receive # t
    BY <1>1 DEF Inv, OnceInv, Sendable, Reliable, OncePerTask, StartedOnce
  <2> QED
    BY <1>1, <2>1, <2>3, <2>4 DEF InHand, Pending, NoCall
<1>6. SendPacket(t) /\ ~crashed'
  BY <1>2 DEF ExecuteSends
<1>7. sock' = "open" /\ wire' = <<t>> /\ receive' = t
  BY <1>2, <1>5, <1>6 DEF SendPacket, Write
<1>8. emitting' = <<>>
  BY <1>2, <1>5 DEF Inv, Calm
<1>9. Calm'
  BY <1>2, <1>7, <1>8 DEF Calm
<1>10. Served' = Served
  <2>1. \A u \in Tasks : Started(u)' <=> u = t
    <3>1. \A u \in Tasks : Started(u) => u = t
      BY <1>4, ServedIs DEF Inv
    <3> QED
      BY <1>1, <1>7, <3>1 DEF Started, NoCall
  <2> QED
    BY <1>1, <1>4, <1>6, <2>1, ServedWillBe
<1> QED
  BY <1>2, <1>7, <1>9, <1>10, Same

\* The reply to a packet of an ExecuteTask answers it or leads to its next packet.
LEMMA ExecuteServed ==
  ASSUME Reliable, Inv, TypeOK', IInv', OnceInv', ~crashed, ExecuteReceive
  PROVE  Calm' /\ Moves
<1> DEFINE t == due.to
<1>1. /\ t \in Executes /\ t \in Tasks /\ t # "none" /\ "none" \notin Tasks
      /\ UNCHANGED <<hasQueue, queue, busy, emitting>>
  BY TaskAssumption DEF ExecuteReceive, Tasks, Calls, queueVars
<1>2. sock = "open" /\ t \notin gaps /\ receive # t
  BY <1>1 DEF Inv, Calm, OnceInv, Sendable, Reliable, OncePerTask, StartedOnce
<1>3. CASE Settle(t) /\ UNCHANGED <<socketVars, msgType, session, receive, gaps, rounds, crashed>>
  <2>1. UNCHANGED <<sock, wire>> /\ ~crashed'
    BY <1>3 DEF socketVars
  <2>2. Open' => Open
    BY <1>1, <2>1, OpenIs, OpenWillBe DEF Inv
  <2> QED
    BY <1>1, <1>3, <2>1, <2>2, SettleServed
<1>4. CASE /\ gaps' = gaps \cup {t} /\ due' = NoCall
           /\ UNCHANGED <<socketVars, msgType, session, receive, stack, calls, rounds, crashed>>
  <2>1. UNCHANGED <<sock, wire>> /\ ~crashed'
    BY <1>4 DEF socketVars
  <2>2. Calm'
    BY <1>1, <1>2, <1>4, <2>1 DEF Inv, Calm
  <2>3. Served' = Served
    BY <1>1, <1>2, <1>4, <2>1, SameStarted DEF Started, NoCall
  <2> QED
    BY <1>1, <1>4, <2>1, <2>2, <2>3, Same
<1>5. CASE ExecuteSends(t) /\ due' = NoCall /\ UNCHANGED <<gaps, stack, calls>>
  <2>1. gaps' = gaps \ {t}
    BY <1>2, <1>5
  <2> QED
    BY <1>1, <1>5, <2>1, SendsServed
<1> QED
  BY <1>3, <1>4, <1>5 DEF ExecuteReceive

\* So does the event that ends the reading of its parameters.
LEMMA ParametersServed ==
  ASSUME Reliable, Inv, TypeOK', IInv', OnceInv', ~crashed, NEW t \in Executes, ParametersReady(t)
  PROVE  Calm' /\ Moves
<1>1. /\ t \in gaps /\ gaps' = gaps \ {t} /\ t \in Tasks /\ due = NoCall /\ due.to # t /\ "none" \notin Tasks
      /\ UNCHANGED <<hasQueue, queue, busy, emitting, calls>>
  BY TaskAssumption DEF ParametersReady, EventLoop, StackEmpty, UserRuns, Tasks, Calls, queueVars, NoCall
<1>2. CASE ExecuteSends(t) /\ UNCHANGED due
  BY <1>1, <1>2, SendsServed
<1>3. CASE /\ due' = [to |-> t, err |-> TRUE]
           /\ UNCHANGED <<socketVars, msgType, session, receive, rounds, crashed>>
  <2>1. UNCHANGED <<sock, wire>> /\ ~crashed'
    BY <1>3 DEF socketVars
  <2>2. sock = "open"
    BY <1>1 DEF Inv, Calm
  <2>3. Calm'
    BY <1>1, <1>3, <2>1, <2>2 DEF Inv, Calm
  <2>4. Served' = Served
    <3>1. \A u \in Tasks : Started(u)' <=> Started(u)
      BY <1>1, <1>3 DEF Started, NoCall
    <3> QED
      BY <2>1, <3>1, SameStarted
  <2> QED
    BY <1>1, <2>1, <2>3, <2>4, Same
<1> QED
  BY <1>2, <1>3 DEF ParametersReady

-----------------------------------------------------------------------------
(* The login *)

\* Building and sending a packet of the login serves no task.
LEMMA HandshakeServed ==
  ASSUME Reliable, Inv, TypeOK', IInv', OnceInv', ~crashed, ~crashed', sock = "open" => auth # "ok",
         sock' = sock \/ Write("connect"), due.to \notin Tasks, due'.to \notin Tasks,
         UNCHANGED <<receive, hasQueue, queue, busy, gaps, emitting, calls>>
  PROVE  Calm' /\ Moves
<1>1. sock' = "open" <=> sock = "open"
  BY DEF Write
<1>2. sock = "open" => receive = "none" /\ hasQueue /\ emitting = <<>>
  BY LoginServesNothing DEF Inv, Calm
<1>3. Calm'
  BY <1>1, <1>2 DEF Inv, Calm, Tasks
<1>4. Served' = Served
  BY SameStarted DEF Started
<1> QED
  BY <1>1, <1>3, <1>4, Same

\* authReceive hands nothing to a task.
LEMMA AuthServed ==
  ASSUME Reliable, Inv, TypeOK', IInv', OnceInv', ~crashed, AuthReceive
  PROVE  Calm' /\ Moves
<1>1. "authenticate" \notin Tasks /\ "none" \notin Tasks
  BY TaskAssumption DEF Calls
<1>2. due.to \notin Tasks /\ due'.to \notin Tasks /\ ~crashed'
  BY <1>1 DEF AuthReceive, NoCall
<1>3. UNCHANGED <<receive, hasQueue, queue, busy, gaps, emitting, calls>>
  BY DEF AuthReceive, queueVars, taskVars
<1>4. sock' = sock \/ Write("connect")
  BY DEF AuthReceive, SendConnect, socketVars
<1>5. sock = "open" => auth # "ok"
  BY DueHandshake DEF AuthReceive, Inv, IInv
<1> QED
  BY <1>2, <1>3, <1>4, <1>5, HandshakeServed

\* Nor does the proof that has been computed, on an open connection or after it has closed.
LEMMA ProofServed ==
  ASSUME Reliable, Inv, TypeOK', IInv', OnceInv', ~crashed, ProofReady
  PROVE  Calm' /\ Moves
<1>1. /\ "none" \notin Tasks /\ due = NoCall /\ auth # "ok"
      /\ UNCHANGED <<receive, hasQueue, queue, busy, gaps, emitting, calls, due, issued>>
  BY TaskAssumption DEF ProofReady, EventLoop, StackEmpty, UserRuns, Calls, queueVars, taskVars, jsVars
<1>2. CASE SendConnect /\ UNCHANGED crashed
  BY <1>1, <1>2, HandshakeServed DEF SendConnect, NoCall
<1>3. CASE crashed' = TRUE /\ UNCHANGED <<socketVars, msgType, hsReceive, auth>>
  <2>1. Served' = Served
    BY <1>1, <1>3 DEF Served, socketVars
  <2>2. UNCHANGED sock
    BY <1>3 DEF socketVars
  <2> QED
    BY <1>1, <1>3, <2>1, <2>2, Same DEF Calm
<1> QED
  BY <1>2, <1>3 DEF ProofReady

\* When the session exists the queue runs: the first waiting task is served.
LEMMA ConnServed ==
  ASSUME Reliable, Inv, TypeOK', IInv', OnceInv', ~crashed, ConnReceive
  PROVE  Calm' /\ Moves
<1>1. /\ "connect" \notin Tasks /\ "none" \notin Tasks /\ due.to = "connect" /\ "connect" \notin Executes
      /\ UNCHANGED <<hasQueue, emitting, issued, calls>>
  BY TaskAssumption DEF ConnReceive, Calls, queueVars, Tasks
<1>2. CASE /\ due' = NoCall
           /\ UNCHANGED <<socketVars, receive, queueVars, gaps>>
  <2>1. UNCHANGED <<sock, wire, ticks, queue, busy>>
    BY <1>2 DEF socketVars, queueVars
  <2>2. Calm'
    BY <1>1, <1>2, <2>1 DEF Inv, Calm, NoCall, Tasks
  <2>3. Served' = Served
    BY <1>1, <1>2, <2>1 DEF Served, NoCall
  <2> QED
    BY <1>1, <2>1, <2>2, <2>3, Same
<1>3. CASE auth' = "ok" /\ Dequeue(queue, busy, TRUE) /\ UNCHANGED <<hasQueue, drain, crashed>>
  <2>1. CASE MayRun(queue, busy, TRUE)
    <3>1. sock = "open" /\ ~busy
      BY <2>1 DEF Inv, Calm, MayRun
    <3>2. wire = <<>> /\ auth # "ok"
      BY <1>1, <3>1, DueHandshake DEF Inv, IInv
    <3>3. receive = "none" /\ gaps = {} /\ due.to \notin Tasks /\ emitting = <<>> /\ hasQueue
      BY <3>1, <3>2, IdleServesNothing, LoginServesNothing DEF Inv, Calm
    <3>4. queue \in Seq(Tasks)
      BY DEF Inv, TypeOK
    <3>5. Calm' /\ sock' = "open" /\ Outstanding' = queue
      <4>1. ~crashed' /\ emitting' = <<>> /\ hasQueue'
        BY <1>1, <1>3, <3>3
      <4> QED
        BY <1>3, <2>1, <3>1, <3>2, <3>3, <3>4, <4>1, DequeueServes
    <3>6. Outstanding = queue
      BY <3>3, <3>4, NothingServed, OutstandingIs
    <3>7. Open' <=> Open
      BY <1>1, <3>1, <3>5, OpenIs, OpenWillBe DEF Inv
    <3> QED
      BY <1>1, <3>5, <3>6, <3>7, Stutters DEF Moves
  <2>2. CASE ~MayRun(queue, busy, TRUE)
    <3>1. queue' = queue /\ busy' = busy /\ due' = NoCall /\ UNCHANGED <<sock, ticks, wire, receive, gaps>>
      BY <1>3, <2>2 DEF Dequeue, socketVars
    <3>2. Calm'
      BY <1>1, <1>3, <3>1 DEF Inv, Calm, NoCall, Tasks
    <3>3. Served' = Served
      BY <1>1, <3>1 DEF Served, NoCall
    <3> QED
      BY <1>1, <3>1, <3>2, <3>3, Same
  <2> QED
    BY <2>1, <2>2
<1> QED
  BY <1>2, <1>3 DEF ConnReceive

-----------------------------------------------------------------------------
(* Events *)

\* The 'error' event of a broken socket finds no task to tell.
LEMMA TickServed ==
  ASSUME Reliable, Inv, TypeOK', IInv', OnceInv', ~crashed, NextTick
  PROVE  Calm' /\ Moves
<1>1. /\ ~crashed' /\ due = NoCall /\ ticks # <<>>
      /\ UNCHANGED <<sock, wire, hasQueue, queue, busy, emitting, gaps, calls, crashed>>
  BY DEF NextTick, StackEmpty, UserRuns, queueVars, taskVars
<1>2. sock # "open" /\ receive = "none" /\ "none" \notin Tasks
  BY <1>1, TicksAreErrors, TaskAssumption DEF Inv, Calm, Calls
<1>3. Head(ticks) \notin Tasks
  <2>1. Head(ticks) \in Elements(ticks)
    BY <1>1, TailOnce DEF Inv, TypeOK
  <2> QED
    BY <2>1, TicksAreErrors
<1>4. due'.to \notin Tasks /\ receive' = "none"
  <2>1. hsReceive \notin Tasks
    BY TaskAssumption DEF Inv, TypeOK, Calls
  <2> QED
    BY <1>2, <1>3, <2>1 DEF NextTick, Receiver
<1>5. Calm'
  BY <1>1, <1>2, <1>4 DEF Inv, Calm, Tasks
<1>6. Served' = Served
  BY <1>1, <1>2, <1>4, SameStarted DEF Started, NoCall
<1> QED
  BY <1>1, <1>5, <1>6, Same

\* The server's reply is handed to the task that is served.
LEMMA ReplyServed ==
  ASSUME Reliable, Inv, TypeOK', IInv', OnceInv', ~crashed, ServerReply
  PROVE  Calm' /\ Moves
<1>1. /\ ~crashed' /\ due = NoCall /\ emitting = <<>> /\ sock = "open" /\ wire # <<>> /\ receive' = "none"
      /\ UNCHANGED <<hasQueue, queue, busy, emitting, gaps, calls, crashed>>
  BY DEF ServerReply, EventLoop, StackEmpty, UserRuns, queueVars, taskVars
<1>2. sock' = "open" /\ due'.to = Receiver
  <2>1. \A p : "fatal" \notin Replies(p)
    BY DEF Replies, Reliable
  <2> QED
    BY <1>1, <2>1 DEF ServerReply
<1>3. hasQueue
  BY <1>1 DEF Inv, Calm
<1>4. Calm'
  BY <1>1, <1>2, <1>3 DEF Calm
<1>5. \A t \in Tasks : Started(t)' <=> Started(t)
  <2>1. "none" \notin Tasks /\ hsReceive \notin Tasks
    BY TaskAssumption DEF Inv, TypeOK, Calls
  <2>2. hsReceive # "none" => receive = "none"
    BY <1>1 DEF Inv, IInv, LoginInv, SessionInv
  <2> QED
    BY <1>1, <1>2, <2>1, <2>2 DEF Started, NoCall, Receiver
<1>6. Served' = Served
  BY <1>1, <1>5, SameStarted
<1> QED
  BY <1>1, <1>2, <1>4, <1>6, Same

\* When the server closes its side the waiting tasks fail together, and the one that is served next.
LEMMA FinServed ==
  ASSUME Reliable, Inv, TypeOK', IInv', OnceInv', ~crashed, ServerFin
  PROVE  Calm' /\ Moves
<1>1. /\ Executes = {} /\ FirstExecute = {} /\ due = NoCall /\ sock = "open" /\ sock' # "open"
      /\ UNCHANGED gaps
  BY DEF ServerFin, Reliable, FirstExecute, EventLoop, StackEmpty, UserRuns, taskVars
<1>2. Told = Elements(queue)
  BY <1>1 DEF Told, Elements
<1>3. /\ hasQueue' = FALSE /\ queue' = <<>> /\ calls' = Called(Elements(queue)) /\ ~crashed'
      /\ due'.to = Receiver /\ receive' = IF hsReceive = "none" THEN "none" ELSE receive
  BY <1>1, <1>2 DEF ServerFin, ClearQueue
<1>4. "none" \notin Tasks /\ hsReceive \notin Tasks
  BY TaskAssumption DEF Inv, TypeOK, Calls
<1>5. hsReceive # "none" => receive = "none"
  BY <1>1 DEF Inv, IInv, LoginInv, SessionInv
<1>6. receive' = "none" /\ gaps' = {}
  BY <1>1, <1>3, <1>5 DEF Inv, TypeOK
<1>7. Calm'
  BY <1>1, <1>3, <1>6 DEF Calm
<1>8. \A t \in Tasks : Started(t)' <=> Started(t)
  BY <1>1, <1>3, <1>4, <1>5, <1>6 DEF Started, NoCall, Receiver
<1>9. Served' = Served /\ Served \subseteq Tasks
  BY <1>3, <1>8, SameStarted DEF Served
<1>10. queue \in Seq(Tasks) /\ Elements(queue) \subseteq Tasks /\ \A t \in Tasks : calls[t] \in Nat
  <2>1. queue \in Seq(Tasks) /\ calls \in [Tasks -> Nat]
    BY DEF Inv, TypeOK
  <2> QED
    BY <2>1 DEF Elements
<1>11. Settled' = Settled \cup Elements(queue)
  <2>1. \A t \in Tasks : calls'[t] = calls[t] + IF t \in Elements(queue) THEN 1 ELSE 0
    BY <1>3 DEF Called
  <2> QED
    BY <1>10, <2>1 DEF Settled
<1>12. ~Open'
  BY <1>3 DEF Open
<1> QED
  BY <1>3, <1>7, <1>9, <1>10, <1>11, <1>12, Breaks DEF Moves

\* _cleanup finds the queue empty: every task was answered before the socket closed.
LEMMA CleanupServed ==
  ASSUME Reliable, Inv, TypeOK', IInv', OnceInv', ~crashed, SocketClose
  PROVE  Calm' /\ Moves
<1>1. /\ due = NoCall /\ sock # "open" /\ sock' # "open" /\ receive' = "none"
      /\ UNCHANGED <<due, gaps, emitting>>
  BY DEF SocketClose, EventLoop, StackEmpty, UserRuns, jsVars, taskVars
<1>2. queue = <<>> /\ receive = "none" /\ gaps = {} /\ due.to \notin Executes
  BY <1>1 DEF Inv, Calm
<1>3. FirstExecute = {} /\ Told = {}
  BY <1>2 DEF FirstExecute, Told
<1>4. queue' = queue /\ calls' = calls /\ ~crashed' /\ hasQueue' = FALSE
  BY <1>2, <1>3 DEF SocketClose, ClearQueue, Called, Inv, TypeOK
<1>5. Calm'
  BY <1>1, <1>2, <1>4 DEF Calm
<1>6. Served' = Served
  BY <1>1, <1>2, <1>4, SameStarted DEF Started
<1>7. Open' <=> Open
  BY <1>1, OpenIs, OpenWillBe DEF Inv
<1>8. Outstanding' = Outstanding
  BY <1>4, <1>6 DEF Outstanding
<1> QED
  BY <1>4, <1>5, <1>7, <1>8, Stutters DEF Moves

-----------------------------------------------------------------------------
(* Every step *)

\* The connection that open() has made is an open service with nothing outstanding.
LEMMA ServiceInit == Reliable /\ Init => Calm /\ Service!Init
<1> SUFFICES ASSUME Init PROVE Calm /\ Service!Init
  OBVIOUS
<1>1. Calm
  BY DEF Init, Calm
<1>2. Served = {}
  BY DEF Init, Served
<1>3. InService \o queue = <<>>
  BY <1>2 DEF Init, InService
<1>4. ReadyState # "closed" /\ hasQueue
  BY DEF Init, ReadyState
<1>5. {t \in Tasks : calls[t] > 0} = {}
  BY DEF Init
<1> QED
  BY <1>1, <1>3, <1>4, <1>5 DEF Service!Init

\* Every action of Connection keeps the connection calm and is a step of the service, or none.
LEMMA ServiceStep ==
  Reliable /\ Inv /\ TypeOK' /\ IInv' /\ OnceInv' /\ [Next]_vars => Calm' /\ Moves
<1> SUFFICES ASSUME Reliable, Inv, TypeOK', IInv', OnceInv', [Next]_vars PROVE Calm' /\ Moves
  OBVIOUS
<1>1. CASE UNCHANGED vars
  <2>1. /\ UNCHANGED <<sock, wire, alive, msgType, session, hasQueue, receive, queue, busy, due, gaps, calls>>
        /\ UNCHANGED <<emitting, crashed, issued, ticks>>
    BY <1>1 DEF vars, socketVars, stateVars, queueVars, jsVars, taskVars
  <2>2. Calm'
    BY <2>1 DEF Inv, Calm
  <2>3. Served' = Served /\ (Open' <=> Open)
    BY <2>1 DEF Served, Open, ReadyState
  <2>4. Outstanding' = Outstanding
    BY <2>1, <2>3 DEF Outstanding
  <2> QED
    BY <2>1, <2>2, <2>3, <2>4, Stutters DEF Moves
<1>2. CASE Next
  <2>0. ~crashed
    BY <1>2, NoStepAfterCrash
  <2>1. ASSUME UserStep PROVE Calm' /\ Moves
    <3>1. ~UserDestroy
      BY DEF UserDestroy, Reliable
    <3>2. ~\E d \in Disconnects : UserDisconnect(d)
      BY DEF Reliable
    <3> QED
      BY <2>0, <2>1, <3>1, <3>2, ConnectServed, EnqueueServed, CloseServed DEF UserStep
  <2>2. ASSUME HandlerStep PROVE Calm' /\ Moves
    BY <2>0, <2>2, NextServed, DrainServed, ReceiveServed, ExecuteServed, AuthServed, ConnServed
       DEF HandlerStep
  <2>3. ASSUME EventStep PROVE Calm' /\ Moves
    BY <2>0, <2>3, TickServed, ReplyServed, ProofServed, CleanupServed, ParametersServed DEF EventStep
  <2>4. ASSUME FaultStep PROVE Calm' /\ Moves
    <3>1. ~SocketReset
      BY DEF SocketReset, Reliable
    <3> QED
      BY <2>0, <2>4, <3>1, FinServed DEF FaultStep
  <2> QED
    BY <1>2, <2>1, <2>2, <2>3, <2>4 DEF Next
<1> QED
  BY <1>1, <1>2

\* Connection.enqueue, Queue.dequeue, Queue.abort and onError together serve the tasks of a
\* reliable connection as RequestService says: one at a time, in the order in which they were
\* made, and the ones that wait when the server closes its side fail together.
THEOREM ServesInOrder ==
  ASSUME Reliable
  PROVE  Spec => Service!Init /\ [][Service!Next]_(Service!serviceVars)
<1>1. Init => Calm /\ Service!Init
  BY ServiceInit
<1>2. Calm /\ (TypeOK /\ IInv) /\ (TypeOK /\ OnceInv) /\ (TypeOK /\ IInv)' /\ (TypeOK /\ OnceInv)' /\ [Next]_vars
        => Calm' /\ [Service!Next]_(Service!serviceVars)
  BY ServiceStep DEF Inv, Moves
<1> QED
  BY <1>1, <1>2, Inductive, OnceInductive, PTL DEF Spec

-----------------------------------------------------------------------------
(***************************************************************************)
(* No task is lost: what user code has issued has been called back, is     *)
(* being served or is queued.  A closed connection serves and queues       *)
(* nothing, so all its tasks have been called back.                        *)
(***************************************************************************)

Accounted == Tasks \cap issued \subseteq Settled \cup Served \cup Elements(queue)

\* An exception that was not caught leaves no task behind on a closed connection.
Frozen == crashed /\ sock = "closed" => queue = <<>> /\ Served = {}

\* The service forgets no request.
LEMMA MovesKeep ==
  ASSUME TypeOK, TypeOK', Moves
  PROVE  Settled \cup Elements(Outstanding) \subseteq Settled' \cup Elements(Outstanding')
<1>1. (InService \o queue) = Outstanding /\ (InService \o queue)' = Outstanding'
  BY DEF Outstanding, InService, TheOne
<1>2. {t \in Tasks : calls[t] > 0} = Settled /\ {t \in Tasks : calls[t] > 0}' = Settled'
  BY DEF Settled
<1>3. Outstanding \in Seq(Tasks) /\ Outstanding' \in Seq(Tasks)
  BY OutstandingTyped
<1> DEFINE p == Outstanding
           q == Outstanding'
           s == Settled
           u == Settled'
<1>4. CASE Service!Answer
  <2>1. p # <<>> /\ u = s \cup {Head(p)} /\ q = Tail(p)
    BY <1>1, <1>2, <1>4 DEF Service!Answer
  <2>2. Elements(p) \subseteq {Head(p)} \cup Elements(Tail(p))
    <3> SUFFICES ASSUME NEW i \in DOMAIN p, i # 1 PROVE p[i] \in Elements(Tail(p))
      BY <1>3 DEF Elements
    <3>1. i - 1 \in DOMAIN Tail(p) /\ Tail(p)[i - 1] = p[i]
      BY <1>3, <2>1
    <3> QED
      BY <3>1 DEF Elements
  <2> QED
    BY <2>1, <2>2
<1>5. CASE Service!Break
  <2>1. PICK k \in 0..Len(p) : q = SubSeq(p, 1, k) /\ u = s \cup {p[i] : i \in (k + 1)..Len(p)}
    BY <1>1, <1>2, <1>5, SMTT(60) DEF Service!Break
  <2>2. ASSUME NEW i \in DOMAIN p PROVE p[i] \in u \cup Elements(q)
    <3>1. CASE i <= k
      <4>1. i \in DOMAIN q /\ q[i] = p[i]
        BY <1>3, <2>1, <2>2, <3>1
      <4> QED
        BY <4>1 DEF Elements
    <3>2. CASE i > k
      BY <1>3, <2>1, <2>2, <3>2
    <3> QED
      BY <1>3, <2>1, <2>2, <3>1, <3>2
  <2> QED
    BY <2>1, <2>2 DEF Elements
<1>6. ASSUME NEW t \in Tasks, Service!Submit(t) PROVE s \cup Elements(p) \subseteq u \cup Elements(q)
  <2>1. q = Append(p, t) /\ u = s
    BY <1>1, <1>2, <1>6 DEF Service!Submit
  <2>2. \A x : x \in Elements(p) => x \in Elements(Append(p, t))
    BY <1>3, AppendOnce
  <2> QED
    BY <2>1, <2>2
<1>7. ASSUME NEW t \in Tasks, Service!Refuse(t) PROVE s \cup Elements(p) \subseteq u \cup Elements(q)
  <2>1. q = p /\ u = s \cup {t}
    BY <1>1, <1>2, <1>7 DEF Service!Refuse
  <2> QED
    BY <2>1
<1>8. CASE UNCHANGED Service!serviceVars
  <2>1. q = p /\ u = s
    BY <1>1, <1>2, <1>8 DEF Service!serviceVars
  <2> QED
    BY <2>1
<1>9. s \cup Elements(p) \subseteq u \cup Elements(q)
  <2>1. CASE \E t \in Tasks : Service!Submit(t) \/ Service!Refuse(t)
    <3>1. PICK t \in Tasks : Service!Submit(t) \/ Service!Refuse(t)
      BY <2>1
    <3> QED
      BY <1>6, <1>7, <3>1
  <2> QED
    BY <1>4, <1>5, <1>8, <2>1 DEF Moves, Service!Next
<1> QED
  BY <1>9

\* Every step keeps account of the tasks.
LEMMA AccountedStep ==
  ASSUME Reliable, Inv, TypeOK', IInv', OnceInv', Accounted, Frozen, [Next]_vars
  PROVE  Accounted' /\ Frozen'
<1>1. CASE UNCHANGED vars
  BY <1>1 DEF vars, socketVars, stateVars, queueVars, jsVars, taskVars, Accounted, Frozen, Settled, Served,
              Elements
<1>2. CASE Next
  <2>0. ~crashed
    BY <1>2, NoStepAfterCrash
  <2>1. Moves /\ TypeOK /\ TypeOK' /\ queue \in Seq(Tasks) /\ queue' \in Seq(Tasks)
    BY ServiceStep DEF Inv, TypeOK
  <2>2. Settled \cup Elements(Outstanding) \subseteq Settled' \cup Elements(Outstanding')
    BY <2>1, MovesKeep
  <2>3. Served \subseteq Tasks /\ Served' \subseteq Tasks
    BY DEF Served
  <2>4. Served \cup Elements(queue) \subseteq Elements(Outstanding)
    BY <2>0, <2>1, <2>3, OneServed, OutstandingTasks DEF Outstanding
  <2>5. Elements(Outstanding') \subseteq Served' \cup Elements(queue')
    BY <2>1, <2>3, OutstandingTasks DEF Outstanding
  <2>6. \A t \in Tasks : t \in issued' /\ t \notin issued => t \in Settled' \cup Elements(Outstanding')
    <3>1. CASE \E t \in Requests \cup Executes : UserEnqueue(t)
      <4>1. PICK t \in Requests \cup Executes : UserEnqueue(t)
        BY <3>1
      <4>2. issued' = issued \cup {t}
        BY <4>1 DEF UserEnqueue
      <4> QED
        BY <2>0, <4>1, <4>2, EnqueueServed
    <3>2. CASE \E c \in Closes : UserClose(c)
      <4>1. PICK c \in Closes : UserClose(c)
        BY <3>2
      <4>2. issued' = issued \cup {c} /\ c \notin Tasks
        BY <4>1, TaskAssumption DEF UserClose
      <4> QED
        BY <4>2
    <3>3. ~\E d \in Disconnects : UserDisconnect(d)
      BY DEF Reliable
    <3>4. CASE Connect \/ UserDestroy \/ HandlerStep \/ EventStep \/ FaultStep
      <4>1. UNCHANGED issued
        <5>1. HandlerStep => UNCHANGED issued
          BY DEF HandlerStep, CallbackReturns, DrainListener, TaskReceive, ExecuteReceive, AuthReceive, ConnReceive
        <5>2. EventStep => UNCHANGED issued
          BY DEF EventStep, NextTick, ServerReply, ProofReady, SocketClose, ParametersReady
        <5>3. FaultStep => UNCHANGED issued
          BY DEF FaultStep, ServerFin, SocketReset
        <5> QED
          BY <3>4, <5>1, <5>2, <5>3 DEF Connect, UserDestroy
      <4> QED
        BY <4>1
    <3> QED
      BY <1>2, <3>1, <3>2, <3>3, <3>4 DEF Next, UserStep
  <2>7. Accounted'
    BY <2>2, <2>4, <2>5, <2>6 DEF Accounted
  <2>8. Frozen'
    <3> SUFFICES ASSUME crashed', sock' = "closed" PROVE queue' = <<>> /\ Served' = {}
      BY DEF Frozen
    <3>1. \A t \in Executes : ~(ExecuteSends(t) /\ (t \in gaps \/ due.to = t))
      <4> SUFFICES ASSUME NEW t \in Executes, ExecuteSends(t), t \in gaps \/ due.to = t PROVE FALSE
        OBVIOUS
      <4>1. sock = "open" /\ alive
        BY <2>0 DEF Inv, Calm, IInv
      <4> QED
        BY <2>0, <4>1 DEF ExecuteSends
    <3>2. "none" \notin Tasks /\ "connect" \notin Tasks
      BY TaskAssumption DEF Calls
    <3>3. /\ ProofReady \/ ConnReceive
          /\ due.to \notin Tasks /\ due'.to \notin Tasks
          /\ UNCHANGED <<sock, ticks, queue, gaps, receive, issued, calls>>
      <4>1. ~UserStep
        BY <2>0 DEF UserStep, Connect, UserDestroy, UserEnqueue, UserDisconnect, UserClose
      <4>2. ~FaultStep
        <5>1. ServerFin => FirstExecute = {}
          BY DEF ServerFin, Reliable, FirstExecute
        <5> QED
          BY <2>0, <5>1 DEF FaultStep, ServerFin, SocketReset
      <4>3. ~(CallbackReturns \/ DrainListener \/ TaskReceive \/ AuthReceive \/ NextTick \/ ServerReply)
        BY <2>0 DEF CallbackReturns, DrainListener, TaskReceive, AuthReceive, NextTick, ServerReply
      <4>4. ~SocketClose
        <5>1. SocketClose => queue = <<>>
          BY <2>0 DEF SocketClose, Inv, Calm
        <5>2. SocketClose => FirstExecute = {}
          BY <5>1 DEF FirstExecute
        <5> QED
          BY <5>2 DEF SocketClose
      <4>5. ~ExecuteReceive /\ ~\E t \in Executes : ParametersReady(t)
        BY <2>0, <3>1 DEF ExecuteReceive, ParametersReady
      <4>6. CASE ProofReady
        <5>1. /\ due = NoCall /\ due' = NoCall
              /\ UNCHANGED <<sock, ticks, queue, gaps, receive, issued, calls>>
          BY <2>0, <4>6 DEF ProofReady, EventLoop, StackEmpty, UserRuns, socketVars, queueVars, jsVars, taskVars
        <5> QED
          BY <3>2, <4>6, <5>1 DEF NoCall
      <4>7. CASE ConnReceive
        <5>1. /\ due.to = "connect" /\ due' = NoCall
              /\ UNCHANGED <<sock, ticks, queue, gaps, receive, issued, calls>>
          BY <2>0, <4>7 DEF ConnReceive, socketVars, queueVars
        <5> QED
          BY <3>2, <4>7, <5>1 DEF NoCall
      <4> QED
        BY <1>2, <4>1, <4>2, <4>3, <4>4, <4>5, <4>6, <4>7 DEF Next, HandlerStep, EventStep
    <3>4. queue = <<>> /\ gaps = {} /\ receive = "none"
      BY <2>0, <3>3 DEF Inv, Calm
    <3>5. Served = {}
      BY <2>0, <3>3, <3>4, NothingServed
    <3>6. Served' = {}
      <4>1. Elements(ticks) \cap Tasks = {}
        BY <2>0, TicksAreErrors
      <4> QED
        BY <3>2, <3>3, <3>4, <4>1 DEF Served, Elements
    <3> QED
      BY <3>3, <3>4, <3>6
  <2> QED
    BY <2>7, <2>8
<1> QED
  BY <1>1, <1>2

\* Connection.js:270, "Connection is closed, outstanding tasks must fail": once the socket of a
\* reliable connection has closed, the callback of every task has been called.
THEOREM ClosedTasksFail ==
  ASSUME Reliable
  PROVE  Spec => []ClosedTasksHaveFailed
<1>1. Init => Calm /\ Accounted /\ Frozen
  <2>1. Init => Accounted /\ Frozen
    BY DEF Init, Accounted, Frozen
  <2> QED
    BY <2>1, ServiceInit
<1>2. Calm /\ Accounted /\ Frozen /\ (TypeOK /\ IInv) /\ (TypeOK /\ OnceInv)
      /\ (TypeOK /\ IInv)' /\ (TypeOK /\ OnceInv)' /\ [Next]_vars
        => Calm' /\ Accounted' /\ Frozen'
  <2> SUFFICES ASSUME Inv, Accounted, Frozen, TypeOK', IInv', OnceInv', [Next]_vars
               PROVE  Calm' /\ Accounted' /\ Frozen'
    BY DEF Inv
  <2>1. Calm'
    BY ServiceStep
  <2>2. Accounted' /\ Frozen'
    BY AccountedStep
  <2> QED
    BY <2>1, <2>2
<1>3. Calm /\ Accounted /\ Frozen /\ (TypeOK /\ IInv) /\ (TypeOK /\ OnceInv) => ClosedTasksHaveFailed
  <2> SUFFICES ASSUME Inv, Accounted, Frozen, sock = "closed", crashed \/ EventLoop,
                      NEW t \in Tasks \cap issued
               PROVE  calls[t] > 0
    BY DEF ClosedTasksHaveFailed, Inv
  <2>1. queue = <<>> /\ Served = {}
    <3>1. CASE crashed
      BY <3>1 DEF Frozen
    <3>2. CASE ~crashed
      <4>1. due = NoCall /\ queue = <<>> /\ gaps = {} /\ receive = "none"
        BY <3>2 DEF EventLoop, StackEmpty, UserRuns, Inv, Calm
      <4>2. due.to \notin Tasks
        BY <4>1, TaskAssumption DEF Calls, NoCall
      <4> QED
        BY <3>2, <4>1, <4>2, NothingServed
    <3> QED
      BY <3>1, <3>2
  <2>2. Elements(queue) = {}
    BY <2>1 DEF Elements
  <2> QED
    BY <2>1, <2>2 DEF Accounted, Settled
<1> QED
  BY <1>1, <1>2, <1>3, Inductive, OnceInductive, PTL DEF Spec
===============================================================================
