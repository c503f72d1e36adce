------------------------------ MODULE Connection ------------------------------
(***************************************************************************)
(* The logical connection of the client (lib/protocol/Connection.js) with  *)
(* the task queue it owns (lib/util/Queue.js) and its anchor physical      *)
(* connection (lib/protocol/PhysicalConnection.js), from the moment open() *)
(* has succeeded until the socket's 'close' event.                         *)
(*                                                                         *)
(* JavaScript runs one callback at a time.  A step of this module is one   *)
(* event handler, one call of the API by user code, or one callback that   *)
(* such a handler makes synchronously; three variables say what the        *)
(* JavaScript engine still has to do before the next event:                *)
(*   due       the `cb(error, reply)` the running handler is about to make *)
(*   emitting  the once('drain') listeners an emit('drain') has yet to run *)
(*   stack     the user callbacks that are running; each returns to the    *)
(*             `next()` of the queue that called it                        *)
(* and `ticks` holds the callbacks queued with process.nextTick, which     *)
(* precede every other event.  While a callback is on the stack, user code *)
(* may call the connection again.                                          *)
(***************************************************************************)
EXTENDS Naturals, Sequences, FiniteSets

CONSTANTS
  Requests,     \* tasks made of one request segment: executeDirect, prepare, commit ...
  Executes,     \* ExecuteTask objects: several round trips, prepared asynchronously
  Disconnects,  \* calls of disconnect(cb)
  Closes,       \* calls of close()
  TooLarge,     \* the requests that do not fit a packet
  Unwritable,   \* the requests whose toBuffer() throws
  AsyncProof,   \* the authentication method computes its proof in the background
  Faults,       \* what may go wrong outside the client
  UserDestroys, \* user code may call destroy(err)
  Orderly,      \* user code enqueues nothing after disconnect()
  MaxRounds     \* bound on the round trips of one ExecuteTask

Tasks == Requests \cup Executes \cup Disconnects
Calls == Tasks \cup Closes
Packets == {"authenticate", "connect"} \cup Tasks

ASSUME TaskAssumption ==
  /\ Requests \cap Executes = {}
  /\ Requests \cap Disconnects = {}
  /\ Executes \cap Disconnects = {}
  /\ Closes \cap Tasks = {}
  /\ Calls \cap {"authenticate", "connect", "none", "error"} = {}
  /\ TooLarge \subseteq Requests
  /\ Unwritable \subseteq Requests \ TooLarge

ASSUME BoundAssumption == MaxRounds \in Nat \ {0}

ASSUME FaultAssumption ==
  Faults \subseteq {"fin", "reset", "sqlerror", "fatal", "autherror", "badproof", "badparam"}

VARIABLES
  sock,      \* the socket: open, ended (FIN received), destroyed, closed
  ticks,     \* process.nextTick queue: "error" events and receive(err) of tasks
  wire,      \* packets written and not yet answered by the server
  alive,     \* _state is defined
  hasQueue,  \* _queue is defined
  msgType,   \* _state.messageType
  session,   \* _state.sessionId # -1
  hsReceive, \* pconn._handshakeReceive
  receive,   \* _state.receive
  queue,     \* _queue.queue
  busy,      \* _queue.busy
  running,   \* _queue.running
  drain,     \* once('drain') listeners of _queue, in order
  emitting,  \* listeners left to run of the drain event being emitted
  due,       \* the callback the running handler makes next
  stack,     \* user callbacks that are running, innermost first
  gaps,      \* ExecuteTasks that are collecting parameters (setImmediate, streams)
  rounds,    \* packets each ExecuteTask has sent
  auth,      \* progress of connect(): none, authenticate, proof, connect, ok, failed
  issued,    \* calls that user code has made
  calls,     \* how often the callback of each task has been called
  crashed    \* an exception reached the event loop

socketVars == <<sock, ticks, wire>>
stateVars  == <<alive, msgType, session, hsReceive, receive>>
queueVars  == <<hasQueue, queue, busy, running, drain>>
jsVars     == <<emitting, due, stack>>
taskVars   == <<gaps, rounds>>
vars == <<socketVars, stateVars, queueVars, jsVars, taskVars, auth, issued, calls, crashed>>

NoCall == [to |-> "none", err |-> FALSE]

TypeOK ==
  /\ sock \in {"open", "ended", "destroyed", "closed"}
  /\ ticks \in Seq({"error"} \cup Tasks)
  /\ wire \in Seq(Packets)
  /\ alive \in BOOLEAN /\ hasQueue \in BOOLEAN
  /\ msgType \in {"none", "AUTHENTICATE", "CONNECT", "DISCONNECT", "other"}
  /\ session \in BOOLEAN
  /\ hsReceive \in {"none", "authenticate", "connect"}
  /\ receive \in {"none"} \cup Tasks
  /\ queue \in Seq(Tasks)
  /\ busy \in BOOLEAN /\ running \in BOOLEAN
  /\ drain \in Seq(Closes \cup Disconnects)
  /\ emitting \in Seq(Closes \cup Disconnects)
  /\ due \in [to : {"none"} \cup Packets, err : BOOLEAN]
  /\ stack \in Seq(Tasks)
  /\ gaps \subseteq Executes
  /\ rounds \in [Executes -> Nat]
  /\ auth \in {"none", "authenticate", "proof", "connect", "ok", "failed"}
  /\ issued \subseteq Calls
  /\ calls \in [Tasks -> Nat]
  /\ crashed \in BOOLEAN

\* The anchor connection has just been registered by open(); connect() has not been called.
Init ==
  /\ sock = "open" /\ ticks = <<>> /\ wire = <<>>
  /\ alive = TRUE /\ msgType = "none" /\ session = FALSE
  /\ hsReceive = "none" /\ receive = "none"
  /\ hasQueue = TRUE /\ queue = <<>> /\ busy = FALSE /\ running = FALSE /\ drain = <<>>
  /\ emitting = <<>> /\ due = NoCall /\ stack = <<>>
  /\ gaps = {} /\ rounds = [t \in Executes |-> 0]
  /\ auth = "none" /\ issued = {} /\ calls = [t \in Tasks |-> 0] /\ crashed = FALSE

-----------------------------------------------------------------------------
(* Helpers *)

Elements(s) == {s[i] : i \in DOMAIN s}

\* Connection.readyState, once the socket exists and the protocol version is known.
ReadyState ==
  CASE ~alive \/ sock # "open" -> "closed"
    [] alive /\ sock = "open" /\ msgType \in {"AUTHENTICATE", "CONNECT"} -> "connecting"
    [] alive /\ sock = "open" /\ msgType = "DISCONNECT" -> "disconnecting"
    [] alive /\ sock = "open" /\ msgType \in {"none", "other"} ->
         IF session THEN "connected" ELSE "disconnected"

\* Faulty variant: the flag busy is read the wrong way round.
IdleWhenWaiting == ~hasQueue \/ (queue # <<>> /\ ~busy)

\* isIdle()
Idle == ~hasQueue \/ (queue = <<>> /\ ~busy)

\* User code runs: no handler is between two of its own statements.
UserRuns == ~crashed /\ due = NoCall /\ emitting = <<>>

\* The JavaScript stack is empty: the next nextTick callback runs.
StackEmpty == UserRuns /\ stack = <<>>

\* The event loop takes the next event.
EventLoop == StackEmpty /\ ticks = <<>>

\* socket.destroy() without an error
Destroyed(s) == IF s = "closed" THEN "closed" ELSE "destroyed"

\* The callback of every task of T is called once more.
Called(T) == [t \in Tasks |-> calls[t] + IF t \in T THEN 1 ELSE 0]

\* Who gets the next reply or socket error: _handshakeReceive || _state.receive
Receiver == IF hsReceive # "none" THEN hsReceive ELSE receive

\* socket.write(): after the server's FIN it destroys the socket with EPIPE, on a
\* destroyed socket it does nothing.
Write(p) ==
  /\ wire' = IF sock = "open" THEN Append(wire, p) ELSE wire
  /\ sock' = IF sock = "ended" THEN "destroyed" ELSE sock
  /\ ticks' = IF sock = "ended" THEN Append(ticks, "error") ELSE ticks

\* Connection.send of a packet of task t that fits.  receive is set first.
SendPacket(t) ==
  /\ msgType' = IF t \in Disconnects THEN "DISCONNECT" ELSE "other"
  /\ receive' = t
  /\ session' = TRUE
  /\ Write(t)

\* Task.run / ExecuteTask.run.  A packet that is too large is reported from inside
\* send(), an exception of send() from a nextTick callback; both leave receive set.
\* An ExecuteTask whose function code or first row is invalid fails at once.
Run(t) ==
  \/ /\ t \in Executes
     /\ gaps' = gaps \cup {t}
     /\ due' = NoCall
     /\ UNCHANGED <<socketVars, msgType, session, receive>>
  \/ /\ t \in Executes /\ "badparam" \in Faults
     /\ due' = [to |-> t, err |-> TRUE]
     /\ UNCHANGED <<socketVars, msgType, session, receive, gaps>>
  \/ /\ t \in TooLarge
     /\ msgType' = "other" /\ receive' = t
     /\ due' = [to |-> t, err |-> TRUE]
     /\ UNCHANGED <<socketVars, session, gaps>>
  \/ /\ t \in Unwritable
     /\ msgType' = "other" /\ receive' = t
     /\ ticks' = Append(ticks, t)
     /\ due' = NoCall
     /\ UNCHANGED <<sock, wire, session, gaps>>
  \/ /\ t \notin Executes \cup TooLarge \cup Unwritable
     /\ SendPacket(t)
     /\ due' = NoCall
     /\ UNCHANGED gaps

\* Faulty variants of the condition in run(): one of its parts is dropped, or the last
\* task is never taken.
MayRunWhenBusy(q, b, r) == r /\ q # <<>>
MayRunWhenPaused(q, b, r) == ~b /\ q # <<>>
MayRunUnlessLast(q, b, r) == r /\ ~b /\ Len(q) > 1

\* run() inside Queue.dequeue: only a running queue that is not busy takes a task.
MayRun(q, b, r) == r /\ ~b /\ q # <<>>

\* Queue.dequeue on the tasks q of a queue whose flags are b and r.
Dequeue(q, b, r) ==
  /\ running' = r
  /\ IF MayRun(q, b, r)
     THEN queue' = Tail(q) /\ busy' = TRUE /\ Run(Head(q))
     ELSE /\ queue' = q /\ busy' = b /\ due' = NoCall
          /\ UNCHANGED <<socketVars, msgType, session, receive, gaps>>

\* Faulty variant: the new task goes to the front.
PushedInFront(t) == <<t>> \o queue

\* Queue.push
Pushed(t) == Append(queue, t)

\* Connection.enqueue: refuse when the connection is closed, else Queue.push.
\* The callback of disconnect() destroys the socket before it calls the user.
Enqueue(t) ==
  \/ /\ hasQueue /\ ReadyState # "closed"
     /\ Dequeue(Pushed(t), busy, running)
     /\ UNCHANGED calls
  \/ /\ ~hasQueue \/ ReadyState = "closed"
     /\ calls' = Called({t})
     /\ sock' = IF t \in Disconnects THEN Destroyed(sock) ELSE sock
     /\ UNCHANGED <<ticks, wire, msgType, session, receive, queue, busy, running, gaps, due>>

-----------------------------------------------------------------------------
(* Calls of user code, at any time: from an event of its own or from a callback *)

UserEnqueue(t) ==
  /\ UserRuns /\ t \notin issued
  /\ Orderly => issued \cap Disconnects = {}
  /\ issued' = issued \cup {t}
  /\ Enqueue(t)
  /\ UNCHANGED <<alive, hsReceive, hasQueue, drain, emitting, stack, rounds, auth, crashed>>

\* disconnect(cb)
UserDisconnect(d) ==
  /\ UserRuns /\ d \notin issued
  /\ issued' = issued \cup {d}
  /\ \/ /\ ReadyState = "closed"
        /\ calls' = Called({d})
        /\ UNCHANGED <<socketVars, msgType, session, receive, queueVars, gaps, due>>
     \/ /\ ReadyState # "closed" /\ Idle
        /\ Enqueue(d)
        /\ UNCHANGED <<hasQueue, drain>>
     \/ /\ ReadyState # "closed" /\ ~Idle
        /\ drain' = Append(drain, d)
        /\ UNCHANGED <<socketVars, msgType, session, receive, hasQueue, queue, busy, running,
                       gaps, due, calls>>
  /\ UNCHANGED <<alive, hsReceive, emitting, stack, rounds, auth, crashed>>

\* close()
UserClose(c) ==
  /\ UserRuns /\ c \notin issued
  /\ issued' = issued \cup {c}
  /\ \/ ReadyState = "closed" /\ UNCHANGED <<sock, drain>>
     \/ ReadyState # "closed" /\ Idle /\ sock' = Destroyed(sock) /\ UNCHANGED drain
     \/ ReadyState # "closed" /\ ~Idle /\ drain' = Append(drain, c) /\ UNCHANGED sock
  /\ UNCHANGED <<ticks, wire, stateVars, hasQueue, queue, busy, running, jsVars, taskVars,
                 auth, calls, crashed>>

\* destroy(err): socket.destroy emits 'error' only when it is given one.
UserDestroy ==
  /\ UserRuns /\ UserDestroys
  /\ sock \in {"open", "ended"}
  /\ sock' = "destroyed"
  /\ \E withError \in BOOLEAN :
        ticks' = IF withError THEN Append(ticks, "error") ELSE ticks
  /\ UNCHANGED <<wire, stateVars, queueVars, jsVars, taskVars, auth, issued, calls, crashed>>

\* connect(options, cb), called from the callback of open(): PhysicalConnection.authenticate
Connect ==
  /\ UserRuns /\ auth = "none" /\ sock = "open"
  /\ auth' = "authenticate"
  /\ msgType' = "AUTHENTICATE"
  /\ hsReceive' = "authenticate"
  /\ Write("authenticate")
  /\ UNCHANGED <<alive, session, receive, queueVars, jsVars, taskVars, issued, calls, crashed>>

-----------------------------------------------------------------------------
(* The synchronous continuations of a handler *)

\* A user callback returns to the receive() of Task.run or the done() of ExecuteTask.run,
\* which calls next(): run the next task, or emit 'drain'.
CallbackReturns ==
  /\ UserRuns /\ stack # <<>>
  /\ stack' = Tail(stack)
  /\ \/ /\ queue # <<>>
        /\ Dequeue(queue, FALSE, running)
        /\ UNCHANGED <<drain, emitting>>
     \/ /\ queue = <<>>
        /\ busy' = FALSE
        /\ emitting' = drain /\ drain' = <<>>
        /\ UNCHANGED <<socketVars, msgType, session, receive, queue, running, gaps, due>>
  /\ UNCHANGED <<alive, hsReceive, hasQueue, rounds, auth, issued, calls, crashed>>

\* One listener of 'drain': closeConnection of close() or enqueueDisconnect of disconnect().
DrainListener ==
  /\ ~crashed /\ due = NoCall /\ emitting # <<>>
  /\ emitting' = Tail(emitting)
  /\ \/ /\ Head(emitting) \in Closes
        /\ sock' = Destroyed(sock)
        /\ UNCHANGED <<ticks, wire, msgType, session, receive, queue, busy, running, gaps, due, calls>>
     \/ /\ Head(emitting) \in Disconnects
        /\ Enqueue(Head(emitting))
  /\ UNCHANGED <<alive, hsReceive, hasQueue, drain, stack, rounds, auth, issued, crashed>>

\* The user callback of task t is called with the reply or the error.
Settle(t) ==
  /\ due' = NoCall
  /\ stack' = <<t>> \o stack
  /\ calls' = Called({t})

\* receive of a request task; the callback of disconnect() destroys the socket first.
TaskReceive ==
  /\ ~crashed /\ due.to \in Requests \cup Disconnects
  /\ Settle(due.to)
  /\ sock' = IF due.to \in Disconnects THEN Destroyed(sock) ELSE sock
  /\ UNCHANGED <<ticks, wire, stateVars, queueVars, emitting, taskVars, auth, issued, crashed>>

\* connection.send of the next packet of an ExecuteTask.  Without _state it throws, and
\* nothing between it and the event loop catches that.
ExecuteSends(t) ==
  \/ alive /\ SendPacket(t) /\ rounds' = [rounds EXCEPT ![t] = @ + 1] /\ UNCHANGED crashed
  \/ ~alive /\ crashed' = TRUE /\ UNCHANGED <<socketVars, msgType, session, receive, rounds>>

\* receive of an ExecuteTask: it ends, or collects the parameters of another packet, or
\* commits or rolls back the transaction it has opened for its packets.
ExecuteReceive ==
  /\ ~crashed /\ due.to \in Executes
  /\ \/ /\ Settle(due.to)
        /\ UNCHANGED <<socketVars, msgType, session, receive, gaps, rounds, crashed>>
     \/ /\ ~due.err /\ rounds[due.to] < MaxRounds
        /\ gaps' = gaps \cup {due.to} /\ due' = NoCall
        /\ UNCHANGED <<socketVars, msgType, session, receive, stack, calls, rounds, crashed>>
     \/ /\ rounds[due.to] > 0 /\ rounds[due.to] < MaxRounds
        /\ ExecuteSends(due.to) /\ due' = NoCall
        /\ UNCHANGED <<gaps, stack, calls>>
  /\ UNCHANGED <<alive, hsReceive, queueVars, emitting, auth, issued>>

\* The callback of manager.initialize: build and send the CONNECT packet.
SendConnect ==
  /\ auth' = "connect"
  /\ msgType' = "CONNECT"
  /\ hsReceive' = "connect"
  /\ Write("connect")

\* authReceive: manager.initialize calls back at once or in a later event.
AuthReceive ==
  /\ ~crashed /\ due.to = "authenticate"
  /\ due' = NoCall
  /\ \/ due.err /\ auth' = "failed" /\ UNCHANGED <<socketVars, msgType, hsReceive>>
     \/ ~due.err /\ AsyncProof /\ auth' = "proof" /\ UNCHANGED <<socketVars, msgType, hsReceive>>
     \/ ~due.err /\ ~AsyncProof /\ SendConnect
  /\ UNCHANGED <<alive, session, receive, queueVars, emitting, stack, taskVars, issued, calls,
                 crashed>>

\* connReceive and the callback of authenticate(): the queue starts with the session.
\* manager.finalize throws when the server's proof is wrong.
ConnReceive ==
  /\ ~crashed /\ due.to = "connect"
  /\ \/ /\ due.err
        /\ auth' = "failed" /\ due' = NoCall
        /\ UNCHANGED <<socketVars, msgType, session, receive, queueVars, gaps, crashed>>
     \/ /\ ~due.err /\ "badproof" \in Faults
        /\ crashed' = TRUE /\ due' = NoCall
        /\ UNCHANGED <<socketVars, msgType, session, receive, queueVars, gaps, auth>>
     \/ /\ ~due.err
        /\ auth' = "ok"
        /\ Dequeue(queue, busy, TRUE)
        /\ UNCHANGED <<hasQueue, drain, crashed>>
  /\ UNCHANGED <<alive, hsReceive, emitting, stack, rounds, issued, calls>>

-----------------------------------------------------------------------------
(* Events of the event loop *)

\* nextTick: the 'error' event (onError hands the error to whoever waits for a reply, or
\* emits 'error') or the receive(err) of a task whose send() has thrown.
NextTick ==
  /\ StackEmpty /\ ticks # <<>>
  /\ ticks' = Tail(ticks)
  /\ \/ /\ Head(ticks) = "error"
        /\ due' = [to |-> Receiver, err |-> Receiver # "none"]
        /\ hsReceive' = "none"
        /\ receive' = IF hsReceive = "none" THEN "none" ELSE receive
     \/ /\ Head(ticks) \in Tasks
        /\ due' = [to |-> Head(ticks), err |-> TRUE]
        /\ UNCHANGED <<hsReceive, receive>>
  /\ UNCHANGED <<sock, wire, alive, msgType, session, queueVars, emitting, stack, taskVars,
                 auth, issued, calls, crashed>>

\* Which replies the server may send to packet p: an SQL error, a fatal error, success.
Replies(p) ==
  {"ok"} \cup (Faults \cap IF p \in Tasks THEN {"sqlerror", "fatal"} ELSE {"autherror", "fatal"})

\* onData and Connection.receive: the reply to the oldest packet.  A fatal error destroys
\* the socket before the callback is called.
ServerReply ==
  /\ EventLoop /\ sock = "open" /\ wire # <<>>
  /\ wire' = Tail(wire)
  /\ \E r \in Replies(Head(wire)) :
        /\ due' = [to |-> Receiver, err |-> r # "ok" /\ Receiver # "none"]
        /\ sock' = IF r = "fatal" THEN "destroyed" ELSE sock
        /\ ticks' = IF r = "fatal" THEN Append(ticks, "error") ELSE ticks
  /\ session' = TRUE
  /\ msgType' = "none"
  /\ hsReceive' = "none"
  /\ receive' = "none"
  /\ UNCHANGED <<alive, queueVars, emitting, stack, taskVars, auth, issued, calls, crashed>>

\* The ExecuteTask t has its parameters and sends a packet, or reading one has failed.
ParametersReady(t) ==
  /\ EventLoop /\ t \in gaps
  /\ gaps' = gaps \ {t}
  /\ \/ ExecuteSends(t) /\ UNCHANGED due
     \/ /\ "badparam" \in Faults
        /\ due' = [to |-> t, err |-> TRUE]
        /\ UNCHANGED <<socketVars, msgType, session, receive, rounds, crashed>>
  /\ UNCHANGED <<alive, hsReceive, queueVars, emitting, stack, auth, issued, calls>>

\* The proof has been computed.  Without _state the handler throws.
ProofReady ==
  /\ EventLoop /\ auth = "proof"
  /\ \/ alive /\ SendConnect /\ UNCHANGED crashed
     \/ ~alive /\ crashed' = TRUE /\ UNCHANGED <<socketVars, msgType, hsReceive, auth>>
  /\ UNCHANGED <<alive, session, receive, queueVars, jsVars, taskVars, issued, calls>>

\* Queue.abort calls t.receive(err) of every task; an ExecuteTask has no such method, so
\* the tasks in front of the first one are told and the handler throws.
FirstExecute == {i \in DOMAIN queue : queue[i] \in Executes /\ \A j \in 1..(i - 1) : queue[j] \notin Executes}
Told == {queue[i] : i \in {j \in DOMAIN queue : \A k \in FirstExecute : j < k}}

\* Faulty variant: the tasks are told but stay queued.
ToldQueue ==
  /\ calls' = Called(Told)
  /\ UNCHANGED queueVars

\* _clearQueue(err)
ClearQueue ==
  /\ calls' = Called(Told)
  /\ IF FirstExecute = {}
     THEN /\ hasQueue' = FALSE /\ queue' = <<>> /\ drain' = <<>>
          /\ busy' = FALSE /\ running' = FALSE
     ELSE UNCHANGED queueVars

\* 'end': the server has closed its side.  The queued tasks fail, then onError is called.
ServerFin ==
  /\ EventLoop /\ "fin" \in Faults /\ sock = "open"
  /\ sock' = IF Told \cap Disconnects # {} THEN "destroyed" ELSE "ended"
  /\ ClearQueue
  /\ IF FirstExecute = {}
     THEN /\ due' = [to |-> Receiver, err |-> Receiver # "none"]
          /\ hsReceive' = "none"
          /\ receive' = IF hsReceive = "none" THEN "none" ELSE receive
          /\ UNCHANGED crashed
     ELSE crashed' = TRUE /\ UNCHANGED <<due, hsReceive, receive>>
  /\ UNCHANGED <<ticks, wire, alive, msgType, session, emitting, stack, taskVars, auth, issued>>

\* The network breaks: the socket is destroyed with an error.
SocketReset ==
  /\ EventLoop /\ "reset" \in Faults /\ sock \in {"open", "ended"}
  /\ sock' = "destroyed"
  /\ ticks' = Append(ticks, "error")
  /\ UNCHANGED <<wire, stateVars, queueVars, jsVars, taskVars, auth, issued, calls, crashed>>

\* 'close': _cleanup.
SocketClose ==
  /\ EventLoop /\ sock \in {"ended", "destroyed"}
  /\ sock' = "closed"
  /\ alive' = FALSE
  /\ ClearQueue
  /\ crashed' = (FirstExecute # {})
  /\ msgType' = "none" /\ session' = FALSE /\ receive' = "none"
  /\ UNCHANGED <<ticks, wire, hsReceive, jsVars, taskVars, auth, issued>>

-----------------------------------------------------------------------------
UserStep ==
  \/ Connect \/ UserDestroy
  \/ \E t \in Requests \cup Executes : UserEnqueue(t)
  \/ \E d \in Disconnects : UserDisconnect(d)
  \/ \E c \in Closes : UserClose(c)

HandlerStep ==
  \/ CallbackReturns \/ DrainListener \/ TaskReceive \/ ExecuteReceive
  \/ AuthReceive \/ ConnReceive

EventStep ==
  \/ NextTick \/ ServerReply \/ ProofReady \/ SocketClose
  \/ \E t \in Executes : ParametersReady(t)

FaultStep == ServerFin \/ SocketReset

Next == UserStep \/ HandlerStep \/ EventStep \/ FaultStep

Spec == Init /\ [][Next]_vars

(***************************************************************************)
(* Handlers run to completion and the event loop serves every event; the   *)
(* server answers every packet.  User code owes nothing but connect(),     *)
(* which Client calls from the callback of open().                         *)
(***************************************************************************)
Fairness ==
  /\ WF_vars(Connect)
  /\ WF_vars(HandlerStep)
  /\ WF_vars(NextTick) /\ WF_vars(ServerReply) /\ WF_vars(ProofReady) /\ WF_vars(SocketClose)
  /\ \A t \in Executes : WF_vars(ParametersReady(t))

FairSpec == Spec /\ Fairness

-----------------------------------------------------------------------------
(* Properties *)

\* Connection.js, PhysicalConnection.js: one request is outstanding at a time and the reply
\* to it is handed to the callback of that request, never to the callback of another.
ReplyMatchesRequest ==
  (sock = "open" /\ wire # <<>>) => (Len(wire) = 1 /\ Receiver = Head(wire))

\* Connection.connect: no packet of a task is sent before the session exists.
NoRequestBeforeSession ==
  (sock = "open" /\ Elements(wire) \cap Tasks # {}) => auth = "ok"

\* Queue.dequeue: on an open connection a busy queue has a task that will call next(), and
\* a running queue that is not busy has no task waiting.
QueueNeverStalls ==
  (sock = "open" /\ running /\ ~crashed) =>
     /\ busy => (wire # <<>> \/ gaps # {} \/ due # NoCall \/ stack # <<>> \/ ticks # <<>>)
     /\ queue # <<>> => busy

\* The callback of a task is called at most once.
AtMostOnce == \A t \in Tasks : calls[t] <= 1

\* No exception of a handler reaches the event loop.
NeverCrashes == ~crashed

\* Connection.js:270, "Connection is closed, outstanding tasks must fail".
ClosedTasksHaveFailed ==
  (sock = "closed" /\ (crashed \/ (EventLoop /\ gaps = {}))) =>
     \A t \in Tasks \cap issued : calls[t] > 0

\* Connection.js:270 again, for the tasks that were still waiting in the queue.
NoTaskLeftQueued == sock = "closed" => queue = <<>>

\* README.md:150, "If authentication fails the client remains in a 'disconnect' state".
FailedLoginDisconnects ==
  (auth = "failed" /\ sock = "open") => ReadyState = "disconnected"

\* README.md:160, "It is possible to disconnect and reconnect with a different user on the
\* same client instance and the same network connection": without faults and destroy(),
\* the socket is still open when the callback of disconnect() has been called.
DisconnectKeepsSocket == (\E d \in Disconnects : calls[d] > 0) => sock = "open"

\* The callback of every task that user code has handed to the connection is called.
EveryTaskSettles == \A t \in Tasks : (t \in issued) ~> (calls[t] > 0)

\* disconnect(cb) calls back.
DisconnectSettles == \A d \in Disconnects : (d \in issued) ~> (calls[d] > 0)

\* close() closes the connection, after the tasks that were accepted before it.
CloseCloses == \A c \in Closes : (c \in issued) ~> (sock = "closed")
===============================================================================
