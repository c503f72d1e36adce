--------------------------- MODULE ConnectionProofs ---------------------------
(* Theorems about Connection, for every value of its constants. *)
EXTENDS Connection, SequenceTheorems, TLAPS

-----------------------------------------------------------------------------
(* Type correctness *)

\* Connection.js, PhysicalConnection.js, Queue.js: the components of the state keep their types.
LEMMA TypeInit == Init => TypeOK
<1> SUFFICES ASSUME Init PROVE TypeOK
  OBVIOUS
<1> USE DEF Init
<1>1. due \in [to : {"none"} \cup Packets, err : BOOLEAN]
  BY DEF NoCall
<1>2. rounds \in [Executes -> Nat] /\ calls \in [Tasks -> Nat]
  OBVIOUS
<1>3. /\ ticks \in Seq({"error"} \cup Tasks) /\ wire \in Seq(Packets) /\ queue \in Seq(Tasks)
      /\ drain \in Seq(Closes \cup Disconnects) /\ emitting \in Seq(Closes \cup Disconnects)
      /\ stack \in Seq(Tasks)
  BY EmptySeq
<1>4. gaps \subseteq Executes /\ issued \subseteq Calls
  OBVIOUS
<1> QED BY <1>1, <1>2, <1>3, <1>4 DEF TypeOK

\* A packet goes to the end of a sequence of packets, a task to the end of one of tasks.
LEMMA WriteType ==
  ASSUME TypeOK, NEW p \in Packets, Write(p)
  PROVE  /\ sock' \in {"open", "ended", "destroyed", "closed"}
         /\ ticks' \in Seq({"error"} \cup Tasks)
         /\ wire' \in Seq(Packets)
BY DEF TypeOK, Write

\* What Queue.run of one task changes keeps its types.
LEMMA RunType ==
  ASSUME TypeOK, NEW t \in Tasks, Run(t)
  PROVE  /\ sock' \in {"open", "ended", "destroyed", "closed"}
         /\ ticks' \in Seq({"error"} \cup Tasks)
         /\ wire' \in Seq(Packets)
         /\ msgType' \in {"none", "AUTHENTICATE", "CONNECT", "DISCONNECT", "other"}
         /\ session' \in BOOLEAN
         /\ receive' \in {"none"} \cup Tasks
         /\ due' \in [to : {"none"} \cup Packets, err : BOOLEAN]
         /\ gaps' \subseteq Executes
<1>1. CASE t \in Executes /\ gaps' = gaps \cup {t} /\ due' = NoCall
              /\ UNCHANGED <<socketVars, msgType, session, receive>>
  BY <1>1 DEF TypeOK, NoCall, socketVars
<1>2. CASE /\ msgType' = "other" /\ receive' = t
           /\ due' = [to |-> t, err |-> TRUE]
           /\ UNCHANGED <<socketVars, session, gaps>>
  BY <1>2 DEF TypeOK, Packets, socketVars
<1>3. CASE /\ msgType' = "other" /\ receive' = t
           /\ ticks' = Append(ticks, t)
           /\ due' = NoCall
           /\ UNCHANGED <<sock, wire, session, gaps>>
  BY <1>3 DEF TypeOK, NoCall
<1>4. CASE SendPacket(t) /\ due' = NoCall /\ UNCHANGED gaps
  <2>1. t \in Packets
    BY DEF Packets
  <2> QED BY <1>4, <2>1, WriteType DEF TypeOK, NoCall, SendPacket
<1>5. CASE /\ due' = [to |-> t, err |-> TRUE]
           /\ UNCHANGED <<socketVars, msgType, session, receive, gaps>>
  BY <1>5 DEF TypeOK, Packets, socketVars
<1> QED BY <1>1, <1>2, <1>3, <1>4, <1>5 DEF Run

\* So does Queue.dequeue, which runs at most one task.
LEMMA DequeueType ==
  ASSUME TypeOK, NEW q \in Seq(Tasks), NEW b \in BOOLEAN, NEW r \in BOOLEAN, Dequeue(q, b, r)
  PROVE  /\ sock' \in {"open", "ended", "destroyed", "closed"}
         /\ ticks' \in Seq({"error"} \cup Tasks)
         /\ wire' \in Seq(Packets)
         /\ msgType' \in {"none", "AUTHENTICATE", "CONNECT", "DISCONNECT", "other"}
         /\ session' \in BOOLEAN
         /\ receive' \in {"none"} \cup Tasks
         /\ due' \in [to : {"none"} \cup Packets, err : BOOLEAN]
         /\ gaps' \subseteq Executes
         /\ queue' \in Seq(Tasks) /\ busy' \in BOOLEAN /\ running' \in BOOLEAN
<1>1. CASE MayRun(q, b, r)
  <2>1. q # <<>>
    BY <1>1 DEF MayRun
  <2>2. Head(q) \in Tasks /\ Tail(q) \in Seq(Tasks)
    BY <2>1, HeadTailProperties
  <2>3. Run(Head(q)) /\ queue' = Tail(q) /\ busy' = TRUE /\ running' = r
    BY <1>1 DEF Dequeue
  <2> QED BY <2>2, <2>3, RunType
<1>2. CASE ~MayRun(q, b, r)
  <2>1. /\ queue' = q /\ busy' = b /\ running' = r /\ due' = NoCall
        /\ UNCHANGED <<socketVars, msgType, session, receive, gaps>>
    BY <1>2 DEF Dequeue
  <2>2. due' \in [to : {"none"} \cup Packets, err : BOOLEAN]
    BY <2>1 DEF NoCall
  <2> QED BY <2>1, <2>2 DEF TypeOK, socketVars
<1> QED BY <1>1, <1>2

\* Counting a callback keeps the counters natural numbers.
LEMMA CalledType ==
  ASSUME TypeOK, NEW T
  PROVE  Called(T) \in [Tasks -> Nat]
BY DEF TypeOK, Called

\* socket.destroy() leaves the socket destroyed or closed.
LEMMA DestroyedType ==
  Destroyed(sock) \in {"open", "ended", "destroyed", "closed"}
BY DEF Destroyed

\* Connection.enqueue, whether it refuses the task or queues it.
LEMMA EnqueueType ==
  ASSUME TypeOK, NEW t \in Tasks, Enqueue(t)
  PROVE  /\ sock' \in {"open", "ended", "destroyed", "closed"}
         /\ ticks' \in Seq({"error"} \cup Tasks)
         /\ wire' \in Seq(Packets)
         /\ msgType' \in {"none", "AUTHENTICATE", "CONNECT", "DISCONNECT", "other"}
         /\ session' \in BOOLEAN
         /\ receive' \in {"none"} \cup Tasks
         /\ due' \in [to : {"none"} \cup Packets, err : BOOLEAN]
         /\ gaps' \subseteq Executes
         /\ queue' \in Seq(Tasks) /\ busy' \in BOOLEAN /\ running' \in BOOLEAN
         /\ calls' \in [Tasks -> Nat]
<1>1. CASE Dequeue(Pushed(t), busy, running) /\ UNCHANGED calls
  <2>1. Pushed(t) \in Seq(Tasks)
    BY AppendProperties DEF TypeOK, Pushed
  <2>2. busy \in BOOLEAN /\ running \in BOOLEAN /\ calls' \in [Tasks -> Nat]
    BY <1>1 DEF TypeOK
  <2> QED BY <1>1, <2>1, <2>2, DequeueType
<1>2. CASE /\ calls' = Called({t})
           /\ sock' = IF t \in Disconnects THEN Destroyed(sock) ELSE sock
           /\ UNCHANGED <<ticks, wire, msgType, session, receive, queue, busy, running, gaps, due>>
  BY <1>2, CalledType, DestroyedType DEF TypeOK
<1> QED BY <1>1, <1>2 DEF Enqueue

\* _clearQueue, whether Queue.abort succeeds or throws.
LEMMA ClearQueueType ==
  ASSUME TypeOK, ClearQueue
  PROVE  /\ calls' \in [Tasks -> Nat]
         /\ hasQueue' \in BOOLEAN /\ queue' \in Seq(Tasks) /\ drain' \in Seq(Closes \cup Disconnects)
         /\ busy' \in BOOLEAN /\ running' \in BOOLEAN
<1>1. calls' \in [Tasks -> Nat]
  BY CalledType DEF ClearQueue
<1>2. <<>> \in Seq(Tasks) /\ <<>> \in Seq(Closes \cup Disconnects)
  OBVIOUS
<1> QED BY <1>1, <1>2 DEF ClearQueue, TypeOK, queueVars

\* Calling the callback of a task.
LEMMA SettleType ==
  ASSUME TypeOK, NEW t \in Tasks, Settle(t)
  PROVE  /\ due' \in [to : {"none"} \cup Packets, err : BOOLEAN]
         /\ stack' \in Seq(Tasks)
         /\ calls' \in [Tasks -> Nat]
<1>1. due' \in [to : {"none"} \cup Packets, err : BOOLEAN]
  BY DEF Settle, NoCall
<1>2. <<t>> \in Seq(Tasks) /\ stack \in Seq(Tasks)
  BY DEF TypeOK
<1>3. <<t>> \o stack \in Seq(Tasks)
  BY <1>2, ConcatProperties
<1> QED BY <1>1, <1>3, CalledType DEF Settle

\* A packet of an ExecuteTask, sent or thrown.
LEMMA ExecuteSendsType ==
  ASSUME TypeOK, NEW t \in Executes, ExecuteSends(t)
  PROVE  /\ sock' \in {"open", "ended", "destroyed", "closed"}
         /\ ticks' \in Seq({"error"} \cup Tasks)
         /\ wire' \in Seq(Packets)
         /\ msgType' \in {"none", "AUTHENTICATE", "CONNECT", "DISCONNECT", "other"}
         /\ session' \in BOOLEAN
         /\ receive' \in {"none"} \cup Tasks
         /\ rounds' \in [Executes -> Nat]
         /\ crashed' \in BOOLEAN
<1>1. t \in Tasks /\ t \in Packets
  BY DEF Tasks, Packets
<1>2. CASE SendPacket(t) /\ rounds' = [rounds EXCEPT ![t] = @ + 1] /\ UNCHANGED crashed
  <2>1. rounds' \in [Executes -> Nat]
    BY <1>2 DEF TypeOK
  <2>2. crashed' \in BOOLEAN
    BY <1>2 DEF TypeOK
  <2> QED
    BY <1>1, <1>2, <2>1, <2>2, WriteType DEF SendPacket
<1>3. CASE crashed' = TRUE /\ UNCHANGED <<socketVars, msgType, session, receive, rounds>>
  BY <1>3 DEF TypeOK, socketVars
<1> QED BY <1>2, <1>3 DEF ExecuteSends

\* Every step keeps the types.
LEMMA TypeStep == TypeOK /\ [Next]_vars => TypeOK'
<1> SUFFICES ASSUME TypeOK, [Next]_vars PROVE TypeOK'
  OBVIOUS
<1>1. CASE Connect
  <2>1. "authenticate" \in Packets
    BY DEF Packets
  <2> QED BY <1>1, <2>1, WriteType DEF Connect, TypeOK, queueVars, jsVars, taskVars
<1>2. CASE UserDestroy
  BY <1>2 DEF UserDestroy, TypeOK, stateVars, queueVars, jsVars, taskVars
<1>3. ASSUME NEW t \in Requests \cup Executes, UserEnqueue(t) PROVE TypeOK'
  <2>1. t \in Tasks /\ t \in Calls
    BY DEF Tasks, Calls
  <2> QED BY <1>3, <2>1, EnqueueType DEF UserEnqueue, TypeOK
<1>4. ASSUME NEW d \in Disconnects, UserDisconnect(d) PROVE TypeOK'
  <2>1. d \in Tasks /\ d \in Calls
    BY DEF Tasks, Calls
  <2>2. CASE calls' = Called({d}) /\ UNCHANGED <<socketVars, msgType, session, receive, queueVars, gaps, due>>
    BY <1>4, <2>1, <2>2, CalledType DEF UserDisconnect, TypeOK, socketVars, queueVars
  <2>3. CASE Enqueue(d) /\ UNCHANGED <<hasQueue, drain>>
    BY <1>4, <2>1, <2>3, EnqueueType DEF UserDisconnect, TypeOK
  <2>4. CASE /\ drain' = Append(drain, d)
             /\ UNCHANGED <<socketVars, msgType, session, receive, hasQueue, queue, busy, running,
                            gaps, due, calls>>
    BY <1>4, <2>1, <2>4 DEF UserDisconnect, TypeOK, socketVars
  <2> QED BY <1>4, <2>2, <2>3, <2>4 DEF UserDisconnect
<1>5. ASSUME NEW c \in Closes, UserClose(c) PROVE TypeOK'
  <2>1. c \in Calls /\ Append(drain, c) \in Seq(Closes \cup Disconnects)
    BY DEF Calls, TypeOK
  <2>2. /\ sock' \in {"open", "ended", "destroyed", "closed"}
        /\ drain' \in Seq(Closes \cup Disconnects)
    BY <1>5, <2>1, DestroyedType DEF UserClose, TypeOK
  <2> QED BY <1>5, <2>1, <2>2 DEF UserClose, TypeOK, stateVars, jsVars, taskVars
<1>6. CASE CallbackReturns
  <2>1. stack' \in Seq(Tasks)
    BY <1>6 DEF CallbackReturns, TypeOK
  <2>2. CASE Dequeue(queue, FALSE, running) /\ UNCHANGED <<drain, emitting>>
    <3>1. queue \in Seq(Tasks) /\ FALSE \in BOOLEAN /\ running \in BOOLEAN
      BY DEF TypeOK
    <3>2. /\ sock' \in {"open", "ended", "destroyed", "closed"}
          /\ ticks' \in Seq({"error"} \cup Tasks)
          /\ wire' \in Seq(Packets)
          /\ msgType' \in {"none", "AUTHENTICATE", "CONNECT", "DISCONNECT", "other"}
          /\ session' \in BOOLEAN
          /\ receive' \in {"none"} \cup Tasks
          /\ due' \in [to : {"none"} \cup Packets, err : BOOLEAN]
          /\ gaps' \subseteq Executes
          /\ queue' \in Seq(Tasks) /\ busy' \in BOOLEAN /\ running' \in BOOLEAN
      BY <2>2, <3>1, DequeueType
    <3>3. UNCHANGED <<alive, hsReceive, hasQueue, drain, emitting, rounds, auth, issued, calls, crashed>>
      BY <1>6, <2>2 DEF CallbackReturns
    <3> QED BY <2>1, <3>2, <3>3 DEF TypeOK
  <2>3. CASE /\ busy' = FALSE
             /\ emitting' = drain /\ drain' = <<>>
             /\ UNCHANGED <<socketVars, msgType, session, receive, queue, running, gaps, due>>
    <3>1. <<>> \in Seq(Closes \cup Disconnects)
      OBVIOUS
    <3>2. /\ emitting' \in Seq(Closes \cup Disconnects) /\ drain' \in Seq(Closes \cup Disconnects)
          /\ busy' \in BOOLEAN
      BY <2>3, <3>1 DEF TypeOK
    <3>3. UNCHANGED <<alive, hsReceive, hasQueue, rounds, auth, issued, calls, crashed>>
      BY <1>6 DEF CallbackReturns
    <3> QED BY <2>1, <2>3, <3>2, <3>3 DEF CallbackReturns, TypeOK, socketVars
  <2> QED BY <1>6, <2>2, <2>3 DEF CallbackReturns
<1>7. CASE DrainListener
  <2>1. emitting' \in Seq(Closes \cup Disconnects)
    BY <1>7 DEF DrainListener, TypeOK
  <2>2. CASE /\ sock' = Destroyed(sock)
             /\ UNCHANGED <<ticks, wire, msgType, session, receive, queue, busy, running, gaps, due, calls>>
    BY <1>7, <2>1, <2>2, DestroyedType DEF DrainListener, TypeOK
  <2>3. CASE Head(emitting) \in Disconnects /\ Enqueue(Head(emitting))
    <3>1. Head(emitting) \in Tasks
      BY <2>3 DEF Tasks
    <3> QED BY <1>7, <2>1, <2>3, <3>1, EnqueueType DEF DrainListener, TypeOK
  <2> QED BY <1>7, <2>2, <2>3 DEF DrainListener
<1>8. CASE TaskReceive
  <2>1. due.to \in Tasks
    BY <1>8 DEF TaskReceive, Tasks
  <2> QED BY <1>8, <2>1, SettleType, DestroyedType
          DEF TaskReceive, TypeOK, stateVars, queueVars, taskVars
<1>9. CASE ExecuteReceive
  <2>1. due.to \in Executes /\ due.to \in Tasks
    BY <1>9 DEF ExecuteReceive, Tasks
  <2>2. CASE /\ Settle(due.to)
             /\ UNCHANGED <<socketVars, msgType, session, receive, gaps, rounds, crashed>>
    BY <1>9, <2>1, <2>2, SettleType DEF ExecuteReceive, TypeOK, socketVars, queueVars
  <2>3. CASE /\ gaps' = gaps \cup {due.to} /\ due' = NoCall
             /\ UNCHANGED <<socketVars, msgType, session, receive, stack, calls, rounds, crashed>>
    BY <1>9, <2>1, <2>3 DEF ExecuteReceive, TypeOK, socketVars, queueVars, NoCall
  <2>4. CASE ExecuteSends(due.to) /\ due' = NoCall /\ UNCHANGED <<gaps, stack, calls>>
    <3>1. /\ sock' \in {"open", "ended", "destroyed", "closed"}
          /\ ticks' \in Seq({"error"} \cup Tasks)
          /\ wire' \in Seq(Packets)
          /\ msgType' \in {"none", "AUTHENTICATE", "CONNECT", "DISCONNECT", "other"}
          /\ session' \in BOOLEAN
          /\ receive' \in {"none"} \cup Tasks
          /\ rounds' \in [Executes -> Nat]
          /\ crashed' \in BOOLEAN
      BY <2>1, <2>4, ExecuteSendsType
    <3>2. due' \in [to : {"none"} \cup Packets, err : BOOLEAN]
      BY <2>4 DEF NoCall
    <3>3. UNCHANGED <<alive, hsReceive, hasQueue, queue, busy, running, drain, emitting, stack, gaps,
                      auth, issued, calls>>
      BY <1>9, <2>4 DEF ExecuteReceive, queueVars
    <3> QED BY <3>1, <3>2, <3>3 DEF TypeOK
  <2> QED BY <1>9, <2>2, <2>3, <2>4 DEF ExecuteReceive
<1>10. CASE AuthReceive
  <2>1. "connect" \in Packets
    BY DEF Packets
  <2>2. CASE SendConnect
    BY <1>10, <2>1, <2>2, WriteType DEF AuthReceive, SendConnect, TypeOK, queueVars, taskVars, NoCall
  <2>3. CASE auth' \in {"failed", "proof"} /\ UNCHANGED <<socketVars, msgType, hsReceive>>
    BY <1>10, <2>3 DEF AuthReceive, TypeOK, socketVars, queueVars, taskVars, NoCall
  <2> QED BY <1>10, <2>2, <2>3 DEF AuthReceive
<1>11. CASE ConnReceive
  <2>1. CASE /\ auth' = "failed" /\ due' = NoCall
             /\ UNCHANGED <<socketVars, msgType, session, receive, queueVars, gaps, crashed>>
    BY <1>11, <2>1 DEF ConnReceive, TypeOK, socketVars, queueVars, NoCall
  <2>2. CASE /\ crashed' = TRUE /\ due' = NoCall
             /\ UNCHANGED <<socketVars, msgType, session, receive, queueVars, gaps, auth>>
    BY <1>11, <2>2 DEF ConnReceive, TypeOK, socketVars, queueVars, NoCall
  <2>3. CASE /\ auth' = "ok" /\ Dequeue(queue, busy, TRUE)
             /\ UNCHANGED <<hasQueue, drain, crashed>>
    <3>1. queue \in Seq(Tasks) /\ busy \in BOOLEAN /\ TRUE \in BOOLEAN
      BY DEF TypeOK
    <3> QED BY <1>11, <2>3, <3>1, DequeueType DEF ConnReceive, TypeOK
  <2> QED BY <1>11, <2>1, <2>2, <2>3 DEF ConnReceive
<1>12. CASE NextTick
  <2>1. ticks' \in Seq({"error"} \cup Tasks)
    BY <1>12 DEF NextTick, TypeOK
  <2>2. Receiver \in {"none"} \cup Packets
    BY DEF Receiver, TypeOK, Packets
  <2>3. due' \in [to : {"none"} \cup Packets, err : BOOLEAN]
    <3>1. CASE due' = [to |-> Receiver, err |-> Receiver # "none"]
      BY <2>2, <3>1
    <3>2. CASE Head(ticks) \in Tasks /\ due' = [to |-> Head(ticks), err |-> TRUE]
      BY <3>2 DEF Packets
    <3> QED BY <1>12, <3>1, <3>2 DEF NextTick
  <2> QED BY <1>12, <2>1, <2>3 DEF NextTick, TypeOK, queueVars, taskVars
<1>13. CASE ServerReply
  <2>1. wire' \in Seq(Packets)
    BY <1>13 DEF ServerReply, TypeOK
  <2>2. Receiver \in {"none"} \cup Packets
    BY DEF Receiver, TypeOK, Packets
  <2>3. due' \in [to : {"none"} \cup Packets, err : BOOLEAN]
    BY <1>13, <2>2 DEF ServerReply
  <2>4. ticks' \in Seq({"error"} \cup Tasks) /\ sock' \in {"open", "ended", "destroyed", "closed"}
    BY <1>13 DEF ServerReply, TypeOK
  <2> QED BY <1>13, <2>1, <2>3, <2>4 DEF ServerReply, TypeOK, queueVars, taskVars
<1>14. CASE ProofReady
  <2>1. "connect" \in Packets
    BY DEF Packets
  <2>2. CASE SendConnect /\ UNCHANGED crashed
    BY <1>14, <2>1, <2>2, WriteType DEF ProofReady, SendConnect, TypeOK, queueVars, jsVars, taskVars
  <2>3. CASE crashed' = TRUE /\ UNCHANGED <<socketVars, msgType, hsReceive, auth>>
    BY <1>14, <2>3 DEF ProofReady, TypeOK, socketVars, queueVars, jsVars, taskVars
  <2> QED BY <1>14, <2>2, <2>3 DEF ProofReady
<1>15. CASE SocketClose
  BY <1>15, ClearQueueType DEF SocketClose, TypeOK, jsVars, taskVars
<1>16. ASSUME NEW t \in Executes, ParametersReady(t) PROVE TypeOK'
  <2>1. gaps' \subseteq Executes
    BY <1>16 DEF ParametersReady, TypeOK
  <2>2. CASE ExecuteSends(t) /\ UNCHANGED due
    <3>1. /\ sock' \in {"open", "ended", "destroyed", "closed"}
          /\ ticks' \in Seq({"error"} \cup Tasks)
          /\ wire' \in Seq(Packets)
          /\ msgType' \in {"none", "AUTHENTICATE", "CONNECT", "DISCONNECT", "other"}
          /\ session' \in BOOLEAN
          /\ receive' \in {"none"} \cup Tasks
          /\ rounds' \in [Executes -> Nat]
          /\ crashed' \in BOOLEAN
      BY <2>2, ExecuteSendsType
    <3>2. UNCHANGED <<alive, hsReceive, hasQueue, queue, busy, running, drain, emitting, stack, due,
                      auth, issued, calls>>
      BY <1>16, <2>2 DEF ParametersReady, queueVars
    <3> QED BY <2>1, <3>1, <3>2 DEF TypeOK
  <2>3. CASE /\ due' = [to |-> t, err |-> TRUE]
             /\ UNCHANGED <<socketVars, msgType, session, receive, rounds, crashed>>
    <3>1. due' \in [to : {"none"} \cup Packets, err : BOOLEAN]
      BY <2>3 DEF Packets, Tasks
    <3> QED BY <1>16, <2>1, <2>3, <3>1 DEF ParametersReady, TypeOK, socketVars, queueVars
  <2> QED BY <1>16, <2>2, <2>3 DEF ParametersReady
<1>17. CASE ServerFin
  <2>1. Receiver \in {"none"} \cup Packets
    BY DEF Receiver, TypeOK, Packets
  <2>2. /\ due' \in [to : {"none"} \cup Packets, err : BOOLEAN]
        /\ crashed' \in BOOLEAN
        /\ hsReceive' \in {"none", "authenticate", "connect"}
        /\ receive' \in {"none"} \cup Tasks
    <3>1. CASE /\ due' = [to |-> Receiver, err |-> Receiver # "none"]
               /\ hsReceive' = "none"
               /\ receive' = IF hsReceive = "none" THEN "none" ELSE receive
               /\ UNCHANGED crashed
      BY <2>1, <3>1 DEF TypeOK
    <3>2. CASE crashed' = TRUE /\ UNCHANGED <<due, hsReceive, receive>>
      BY <3>2 DEF TypeOK
    <3> QED BY <1>17, <3>1, <3>2 DEF ServerFin
  <2> QED BY <1>17, <2>2, ClearQueueType DEF ServerFin, TypeOK, taskVars
<1>18. CASE SocketReset
  BY <1>18 DEF SocketReset, TypeOK, stateVars, queueVars, jsVars, taskVars
<1>19. CASE UNCHANGED vars
  BY <1>19 DEF vars, TypeOK, socketVars, stateVars, queueVars, jsVars, taskVars
<1> QED
  BY <1>1, <1>2, <1>3, <1>4, <1>5, <1>6, <1>7, <1>8, <1>9, <1>10, <1>11, <1>12, <1>13, <1>14,
     <1>15, <1>16, <1>17, <1>18, <1>19
     DEF Next, UserStep, HandlerStep, EventStep, FaultStep

\* The invariant TypeOK of every run, for any tasks, faults and bound.
THEOREM TypeCorrect == Spec => []TypeOK
BY TypeInit, TypeStep, PTL DEF Spec

-----------------------------------------------------------------------------
(***************************************************************************)
(* The right to send.  On an open connection there is one thing at a time  *)
(* that can lead to the next packet: a packet on the wire, parameters being *)
(* collected, a callback to be made or running, or a nextTick callback.    *)
(* During the login it belongs to the handshake, afterwards to the task    *)
(* for which the queue is busy.                                            *)
(***************************************************************************)

Pending(w, g, d, s, k) == wire = w /\ gaps = g /\ due = d /\ stack = s /\ ticks = k

Nothing == Pending(<<>>, {}, NoCall, <<>>, <<>>)

\* The handshake packet p has been sent, or the reply to it is being handed over.
Handshake(p) ==
  \/ Pending(<<p>>, {}, NoCall, <<>>, <<>>) /\ hsReceive = p
  \/ /\ hsReceive = "none"
     /\ \E e \in BOOLEAN : Pending(<<>>, {}, [to |-> p, err |-> e], <<>>, <<>>)

\* Task t is the one that will call next().
InHand(t) ==
  \/ Pending(<<t>>, {}, NoCall, <<>>, <<>>) /\ receive = t
  \/ Pending(<<>>, {t}, NoCall, <<>>, <<>>) /\ t \in Executes
  \/ \E e \in BOOLEAN : Pending(<<>>, {}, [to |-> t, err |-> e], <<>>, <<>>)
  \/ Pending(<<>>, {}, NoCall, <<t>>, <<>>)
  \/ Pending(<<>>, {}, NoCall, <<>>, <<t>>)

LoginInv ==
  /\ auth \in {"none", "proof", "failed"} => Nothing /\ hsReceive = "none"
  /\ auth = "authenticate" => Handshake("authenticate")
  /\ auth = "connect" => Handshake("connect")
  /\ auth # "ok" => ~running /\ ~busy /\ receive = "none" /\ emitting = <<>>

SessionInv ==
  auth = "ok" =>
    /\ hsReceive = "none" /\ running
    /\ ~busy => Nothing /\ queue = <<>>
    /\ busy => \E t \in Tasks : InHand(t)

IInv ==
  sock = "open" =>
    /\ alive
    /\ crashed => wire = <<>>
    /\ ~crashed => LoginInv /\ SessionInv

\* The invariant holds when open() has just succeeded.
LEMMA IInit == Init => IInv
BY DEF Init, IInv, LoginInv, SessionInv, Nothing, Pending

\* A task that is run with nothing else pending is the one in hand afterwards.
LEMMA RunTakes ==
  ASSUME TypeOK, NEW t \in Tasks, Run(t), sock = "open",
         wire = <<>>, gaps = {}, ticks = <<>>, stack' = <<>>
  PROVE  InHand(t)'
<1>1. CASE t \in Executes /\ gaps' = gaps \cup {t} /\ due' = NoCall
              /\ UNCHANGED <<socketVars, msgType, session, receive>>
  BY <1>1 DEF InHand, Pending, socketVars
<1>2. CASE /\ msgType' = "other" /\ receive' = t
           /\ due' = [to |-> t, err |-> TRUE]
           /\ UNCHANGED <<socketVars, session, gaps>>
  BY <1>2 DEF InHand, Pending, socketVars
<1>3. CASE /\ msgType' = "other" /\ receive' = t
           /\ ticks' = Append(ticks, t)
           /\ due' = NoCall
           /\ UNCHANGED <<sock, wire, session, gaps>>
  <2>1. ticks' = <<t>>
    BY <1>3
  <2> QED BY <1>3, <2>1 DEF InHand, Pending
<1>4. CASE SendPacket(t) /\ due' = NoCall /\ UNCHANGED gaps
  <2>1. wire' = <<t>>
    BY <1>4 DEF SendPacket, Write
  <2>2. ticks' = <<>> /\ receive' = t
    BY <1>4 DEF SendPacket, Write
  <2> QED BY <1>4, <2>1, <2>2 DEF InHand, Pending
<1>5. CASE /\ due' = [to |-> t, err |-> TRUE]
           /\ UNCHANGED <<socketVars, msgType, session, receive, gaps>>
  BY <1>5 DEF InHand, Pending, socketVars
<1> QED BY <1>1, <1>2, <1>3, <1>4, <1>5 DEF Run

\* Queue.dequeue of a running queue with nothing pending.
LEMMA DequeueTakes ==
  ASSUME TypeOK, NEW q \in Seq(Tasks), Dequeue(q, FALSE, TRUE), sock = "open",
         wire = <<>>, gaps = {}, ticks = <<>>, stack' = <<>>
  PROVE  /\ running'
         /\ ~busy' => Nothing' /\ queue' = <<>>
         /\ busy' => \E t \in Tasks : InHand(t)'
<1>1. CASE q # <<>>
  <2>1. Head(q) \in Tasks
    BY <1>1, HeadTailProperties
  <2>2. Run(Head(q)) /\ busy' = TRUE /\ running' = TRUE
    BY <1>1 DEF Dequeue, MayRun
  <2> QED BY <2>1, <2>2, RunTakes
<1>2. CASE q = <<>>
  BY <1>2 DEF Dequeue, MayRun, Nothing, Pending, socketVars
<1> QED BY <1>1, <1>2

\* Connection.enqueue in the two situations that leave the right to send alone, and in the
\* one that uses it.
LEMMA EnqueueKeeps ==
  ASSUME TypeOK, NEW t \in Tasks, Enqueue(t), busy \/ ~running, due = NoCall
  PROVE  UNCHANGED <<ticks, wire, receive, gaps, due, busy, running>>
<1>1. CASE Dequeue(Pushed(t), busy, running)
  <2>1. ~MayRun(Pushed(t), busy, running)
    BY DEF MayRun
  <2>2. /\ busy' = busy /\ running' = running /\ due' = NoCall
        /\ UNCHANGED <<socketVars, receive, gaps>>
    BY <1>1, <2>1 DEF Dequeue
  <2> QED BY <2>2 DEF socketVars
<1>2. CASE UNCHANGED <<ticks, wire, msgType, session, receive, queue, busy, running, gaps, due>>
  BY <1>2
<1> QED BY <1>1, <1>2 DEF Enqueue

\* A task that is pushed on an idle running queue is the one in hand afterwards.
LEMMA EnqueueTakes ==
  ASSUME TypeOK, NEW t \in Tasks, Enqueue(t), ~busy, running, Nothing, queue = <<>>,
         stack' = <<>>, sock = "open"
  PROVE  /\ running'
         /\ ~busy' => Nothing' /\ queue' = <<>>
         /\ busy' => \E u \in Tasks : InHand(u)'
<1>1. CASE Dequeue(Pushed(t), busy, running)
  <2>1. Pushed(t) \in Seq(Tasks)
    BY AppendProperties DEF TypeOK, Pushed
  <2>2. busy = FALSE /\ running = TRUE
    BY DEF TypeOK
  <2>3. Dequeue(Pushed(t), FALSE, TRUE)
    BY <1>1, <2>2
  <2> QED BY <2>1, <2>3, DequeueTakes DEF Nothing, Pending
<1>2. CASE UNCHANGED <<ticks, wire, msgType, session, receive, queue, busy, running, gaps, due>>
  BY <1>2 DEF Nothing, Pending
<1> QED BY <1>1, <1>2 DEF Enqueue

\* Connection.enqueue never reopens a socket.
LEMMA EnqueueStaysOpen ==
  ASSUME NEW t, Enqueue(t), sock' = "open"
  PROVE  sock = "open"
BY DEF Enqueue, Dequeue, Run, SendPacket, Write, Destroyed, socketVars

\* Connection.enqueue, called by user code at any time, preserves the invariant.
LEMMA EnqueueSafe ==
  ASSUME TypeOK, IInv, NEW t \in Tasks, Enqueue(t), sock' = "open", ~crashed, due = NoCall,
         UNCHANGED <<alive, hsReceive, stack, auth, crashed>>,
         auth # "ok" => UNCHANGED emitting
  PROVE  /\ alive'
         /\ crashed' => wire' = <<>>
         /\ ~crashed' => LoginInv' /\ SessionInv'
<1>0. sock = "open" /\ alive /\ LoginInv /\ SessionInv
  BY EnqueueStaysOpen DEF IInv
<1>1. CASE auth # "ok"
  <2>1. ~running /\ ~busy
    BY <1>0, <1>1 DEF LoginInv
  <2>2. UNCHANGED <<ticks, wire, receive, gaps, due, busy, running>>
    BY <2>1, EnqueueKeeps
  <2> QED BY <1>0, <1>1, <2>1, <2>2 DEF LoginInv, SessionInv, Nothing, Pending, Handshake
<1>2. CASE auth = "ok" /\ busy
  <2>1. UNCHANGED <<ticks, wire, receive, gaps, due, busy, running>>
    BY <1>2, EnqueueKeeps
  <2>2. PICK u \in Tasks : InHand(u)
    BY <1>0, <1>2 DEF SessionInv
  <2>3. InHand(u)'
    BY <2>1, <2>2 DEF InHand, Pending
  <2> QED BY <1>0, <1>2, <2>1, <2>3 DEF LoginInv, SessionInv
<1>3. CASE auth = "ok" /\ ~busy
  <2>1. Nothing /\ queue = <<>> /\ running /\ stack' = <<>>
    BY <1>0, <1>3 DEF SessionInv, Nothing, Pending
  <2>2. /\ running'
        /\ ~busy' => Nothing' /\ queue' = <<>>
        /\ busy' => \E u \in Tasks : InHand(u)'
    BY <1>0, <1>3, <2>1, EnqueueTakes
  <2> QED BY <1>0, <1>3, <2>2 DEF LoginInv, SessionInv
<1> QED BY <1>1, <1>2, <1>3

\* A callback that is due belongs to the login or to the task in hand.
LEMMA DueTask ==
  ASSUME TypeOK, LoginInv, SessionInv, due.to \in Tasks
  PROVE  auth = "ok" /\ busy /\ wire = <<>> /\ gaps = {} /\ stack = <<>> /\ ticks = <<>>
<1>1. due.to \notin {"none", "authenticate", "connect"}
  BY TaskAssumption DEF Calls
<1>2. due # NoCall
  BY <1>1 DEF NoCall
<1>3. auth = "ok"
  BY <1>1, <1>2 DEF LoginInv, Nothing, Pending, Handshake, TypeOK
<1>4. busy
  BY <1>2, <1>3 DEF SessionInv, Nothing, Pending
<1> QED BY <1>2, <1>3, <1>4 DEF SessionInv, InHand, Pending

\* A callback of the login that is due finds nothing else pending.
LEMMA DueHandshake ==
  ASSUME TypeOK, LoginInv, SessionInv, due.to \in {"authenticate", "connect"}
  PROVE  /\ auth = due.to /\ wire = <<>> /\ gaps = {} /\ stack = <<>> /\ ticks = <<>>
         /\ hsReceive = "none"
<1>1. due # NoCall /\ due.to \notin Tasks
  BY TaskAssumption DEF NoCall, Calls
<1>2. auth # "ok"
  BY <1>1 DEF SessionInv, Nothing, InHand, Pending
<1> QED BY <1>1, <1>2 DEF LoginInv, Nothing, Pending, Handshake, TypeOK

\* Every step preserves the invariant: one step of the proof per action.
LEMMA IStep == TypeOK /\ IInv /\ [Next]_vars => IInv'
<1> SUFFICES ASSUME TypeOK, IInv, [Next]_vars, sock' = "open"
             PROVE  /\ alive'
                    /\ crashed' => wire' = <<>>
                    /\ ~crashed' => LoginInv' /\ SessionInv'
  BY DEF IInv
<1> DEFINE Goal == /\ alive'
                   /\ crashed' => wire' = <<>>
                   /\ ~crashed' => LoginInv' /\ SessionInv'
<1> SUFFICES Goal
  OBVIOUS
<1>1. CASE Connect
  <2>1. Nothing /\ alive /\ ~crashed /\ auth = "none"
    BY <1>1 DEF Connect, UserRuns, IInv, LoginInv
  <2>2. ~running /\ ~busy /\ receive = "none" /\ emitting = <<>>
    BY <1>1, <2>1 DEF Connect, IInv, LoginInv
  <2>3. wire' = <<"authenticate">> /\ ticks' = <<>>
    BY <1>1, <2>1 DEF Connect, Write, Nothing, Pending
  <2>4. Handshake("authenticate")'
    BY <1>1, <2>1, <2>3 DEF Connect, Handshake, Nothing, Pending, jsVars, taskVars
  <2> QED BY <1>1, <2>1, <2>2, <2>4 DEF Connect, LoginInv, SessionInv, queueVars, jsVars
<1>2. CASE UserDestroy
  BY <1>2 DEF UserDestroy
<1>3. ASSUME NEW t \in Requests \cup Executes, UserEnqueue(t) PROVE Goal
  <2>1. t \in Tasks
    BY DEF Tasks
  <2> QED BY <1>3, <2>1, EnqueueSafe DEF UserEnqueue, UserRuns
<1>4. ASSUME NEW d \in Disconnects, UserDisconnect(d) PROVE Goal
  <2>1. d \in Tasks
    BY DEF Tasks
  <2>2. CASE Enqueue(d)
    BY <1>4, <2>1, <2>2, EnqueueSafe DEF UserDisconnect, UserRuns
  <2>3. CASE UNCHANGED <<socketVars, receive, queue, busy, running, gaps, due>>
    <3>1. UNCHANGED <<sock, ticks, wire, receive, busy, running, queue, due, stack, gaps,
                      hsReceive, alive, auth, crashed, emitting>>
      BY <1>4, <2>3 DEF UserDisconnect, socketVars
    <3> QED BY <3>1 DEF IInv, LoginInv, SessionInv, Nothing, Pending, Handshake, InHand
  <2> QED BY <1>4, <2>2, <2>3 DEF UserDisconnect, queueVars
<1>5. ASSUME NEW c \in Closes, UserClose(c) PROVE Goal
  <2>1. sock = "open" /\ UNCHANGED <<ticks, wire, receive, busy, running, queue, due, stack, gaps,
                                    hsReceive, alive, auth, crashed, emitting>>
    BY <1>5 DEF UserClose, stateVars, jsVars, taskVars, Destroyed
  <2> QED BY <2>1 DEF IInv, LoginInv, SessionInv, Nothing, Pending, Handshake, InHand
<1>6. CASE CallbackReturns
  <2>1. sock = "open"
    BY <1>6 DEF CallbackReturns, Dequeue, Run, SendPacket, Write, socketVars
  <2>2. ~crashed /\ alive /\ LoginInv /\ SessionInv /\ stack # <<>>
    BY <1>6, <2>1 DEF CallbackReturns, UserRuns, IInv
  <2>3. auth = "ok"
    BY <2>2 DEF LoginInv, Nothing, Pending, Handshake, TypeOK
  <2>4. PICK t \in Tasks : InHand(t)
    BY <2>2, <2>3 DEF SessionInv, Nothing, Pending
  <2>5. wire = <<>> /\ gaps = {} /\ due = NoCall /\ stack = <<t>> /\ ticks = <<>>
    BY <2>2, <2>4 DEF InHand, Pending
  <2>6. stack' = <<>> /\ running = TRUE /\ hsReceive = "none"
    BY <1>6, <2>2, <2>3, <2>5 DEF CallbackReturns, SessionInv, TypeOK
  <2>7. /\ running'
        /\ ~busy' => Nothing' /\ queue' = <<>>
        /\ busy' => \E u \in Tasks : InHand(u)'
    <3>1. CASE Dequeue(queue, FALSE, running)
      <4>1. Dequeue(queue, FALSE, TRUE) /\ queue \in Seq(Tasks)
        BY <3>1, <2>6 DEF TypeOK
      <4> QED BY <4>1, <2>1, <2>5, <2>6, DequeueTakes
    <3>2. CASE /\ queue = <<>>
               /\ busy' = FALSE
               /\ UNCHANGED <<socketVars, msgType, session, receive, queue, running, gaps, due>>
      BY <3>2, <2>5, <2>6 DEF Nothing, Pending, socketVars
    <3> QED BY <1>6, <3>1, <3>2 DEF CallbackReturns
  <2> QED BY <1>6, <2>2, <2>3, <2>6, <2>7 DEF CallbackReturns, LoginInv, SessionInv
<1>7. CASE DrainListener
  <2>1. CASE Head(emitting) \in Disconnects /\ Enqueue(Head(emitting))
    <3>1. Head(emitting) \in Tasks
      BY <2>1 DEF Tasks
    <3>2. sock = "open"
      BY <2>1, EnqueueStaysOpen
    <3>3. auth = "ok"
      BY <1>7, <3>2 DEF DrainListener, IInv, LoginInv
    <3> QED BY <1>7, <2>1, <3>1, <3>3, EnqueueSafe DEF DrainListener
  <2>2. CASE sock' = Destroyed(sock)
    BY <2>2 DEF Destroyed
  <2> QED BY <1>7, <2>1, <2>2 DEF DrainListener
<1>8. CASE TaskReceive
  <2>1. sock = "open" /\ due.to \in Tasks /\ ~crashed
    BY <1>8 DEF TaskReceive, Destroyed, Tasks
  <2>2. alive /\ LoginInv /\ SessionInv
    BY <2>1 DEF IInv
  <2>3. auth = "ok" /\ busy /\ wire = <<>> /\ gaps = {} /\ stack = <<>> /\ ticks = <<>>
    BY <2>1, <2>2, DueTask
  <2>. PICK t \in Tasks : t = due.to
    BY <2>1
  <2>4. Pending(<<>>, {}, NoCall, <<t>>, <<>>)'
    BY <1>8, <2>3 DEF TaskReceive, Settle, Pending, taskVars
  <2>5. InHand(t)'
    BY <2>4 DEF InHand, Pending
  <2>6. UNCHANGED <<auth, busy, hsReceive, running, alive, crashed>>
    BY <1>8 DEF TaskReceive, stateVars, queueVars
  <2> QED BY <2>1, <2>2, <2>3, <2>5, <2>6 DEF LoginInv, SessionInv
<1>9. CASE ExecuteReceive
  <2>1. sock = "open" /\ due.to \in Tasks /\ due.to \in Executes /\ ~crashed
    BY <1>9 DEF ExecuteReceive, ExecuteSends, SendPacket, Write, Tasks, socketVars
  <2>2. alive /\ LoginInv /\ SessionInv
    BY <2>1 DEF IInv
  <2>3. auth = "ok" /\ busy /\ wire = <<>> /\ gaps = {} /\ stack = <<>> /\ ticks = <<>>
    BY <2>1, <2>2, DueTask
  <2>. PICK t \in Executes : t = due.to
    BY <2>1
  <2>4. t \in Tasks /\ InHand(t)' /\ UNCHANGED crashed
    <3>1. CASE Settle(due.to) /\ UNCHANGED <<socketVars, msgType, session, receive, gaps, rounds, crashed>>
      <4>1. Pending(<<>>, {}, NoCall, <<t>>, <<>>)'
        BY <2>3, <3>1 DEF Settle, Pending, socketVars
      <4> QED BY <2>1, <3>1, <4>1 DEF InHand, Pending
    <3>2. CASE /\ gaps' = gaps \cup {due.to} /\ due' = NoCall
               /\ UNCHANGED <<socketVars, msgType, session, receive, stack, calls, rounds, crashed>>
      <4>1. Pending(<<>>, {t}, NoCall, <<>>, <<>>)'
        BY <2>3, <3>2 DEF Pending, socketVars
      <4> QED BY <2>1, <3>2, <4>1 DEF InHand, Pending
    <3>3. CASE ExecuteSends(due.to) /\ due' = NoCall /\ UNCHANGED <<gaps, stack, calls>>
      <4>1. SendPacket(due.to) /\ UNCHANGED crashed
        BY <2>2, <3>3 DEF ExecuteSends
      <4>2. wire' = <<t>> /\ ticks' = <<>> /\ receive' = t
        BY <2>1, <2>3, <4>1 DEF SendPacket, Write
      <4> QED BY <2>1, <2>3, <3>3, <4>1, <4>2 DEF InHand, Pending
    <3> QED BY <1>9, <2>1, <3>1, <3>2, <3>3 DEF ExecuteReceive
  <2>5. UNCHANGED <<auth, busy, hsReceive, running, alive>>
    BY <1>9 DEF ExecuteReceive, queueVars
  <2> QED BY <2>1, <2>2, <2>3, <2>4, <2>5 DEF LoginInv, SessionInv
<1>10. CASE AuthReceive
  <2>1. sock = "open" /\ due.to = "authenticate" /\ ~crashed
    BY <1>10 DEF AuthReceive, SendConnect, Write, socketVars
  <2>2. alive /\ LoginInv /\ SessionInv
    BY <2>1 DEF IInv
  <2>3. /\ auth = "authenticate" /\ wire = <<>> /\ gaps = {} /\ stack = <<>> /\ ticks = <<>>
        /\ hsReceive = "none"
    BY <2>1, <2>2, DueHandshake
  <2>4. ~running /\ ~busy /\ receive = "none" /\ emitting = <<>>
    BY <2>2, <2>3 DEF LoginInv
  <2>5. UNCHANGED <<alive, receive, busy, running, emitting, stack, gaps, crashed>> /\ due' = NoCall
    BY <1>10 DEF AuthReceive, queueVars, taskVars
  <2>6. CASE auth' \in {"failed", "proof"} /\ UNCHANGED <<socketVars, msgType, hsReceive>>
    BY <2>2, <2>3, <2>4, <2>5, <2>6 DEF LoginInv, SessionInv, Nothing, Pending, socketVars
  <2>7. CASE SendConnect
    <3>1. wire' = <<"connect">> /\ ticks' = <<>> /\ auth' = "connect" /\ hsReceive' = "connect"
      BY <2>1, <2>3, <2>7 DEF SendConnect, Write
    <3>2. Handshake("connect")'
      BY <2>3, <2>5, <3>1 DEF Handshake, Pending
    <3> QED BY <2>1, <2>2, <2>3, <2>4, <2>5, <3>1, <3>2 DEF LoginInv, SessionInv
  <2> QED BY <1>10, <2>6, <2>7 DEF AuthReceive
<1>11. CASE ConnReceive
  <2>1. sock = "open" /\ due.to = "connect" /\ ~crashed
    BY <1>11 DEF ConnReceive, Dequeue, Run, SendPacket, Write, socketVars
  <2>2. alive /\ LoginInv /\ SessionInv
    BY <2>1 DEF IInv
  <2>3. /\ auth = "connect" /\ wire = <<>> /\ gaps = {} /\ stack = <<>> /\ ticks = <<>>
        /\ hsReceive = "none"
    BY <2>1, <2>2, DueHandshake
  <2>4. ~running /\ ~busy /\ receive = "none" /\ emitting = <<>>
    BY <2>2, <2>3 DEF LoginInv
  <2>5. UNCHANGED <<alive, hsReceive, emitting, stack>>
    BY <1>11 DEF ConnReceive
  <2>6. CASE /\ auth' = "failed" /\ due' = NoCall
             /\ UNCHANGED <<socketVars, msgType, session, receive, queueVars, gaps, crashed>>
    BY <2>2, <2>3, <2>4, <2>5, <2>6 DEF LoginInv, SessionInv, Nothing, Pending, socketVars, queueVars
  <2>7. CASE crashed' = TRUE /\ UNCHANGED socketVars
    BY <2>2, <2>3, <2>5, <2>7 DEF socketVars
  <2>8. CASE auth' = "ok" /\ Dequeue(queue, busy, TRUE) /\ UNCHANGED crashed
    <3>1. Dequeue(queue, FALSE, TRUE) /\ queue \in Seq(Tasks)
      BY <2>4, <2>8 DEF TypeOK
    <3>2. /\ running'
          /\ ~busy' => Nothing' /\ queue' = <<>>
          /\ busy' => \E u \in Tasks : InHand(u)'
      BY <2>1, <2>3, <2>5, <3>1, DequeueTakes
    <3> QED BY <2>1, <2>2, <2>3, <2>5, <2>8, <3>2 DEF LoginInv, SessionInv
  <2> QED BY <1>11, <2>6, <2>7, <2>8 DEF ConnReceive
<1>12. CASE NextTick
  <2>1. sock = "open" /\ ~crashed /\ ticks # <<>>
    BY <1>12 DEF NextTick, StackEmpty, UserRuns
  <2>2. alive /\ LoginInv /\ SessionInv
    BY <2>1 DEF IInv
  <2>3. auth = "ok" /\ busy
    BY <2>1, <2>2 DEF LoginInv, SessionInv, Nothing, Pending, Handshake, TypeOK
  <2>4. PICK t \in Tasks : InHand(t)
    BY <2>2, <2>3 DEF SessionInv
  <2>5. wire = <<>> /\ gaps = {} /\ stack = <<>> /\ ticks = <<t>>
    BY <2>1, <2>4 DEF InHand, Pending
  <2>6. Head(ticks) = t /\ Tail(ticks) = <<>> /\ t # "error"
    BY <2>5, TaskAssumption DEF Calls
  <2>7. /\ due' = [to |-> t, err |-> TRUE] /\ ticks' = <<>>
        /\ UNCHANGED <<hsReceive, receive, wire, alive, busy, running, stack, gaps, auth, crashed>>
    BY <1>12, <2>6 DEF NextTick, queueVars, taskVars
  <2>8. InHand(t)'
    BY <2>5, <2>7 DEF InHand, Pending
  <2> QED BY <2>1, <2>2, <2>3, <2>7, <2>8 DEF LoginInv, SessionInv
<1>13. CASE ServerReply
  <2>1. sock = "open" /\ ~crashed /\ wire # <<>>
    BY <1>13 DEF ServerReply, EventLoop, StackEmpty, UserRuns
  <2>2. alive /\ LoginInv /\ SessionInv
    BY <2>1 DEF IInv
  <2>3. PICK r \in Replies(Head(wire)) :
           /\ due' = [to |-> Receiver, err |-> r # "ok" /\ Receiver # "none"]
           /\ sock' = IF r = "fatal" THEN "destroyed" ELSE sock
           /\ ticks' = IF r = "fatal" THEN Append(ticks, "error") ELSE ticks
    BY <1>13 DEF ServerReply
  <2>4. ticks' = ticks /\ ticks = <<>> /\ stack = <<>>
    BY <1>13, <2>3 DEF ServerReply, EventLoop, StackEmpty
  <2>5. /\ wire' = Tail(wire) /\ hsReceive' = "none" /\ receive' = "none"
        /\ UNCHANGED <<alive, busy, running, emitting, stack, gaps, auth, crashed>>
    BY <1>13 DEF ServerReply, queueVars, taskVars
  <2>6. CASE auth = "ok"
    <3>1. busy /\ hsReceive = "none"
      BY <2>1, <2>2, <2>6 DEF SessionInv, Nothing, Pending
    <3>2. PICK t \in Tasks : InHand(t)
      BY <2>2, <2>6, <3>1 DEF SessionInv
    <3>3. wire = <<t>> /\ receive = t /\ gaps = {}
      BY <2>1, <3>2 DEF InHand, Pending
    <3>4. Receiver = t
      BY <3>1, <3>3 DEF Receiver
    <3>5. (r # "ok" /\ Receiver # "none") \in BOOLEAN
      OBVIOUS
    <3>6. \E e \in BOOLEAN : due' = [to |-> t, err |-> e]
      BY <2>3, <3>4, <3>5
    <3>7. InHand(t)'
      BY <2>4, <2>5, <3>3, <3>6 DEF InHand, Pending
    <3> QED BY <2>1, <2>2, <2>5, <2>6, <3>1, <3>7 DEF LoginInv, SessionInv
  <2>7. CASE auth # "ok"
    <3>1. PICK p \in {"authenticate", "connect"} : auth = p /\ Handshake(p)
      BY <2>1, <2>2, <2>7 DEF LoginInv, Nothing, Pending, TypeOK
    <3>2. wire = <<p>> /\ gaps = {} /\ hsReceive = p
      BY <2>1, <3>1 DEF Handshake, Pending
    <3>3. Receiver = p
      BY <3>2 DEF Receiver
    <3>4. (r # "ok" /\ Receiver # "none") \in BOOLEAN
      OBVIOUS
    <3>5. \E e \in BOOLEAN : due' = [to |-> p, err |-> e]
      BY <2>3, <3>3, <3>4
    <3>6. Handshake(p)'
      BY <2>4, <2>5, <3>2, <3>5 DEF Handshake, Pending
    <3>7. ~running /\ ~busy /\ emitting = <<>>
      BY <2>2, <2>7 DEF LoginInv
    <3> QED BY <2>1, <2>2, <2>5, <3>1, <3>6, <3>7 DEF LoginInv, SessionInv
  <2> QED BY <2>6, <2>7
<1>14. CASE ProofReady
  <2>1. sock = "open" /\ ~crashed /\ auth = "proof"
    BY <1>14 DEF ProofReady, EventLoop, StackEmpty, UserRuns, SendConnect, Write, socketVars
  <2>2. alive /\ LoginInv /\ SessionInv
    BY <2>1 DEF IInv
  <2>3. SendConnect /\ UNCHANGED crashed
    BY <1>14, <2>2 DEF ProofReady
  <2>4. Nothing /\ ~running /\ ~busy /\ receive = "none" /\ emitting = <<>>
    BY <2>1, <2>2 DEF LoginInv
  <2>5. wire' = <<"connect">> /\ ticks' = <<>> /\ auth' = "connect" /\ hsReceive' = "connect"
    BY <2>1, <2>3, <2>4 DEF SendConnect, Write, Nothing, Pending
  <2>6. UNCHANGED <<alive, receive, busy, running, emitting, due, stack, gaps>>
    BY <1>14 DEF ProofReady, queueVars, jsVars, taskVars
  <2>7. Handshake("connect")'
    BY <2>4, <2>5, <2>6 DEF Handshake, Nothing, Pending
  <2> QED BY <2>1, <2>2, <2>3, <2>4, <2>5, <2>6, <2>7 DEF LoginInv, SessionInv
<1>15. CASE SocketClose
  BY <1>15 DEF SocketClose
<1>16. ASSUME NEW t \in Executes, ParametersReady(t) PROVE Goal
  <2>1. sock = "open" /\ ~crashed /\ t \in gaps
    BY <1>16 DEF ParametersReady, EventLoop, StackEmpty, UserRuns, ExecuteSends, SendPacket, Write,
                socketVars
  <2>2. alive /\ LoginInv /\ SessionInv
    BY <2>1 DEF IInv
  <2>3. auth = "ok" /\ busy
    BY <2>1, <2>2 DEF LoginInv, SessionInv, Nothing, Pending, Handshake, TypeOK
  <2>4. PICK u \in Tasks : InHand(u)
    BY <2>2, <2>3 DEF SessionInv
  <2>5. wire = <<>> /\ gaps = {t} /\ due = NoCall /\ stack = <<>> /\ ticks = <<>>
    BY <2>1, <2>4 DEF InHand, Pending
  <2>6. t \in Tasks /\ gaps' = {}
    BY <1>16, <2>5 DEF ParametersReady, Tasks
  <2>7. UNCHANGED <<alive, hsReceive, busy, running, stack, auth>>
    BY <1>16 DEF ParametersReady, queueVars
  <2>8. InHand(t)' /\ UNCHANGED crashed
    <3>1. CASE ExecuteSends(t) /\ UNCHANGED due
      <4>1. SendPacket(t) /\ UNCHANGED crashed
        BY <2>2, <3>1 DEF ExecuteSends
      <4>2. wire' = <<t>> /\ ticks' = <<>> /\ receive' = t
        BY <2>1, <2>5, <4>1 DEF SendPacket, Write
      <4> QED BY <2>5, <2>6, <2>7, <3>1, <4>1, <4>2 DEF InHand, Pending
    <3>2. CASE /\ due' = [to |-> t, err |-> TRUE]
               /\ UNCHANGED <<socketVars, msgType, session, receive, rounds, crashed>>
      BY <2>5, <2>6, <2>7, <3>2 DEF InHand, Pending, socketVars
    <3> QED BY <1>16, <3>1, <3>2 DEF ParametersReady
  <2> QED BY <2>1, <2>2, <2>3, <2>6, <2>7, <2>8 DEF LoginInv, SessionInv
<1>17. CASE ServerFin
  BY <1>17 DEF ServerFin
<1>18. CASE SocketReset
  BY <1>18 DEF SocketReset
<1>19. CASE UNCHANGED vars
  <2>1. UNCHANGED <<sock, ticks, wire, receive, busy, running, queue, due, stack, gaps,
                    hsReceive, alive, auth, crashed, emitting>>
    BY <1>19 DEF vars, socketVars, stateVars, queueVars, jsVars, taskVars
  <2> QED BY <2>1 DEF IInv, LoginInv, SessionInv, Nothing, Pending, Handshake, InHand
<1> QED
  BY <1>1, <1>2, <1>3, <1>4, <1>5, <1>6, <1>7, <1>8, <1>9, <1>10, <1>11, <1>12, <1>13, <1>14,
     <1>15, <1>16, <1>17, <1>18, <1>19
     DEF Next, UserStep, HandlerStep, EventStep, FaultStep

\* The invariant holds throughout every behaviour of the connection.
LEMMA Inductive == Spec => [](TypeOK /\ IInv)
<1>1. Init => TypeOK /\ IInv
  BY TypeInit, IInit
<1>2. TypeOK /\ IInv /\ [Next]_vars => TypeOK' /\ IInv'
  BY TypeStep, IStep
<1> QED BY <1>1, <1>2, PTL DEF Spec

\* On an open connection there is at most one packet without an answer, and the callback
\* that the next reply is handed to is the one of that packet's sender.
THEOREM RepliesMatch == Spec => []ReplyMatchesRequest
<1>1. TypeOK /\ IInv => ReplyMatchesRequest
  <2> SUFFICES ASSUME TypeOK, IInv, sock = "open", wire # <<>>
               PROVE  Len(wire) = 1 /\ Receiver = Head(wire)
    BY DEF ReplyMatchesRequest
  <2>1. ~crashed /\ LoginInv /\ SessionInv
    BY DEF IInv
  <2>2. CASE auth = "ok"
    <3>1. PICK t \in Tasks : InHand(t)
      BY <2>1, <2>2 DEF SessionInv, Nothing, Pending
    <3>2. wire = <<t>> /\ receive = t /\ hsReceive = "none"
      BY <2>1, <2>2, <3>1 DEF SessionInv, InHand, Pending
    <3> QED BY <3>2 DEF Receiver
  <2>3. CASE auth # "ok"
    <3>1. PICK p \in {"authenticate", "connect"} : Handshake(p)
      BY <2>1, <2>3 DEF LoginInv, Nothing, Pending, TypeOK
    <3>2. wire = <<p>> /\ hsReceive = p
      BY <3>1 DEF Handshake, Pending
    <3> QED BY <3>2 DEF Receiver
  <2> QED BY <2>2, <2>3
<1> QED BY <1>1, Inductive, PTL

\* While the connection is open, no packet of a task is on the wire before the session exists.
THEOREM LoginFirst == Spec => []NoRequestBeforeSession
<1>1. TypeOK /\ IInv => NoRequestBeforeSession
  <2> SUFFICES ASSUME TypeOK, IInv, sock = "open", auth # "ok"
               PROVE  Elements(wire) \cap Tasks = {}
    BY DEF NoRequestBeforeSession
  <2>1. LoginInv \/ wire = <<>>
    BY DEF IInv
  <2>2. wire \in {<<>>, <<"authenticate">>, <<"connect">>}
    BY <2>1 DEF LoginInv, Nothing, Pending, Handshake, TypeOK
  <2>3. Elements(wire) \subseteq {"authenticate", "connect"}
    BY <2>2 DEF Elements
  <2> QED BY <2>3, TaskAssumption DEF Calls
<1> QED BY <1>1, Inductive, PTL

\* While the connection is open, a busy queue has something that will call next(), and a
\* running queue with waiting tasks is busy.
THEOREM NoStall == Spec => []QueueNeverStalls
<1>1. TypeOK /\ IInv => QueueNeverStalls
  <2> SUFFICES ASSUME TypeOK, IInv, sock = "open", running, ~crashed
               PROVE  /\ busy => (wire # <<>> \/ gaps # {} \/ due # NoCall \/ stack # <<>>
                                    \/ ticks # <<>>)
                      /\ queue # <<>> => busy
    BY DEF QueueNeverStalls
  <2>1. auth = "ok" /\ SessionInv
    BY DEF IInv, LoginInv
  <2>2. CASE busy
    <3>1. PICK t \in Tasks : InHand(t)
      BY <2>1, <2>2 DEF SessionInv
    <3>2. t # "none"
      BY TaskAssumption DEF Calls
    <3> QED BY <2>2, <3>1, <3>2 DEF InHand, Pending, NoCall
  <2>3. CASE ~busy
    BY <2>1, <2>3 DEF SessionInv
  <2> QED BY <2>2, <2>3
<1> QED BY <1>1, Inductive, PTL

-----------------------------------------------------------------------------
(***************************************************************************)
(* One callback for each task.  A task whose packet can be sent is in one  *)
(* place at a time - queued, waiting for 'drain', collecting parameters,   *)
(* expecting a reply or about to be called back - and in none before it is *)
(* issued and after it has been called back.                               *)
(***************************************************************************)

Sendable == Tasks \ (TooLarge \cup Unwritable)

OnceIn(t, s) == \A i, j \in DOMAIN s : s[i] = t /\ s[j] = t => i = j

\* Task t has left the queue and has not been called back.
Started(t) == t \in gaps \/ due.to = t \/ receive = t

StartedOnce(t) ==
  /\ t \in gaps => due.to # t /\ receive # t
  /\ due.to = t => receive # t

Waiting(t) == t \in Elements(queue) \/ t \in Elements(drain) \/ t \in Elements(emitting)

WaitsOnce(t) ==
  /\ OnceIn(t, queue) /\ OnceIn(t, drain) /\ OnceIn(t, emitting)
  /\ t \in Elements(queue) => t \notin Elements(drain) /\ t \notin Elements(emitting)
  /\ t \in Elements(drain) => t \notin Elements(emitting)

OncePerTask(t) ==
  /\ calls[t] <= 1
  /\ ~crashed =>
       /\ t \notin Elements(ticks)
       /\ t \notin issued => ~Waiting(t) /\ ~Started(t) /\ calls[t] = 0
       /\ Waiting(t) \/ Started(t) => calls[t] = 0
       /\ StartedOnce(t) /\ WaitsOnce(t)
       /\ Waiting(t) => ~Started(t)

OnceInv == \A t \in Sendable : OncePerTask(t)

\* The invariant holds when open() has just succeeded.
LEMMA OnceInit == Init => \A t \in Sendable : OncePerTask(t)
<1> SUFFICES ASSUME Init, NEW t \in Sendable PROVE OncePerTask(t)
  OBVIOUS
<1>1. t # "none"
  BY TaskAssumption DEF Sendable, Calls
<1>2. /\ calls[t] = 0 /\ issued = {} /\ ticks = <<>>
      /\ queue = <<>> /\ drain = <<>> /\ emitting = <<>>
      /\ gaps = {} /\ due.to = "none" /\ receive = "none"
  BY DEF Init, Sendable, NoCall
<1>3. ~Waiting(t) /\ ~Started(t) /\ StartedOnce(t)
  BY <1>1, <1>2 DEF Waiting, Started, StartedOnce, Elements
<1> QED BY <1>2, <1>3 DEF OncePerTask, WaitsOnce, OnceIn, Elements

\* What is appended to a sequence is the only element that is new.
LEMMA AppendOnce ==
  ASSUME NEW S, NEW s \in Seq(S), NEW x \in S, NEW t
  PROVE  /\ t \in Elements(Append(s, x)) <=> t \in Elements(s) \/ t = x
         /\ OnceIn(t, s) /\ (t = x => t \notin Elements(s)) => OnceIn(t, Append(s, x))
<1> DEFINE a == Append(s, x)
<1>1. /\ DOMAIN a = 1 .. (Len(s) + 1) /\ DOMAIN s = 1 .. Len(s) /\ Len(s) \in Nat
      /\ \A i \in 1 .. Len(s) : a[i] = s[i]
      /\ a[Len(s) + 1] = x
  BY AppendProperties, LenProperties
<1> HIDE DEF a
<1>2. t \in Elements(a) <=> t \in Elements(s) \/ t = x
  BY <1>1 DEF Elements
<1>3. ASSUME OnceIn(t, s), t = x => t \notin Elements(s) PROVE OnceIn(t, a)
  <2> SUFFICES ASSUME NEW i \in DOMAIN a, NEW j \in DOMAIN a, a[i] = t, a[j] = t
               PROVE  i = j
    BY DEF OnceIn
  <2>1. CASE t = x
    BY <1>1, <1>3, <2>1 DEF Elements
  <2>2. CASE t # x
    BY <1>1, <1>3, <2>2 DEF OnceIn
  <2> QED BY <2>1, <2>2
<1> QED BY <1>2, <1>3 DEF a

\* An element that is taken from the front of a sequence which holds it once is gone.
LEMMA TailOnce ==
  ASSUME NEW S, NEW s \in Seq(S), s # <<>>, NEW t
  PROVE  /\ t \in Elements(Tail(s)) => t \in Elements(s)
         /\ Head(s) \in Elements(s)
         /\ OnceIn(t, s) => OnceIn(t, Tail(s)) /\ (t = Head(s) => t \notin Elements(Tail(s)))
<1> DEFINE a == Tail(s)
<1>1. /\ DOMAIN a = 1 .. (Len(s) - 1) /\ DOMAIN s = 1 .. Len(s) /\ Len(s) \in Nat \ {0}
      /\ \A i \in 1 .. (Len(s) - 1) : a[i] = s[i + 1]
      /\ Head(s) = s[1]
  BY HeadTailProperties, LenProperties, EmptySeq
<1> HIDE DEF a
<1>2. (t \in Elements(a) => t \in Elements(s)) /\ Head(s) \in Elements(s)
  BY <1>1 DEF Elements
<1>3. ASSUME OnceIn(t, s) PROVE OnceIn(t, a)
  <2> SUFFICES ASSUME NEW i \in DOMAIN a, NEW j \in DOMAIN a, a[i] = t, a[j] = t
               PROVE  i = j
    BY DEF OnceIn
  <2>1. i + 1 \in DOMAIN s /\ j + 1 \in DOMAIN s /\ s[i + 1] = t /\ s[j + 1] = t
    BY <1>1
  <2>2. i + 1 = j + 1
    BY <1>3, <2>1 DEF OnceIn
  <2> QED BY <1>1, <2>2
<1>4. ASSUME OnceIn(t, s), t = Head(s) PROVE t \notin Elements(a)
  <2> SUFFICES ASSUME NEW i \in DOMAIN a, a[i] = t PROVE FALSE
    BY DEF Elements
  <2>1. i + 1 \in DOMAIN s /\ 1 \in DOMAIN s /\ s[i + 1] = t /\ s[1] = t /\ i + 1 # 1
    BY <1>1, <1>4
  <2> QED BY <1>4, <2>1 DEF OnceIn
<1> QED BY <1>2, <1>3, <1>4 DEF a

\* Task.run or ExecuteTask.run puts its task into one place and moves no other.
LEMMA RunOnce ==
  ASSUME NEW t \in Sendable, NEW u \in Tasks, Run(u), ticks \in Seq({"error"} \cup Tasks),
         t \notin Elements(ticks), StartedOnce(t), t = u => ~Started(t)
  PROVE  /\ t \notin Elements(ticks')
         /\ StartedOnce(t)'
         /\ Started(t)' => Started(t) \/ t = u
<1>1. t # "none" /\ t # "error"
  BY TaskAssumption DEF Sendable, Calls
<1>2. CASE gaps' = gaps \cup {u} /\ due' = NoCall
           /\ UNCHANGED <<socketVars, msgType, session, receive>>
  BY <1>1, <1>2 DEF Started, StartedOnce, NoCall, socketVars
<1>3. CASE /\ due' = [to |-> u, err |-> TRUE]
           /\ UNCHANGED <<socketVars, msgType, session, receive, gaps>>
  BY <1>1, <1>3 DEF Started, StartedOnce, socketVars
<1>4. CASE /\ u \in TooLarge
           /\ msgType' = "other" /\ receive' = u
           /\ due' = [to |-> u, err |-> TRUE]
           /\ UNCHANGED <<socketVars, session, gaps>>
  BY <1>1, <1>4 DEF Started, StartedOnce, socketVars, Sendable
<1>5. CASE /\ u \in Unwritable
           /\ msgType' = "other" /\ receive' = u
           /\ ticks' = Append(ticks, u)
           /\ due' = NoCall
           /\ UNCHANGED <<sock, wire, session, gaps>>
  <2>1. t # u
    BY <1>5 DEF Sendable
  <2>2. t \notin Elements(ticks')
    BY <1>5, <2>1, AppendOnce
  <2> QED BY <1>1, <1>5, <2>1, <2>2 DEF Started, StartedOnce, NoCall
<1>6. CASE SendPacket(u) /\ due' = NoCall /\ UNCHANGED gaps
  <2>1. t \notin Elements(ticks')
    <3>1. ticks' = ticks \/ ticks' = Append(ticks, "error")
      BY <1>6 DEF SendPacket, Write
    <3>2. t \notin Elements(Append(ticks, "error"))
      BY <1>1, AppendOnce
    <3> QED BY <3>1, <3>2
  <2> QED BY <1>1, <1>6, <2>1 DEF Started, StartedOnce, NoCall, SendPacket
<1> QED BY <1>2, <1>3, <1>4, <1>5, <1>6 DEF Run

\* Queue.dequeue starts a task that it has taken from the queue.
LEMMA DequeueOnce ==
  ASSUME NEW t \in Sendable, NEW q \in Seq(Tasks), NEW b, NEW r, Dequeue(q, b, r),
         ticks \in Seq({"error"} \cup Tasks), t \notin Elements(ticks),
         StartedOnce(t), OnceIn(t, q), t \in Elements(q) => ~Started(t)
  PROVE  /\ t \notin Elements(ticks')
         /\ StartedOnce(t)' /\ OnceIn(t, queue')
         /\ t \in Elements(queue') => t \in Elements(q) /\ ~Started(t)'
         /\ Started(t)' => Started(t) \/ t \in Elements(q)
<1>1. CASE MayRun(q, b, r)
  <2>1. q # <<>> /\ queue' = Tail(q) /\ Run(Head(q))
    BY <1>1 DEF Dequeue, MayRun
  <2>2. Head(q) \in Tasks /\ Head(q) \in Elements(q)
    BY <2>1, HeadTailProperties, TailOnce
  <2>3. /\ t \notin Elements(ticks') /\ StartedOnce(t)'
        /\ Started(t)' => Started(t) \/ t = Head(q)
    BY <2>1, <2>2, RunOnce
  <2>4. /\ OnceIn(t, queue')
        /\ t \in Elements(queue') => t \in Elements(q) /\ t # Head(q)
    BY <2>1, TailOnce
  <2> QED BY <2>2, <2>3, <2>4
<1>2. CASE ~MayRun(q, b, r)
  <2>1. queue' = q /\ due' = NoCall /\ UNCHANGED <<socketVars, receive, gaps>>
    BY <1>2 DEF Dequeue
  <2>2. t # "none"
    BY TaskAssumption DEF Sendable, Calls
  <2> QED BY <2>1, <2>2 DEF Started, StartedOnce, socketVars, NoCall
<1> QED BY <1>1, <1>2

\* An 'error' event on the nextTick queue is no callback of a task.
LEMMA ErrorOnce ==
  ASSUME TypeOK, NEW t \in Sendable, t \notin Elements(ticks),
         ticks' = ticks \/ ticks' = Append(ticks, "error")
  PROVE  t \notin Elements(ticks')
<1>1. t # "error" /\ ticks \in Seq({"error"} \cup Tasks)
  BY TaskAssumption DEF Sendable, Calls, TypeOK
<1>2. t \notin Elements(Append(ticks, "error"))
  BY <1>1, AppendOnce
<1> QED BY <1>2

\* Counting a callback of the tasks T.
LEMMA CalledOnce ==
  ASSUME TypeOK, NEW t \in Sendable, NEW T
  PROVE  /\ calls[t] \in Nat
         /\ t \in T => Called(T)[t] = calls[t] + 1
         /\ t \notin T => Called(T)[t] = calls[t]
BY DEF TypeOK, Called, Sendable

\* Connection.enqueue either queues or starts its task, or calls it back.
LEMMA EnqueueOnce ==
  ASSUME TypeOK, NEW t \in Sendable, NEW u \in Tasks, Enqueue(u),
         t \notin Elements(ticks), StartedOnce(t), OnceIn(t, queue),
         t \in Elements(queue) => ~Started(t),
         t = u => ~Started(t) /\ t \notin Elements(queue)
  PROVE  /\ t \notin Elements(ticks')
         /\ StartedOnce(t)' /\ OnceIn(t, queue')
         /\ t \in Elements(queue') => ~Started(t)' /\ (t \in Elements(queue) \/ t = u)
         /\ Started(t)' => Started(t) \/ t \in Elements(queue) \/ t = u
         /\ \/ calls'[t] = calls[t]
            \/ t = u /\ calls'[t] = calls[t] + 1 /\ t \notin Elements(queue') /\ ~Started(t)'
<1>1. CASE Dequeue(Pushed(u), busy, running) /\ UNCHANGED calls
  <2>1. /\ Pushed(u) \in Seq(Tasks) /\ OnceIn(t, Pushed(u))
        /\ t \in Elements(Pushed(u)) <=> t \in Elements(queue) \/ t = u
    BY AppendOnce, AppendProperties DEF Pushed, TypeOK
  <2>2. ticks \in Seq({"error"} \cup Tasks)
    BY DEF TypeOK
  <2> QED BY <1>1, <2>1, <2>2, DequeueOnce
<1>2. CASE /\ calls' = Called({u})
           /\ UNCHANGED <<ticks, receive, queue, gaps, due>>
  <2>1. calls'[t] = IF t = u THEN calls[t] + 1 ELSE calls[t]
    BY <1>2, CalledOnce
  <2>2. Started(t)' <=> Started(t)
    BY <1>2 DEF Started
  <2>3. StartedOnce(t)'
    BY <1>2 DEF StartedOnce
  <2> QED BY <1>2, <2>1, <2>2, <2>3
<1> QED BY <1>1, <1>2 DEF Enqueue

\* What a step does to task t, put together.
LEMMA OnceFrom ==
  ASSUME NEW t,
         calls'[t] <= 1,
         ~crashed' => t \notin Elements(ticks'),
         ~crashed' => (t \notin issued' => ~Waiting(t)' /\ ~Started(t)' /\ calls'[t] = 0),
         ~crashed' => (Waiting(t)' \/ Started(t)' => calls'[t] = 0),
         ~crashed' => StartedOnce(t)' /\ WaitsOnce(t)',
         ~crashed' => (Waiting(t)' => ~Started(t)')
  PROVE  OncePerTask(t)'
BY DEF OncePerTask

\* Every step keeps it.
LEMMA OnceStep ==
  ASSUME TypeOK, NEW t \in Sendable, OncePerTask(t), [Next]_vars
  PROVE  OncePerTask(t)'
<1>1. CASE UNCHANGED vars
  BY <1>1 DEF vars, socketVars, stateVars, queueVars, jsVars, taskVars, OncePerTask, Waiting,
              Started, StartedOnce, WaitsOnce
<1>2. CASE Next
  <2>1. ~crashed
    BY <1>2 DEF Next, UserStep, HandlerStep, EventStep, FaultStep, Connect, UserDestroy,
       UserEnqueue, UserDisconnect, UserClose, CallbackReturns, DrainListener, TaskReceive,
       ExecuteReceive, AuthReceive, ConnReceive, NextTick, ServerReply, ProofReady, SocketClose,
       ParametersReady, ServerFin, SocketReset, EventLoop, StackEmpty, UserRuns
  <2>2. /\ calls[t] \in Nat /\ calls[t] <= 1
        /\ t \notin Elements(ticks)
        /\ t \notin issued => ~Waiting(t) /\ ~Started(t) /\ calls[t] = 0
        /\ Waiting(t) \/ Started(t) => calls[t] = 0
        /\ StartedOnce(t) /\ WaitsOnce(t)
        /\ Waiting(t) => ~Started(t)
    BY <2>1, CalledOnce DEF OncePerTask
  <2>3. t \in Tasks /\ t \notin Closes /\ t \notin {"none", "error", "authenticate", "connect"}
    BY TaskAssumption DEF Sendable, Calls
  <2>4. ASSUME UNCHANGED <<queue, drain, emitting>>
        PROVE  (Waiting(t)' <=> Waiting(t)) /\ WaitsOnce(t)'
    BY <2>2, <2>4 DEF Waiting, WaitsOnce
  <2>5. ASSUME UNCHANGED <<gaps, due, receive>>
        PROVE  (Started(t)' <=> Started(t)) /\ StartedOnce(t)'
    BY <2>2, <2>5 DEF Started, StartedOnce
  <2>6. CASE \/ Connect \/ UserDestroy \/ SocketReset \/ ProofReady
    <3>1. ticks' = ticks \/ ticks' = Append(ticks, "error")
      BY <2>6 DEF Connect, UserDestroy, SocketReset, ProofReady, SendConnect, Write, socketVars
    <3>2. UNCHANGED <<queue, drain, emitting, gaps, due, receive, calls, issued>>
      BY <2>6 DEF Connect, UserDestroy, SocketReset, ProofReady, stateVars, queueVars, jsVars,
                  taskVars
    <3> QED BY <2>2, <2>4, <2>5, <3>1, <3>2, ErrorOnce, OnceFrom
  <2>7. ASSUME NEW u \in Requests \cup Executes, UserEnqueue(u) PROVE OncePerTask(t)'
    <3>1. /\ Enqueue(u) /\ u \in Tasks /\ u \notin issued /\ issued' = issued \cup {u}
          /\ due = NoCall /\ UNCHANGED <<drain, emitting>>
      BY <2>7 DEF UserEnqueue, UserRuns, Tasks
    <3> QED BY <2>2, <3>1, EnqueueOnce, OnceFrom DEF Waiting, WaitsOnce
  <2>8. ASSUME NEW d \in Disconnects, UserDisconnect(d) PROVE OncePerTask(t)'
    <3>1. /\ d \in Tasks /\ d \notin issued /\ issued' = issued \cup {d}
          /\ due = NoCall /\ UNCHANGED emitting
      BY <2>8 DEF UserDisconnect, UserRuns, Tasks
    <3>2. CASE /\ calls' = Called({d})
               /\ UNCHANGED <<socketVars, msgType, session, receive, queueVars, gaps, due>>
      <4>1. calls'[t] = IF t = d THEN calls[t] + 1 ELSE calls[t]
        BY <3>2, CalledOnce
      <4>2. UNCHANGED <<ticks, queue, drain, gaps, due, receive>>
        BY <3>2 DEF socketVars, queueVars
      <4> QED BY <2>2, <2>4, <2>5, <3>1, <4>1, <4>2, OnceFrom
    <3>3. CASE Enqueue(d) /\ UNCHANGED <<hasQueue, drain>>
      BY <2>2, <3>1, <3>3, EnqueueOnce, OnceFrom DEF Waiting, WaitsOnce
    <3>4. CASE /\ drain' = Append(drain, d)
               /\ UNCHANGED <<socketVars, msgType, session, receive, hasQueue, queue, busy,
                              running, gaps, due, calls>>
      <4>1. /\ drain \in Seq(Closes \cup Disconnects) /\ UNCHANGED ticks
        BY <3>4 DEF TypeOK, socketVars
      <4>2. /\ t \in Elements(drain') <=> t \in Elements(drain) \/ t = d
            /\ t = d => t \notin Elements(drain)
            /\ OnceIn(t, drain')
        BY <2>2, <3>1, <3>4, <4>1, AppendOnce DEF Waiting, WaitsOnce
      <4>3. (Waiting(t)' <=> Waiting(t) \/ t = d) /\ WaitsOnce(t)'
        BY <2>2, <3>1, <3>4, <4>2 DEF Waiting, WaitsOnce
      <4> QED BY <2>2, <2>5, <3>1, <3>4, <4>1, <4>3, OnceFrom
    <3> QED BY <2>8, <3>2, <3>3, <3>4 DEF UserDisconnect
  <2>9. ASSUME NEW c \in Closes, UserClose(c) PROVE OncePerTask(t)'
    <3>1. /\ issued' = issued \cup {c} /\ t # c
          /\ UNCHANGED <<ticks, queue, emitting, gaps, due, receive, calls>>
      BY <2>3, <2>9 DEF UserClose, stateVars, jsVars, taskVars
    <3>2. drain' = drain \/ drain' = Append(drain, c)
      BY <2>9 DEF UserClose
    <3>3. /\ t \in Elements(drain') <=> t \in Elements(drain)
          /\ OnceIn(t, drain')
      <4>1. drain \in Seq(Closes \cup Disconnects)
        BY DEF TypeOK
      <4>2. /\ t \in Elements(Append(drain, c)) <=> t \in Elements(drain)
            /\ OnceIn(t, Append(drain, c))
        BY <2>2, <3>1, <4>1, AppendOnce DEF WaitsOnce
      <4> QED BY <2>2, <3>2, <4>2 DEF WaitsOnce
    <3>4. (Waiting(t)' <=> Waiting(t)) /\ WaitsOnce(t)'
      BY <2>2, <3>1, <3>3 DEF Waiting, WaitsOnce
    <3> QED BY <2>2, <2>5, <3>1, <3>4, OnceFrom
  <2>10. CASE CallbackReturns
    <3>1. due = NoCall /\ emitting = <<>> /\ UNCHANGED <<issued, calls>>
      BY <2>10 DEF CallbackReturns, UserRuns
    <3>2. CASE Dequeue(queue, FALSE, running) /\ UNCHANGED <<drain, emitting>>
      <4>1. queue \in Seq(Tasks) /\ ticks \in Seq({"error"} \cup Tasks)
        BY DEF TypeOK
      <4>2. OnceIn(t, queue) /\ (t \in Elements(queue) => ~Started(t))
        BY <2>2 DEF Waiting, WaitsOnce
      <4>3. /\ t \notin Elements(ticks')
            /\ StartedOnce(t)' /\ OnceIn(t, queue')
            /\ t \in Elements(queue') => t \in Elements(queue) /\ ~Started(t)'
            /\ Started(t)' => Started(t) \/ t \in Elements(queue)
        BY <2>2, <3>1, <3>2, <4>1, <4>2, DequeueOnce
      <4> QED BY <2>2, <3>1, <3>2, <4>3, OnceFrom DEF Waiting, WaitsOnce
    <3>3. CASE /\ emitting' = drain /\ drain' = <<>>
               /\ UNCHANGED <<socketVars, receive, queue, gaps, due>>
      <4>1. (Waiting(t)' <=> Waiting(t)) /\ WaitsOnce(t)'
        BY <2>2, <3>1, <3>3 DEF Waiting, WaitsOnce, Elements, OnceIn
      <4>2. UNCHANGED ticks
        BY <3>3 DEF socketVars
      <4> QED BY <2>2, <2>5, <3>1, <3>3, <4>1, <4>2, OnceFrom
    <3> QED BY <2>10, <3>2, <3>3 DEF CallbackReturns
  <2>11. CASE DrainListener
    <3>1. /\ emitting # <<>> /\ emitting' = Tail(emitting) /\ due = NoCall
          /\ emitting \in Seq(Closes \cup Disconnects) /\ UNCHANGED <<drain, issued>>
      BY <2>11 DEF DrainListener, TypeOK
    <3>2. /\ Head(emitting) \in Elements(emitting)
          /\ t \in Elements(emitting') => t \in Elements(emitting) /\ t # Head(emitting)
          /\ OnceIn(t, emitting')
      BY <2>2, <3>1, TailOnce DEF WaitsOnce
    <3>3. CASE UNCHANGED <<ticks, receive, queue, gaps, due, calls>>
      <4>1. (Waiting(t)' => Waiting(t)) /\ WaitsOnce(t)'
        BY <2>2, <3>1, <3>2, <3>3 DEF Waiting, WaitsOnce
      <4> QED BY <2>2, <2>5, <3>1, <3>3, <4>1, OnceFrom
    <3>4. CASE Head(emitting) \in Disconnects /\ Enqueue(Head(emitting))
      <4>1. PICK u \in Tasks : u = Head(emitting)
        BY <3>4 DEF Tasks
      <4>2. /\ t = u => Waiting(t) /\ ~Started(t) /\ t \notin Elements(queue) /\ t \in issued
            /\ t = u => t \notin Elements(drain) /\ t \notin Elements(emitting')
        BY <2>2, <3>1, <3>2, <4>1 DEF Waiting, WaitsOnce
      <4>3. OnceIn(t, queue) /\ (t \in Elements(queue) => ~Started(t))
        BY <2>2 DEF Waiting, WaitsOnce
      <4>4. /\ t \notin Elements(ticks')
            /\ StartedOnce(t)' /\ OnceIn(t, queue')
            /\ t \in Elements(queue') => ~Started(t)' /\ (t \in Elements(queue) \/ t = u)
            /\ Started(t)' => Started(t) \/ t \in Elements(queue) \/ t = u
            /\ \/ calls'[t] = calls[t]
               \/ t = u /\ calls'[t] = calls[t] + 1 /\ t \notin Elements(queue') /\ ~Started(t)'
        BY <2>2, <3>1, <3>4, <4>1, <4>2, <4>3, EnqueueOnce
      <4>5. WaitsOnce(t)' /\ (Waiting(t)' => Waiting(t) /\ ~Started(t)')
        BY <2>2, <3>1, <3>2, <4>2, <4>4 DEF Waiting, WaitsOnce
      <4>6. ~(t = u /\ calls'[t] = calls[t] + 1 /\ Waiting(t)')
        BY <2>2, <3>1, <4>2, <4>4 DEF Waiting
      <4>7. Waiting(t)' \/ Started(t)' => calls'[t] = 0
        BY <2>2, <4>2, <4>4, <4>5, <4>6 DEF Waiting
      <4> QED BY <2>2, <3>1, <4>2, <4>4, <4>5, <4>7, OnceFrom DEF Waiting
    <3> QED BY <2>11, <3>3, <3>4 DEF DrainListener
  <2>12. ASSUME NEW u \in Tasks, due.to = u, Settle(u),
                UNCHANGED <<receive, gaps, queue, drain, emitting, ticks, issued>>
         PROVE  OncePerTask(t)'
    <3>1. calls'[t] = (IF t = u THEN calls[t] + 1 ELSE calls[t]) /\ due' = NoCall
      BY <2>12, CalledOnce DEF Settle
    <3>2. /\ Started(t)' <=> Started(t) /\ t # u
          /\ StartedOnce(t)'
          /\ t = u => Started(t)
      BY <2>2, <2>3, <2>12, <3>1 DEF Started, StartedOnce, NoCall
    <3> QED BY <2>2, <2>4, <2>12, <3>1, <3>2, OnceFrom
  <2>13. CASE TaskReceive
    <3>1. due.to \in Tasks /\ Settle(due.to)
      BY <2>13 DEF TaskReceive, Tasks
    <3>2. UNCHANGED <<receive, gaps, queue, drain, emitting, ticks, issued>>
      BY <2>13 DEF TaskReceive, stateVars, queueVars, taskVars
    <3> QED BY <2>12, <3>1, <3>2
  <2>14. ASSUME NEW u \in Executes, ExecuteSends(u)
         PROVE  crashed' \/ (receive' = u /\ t \notin Elements(ticks'))
    <3>1. CASE SendPacket(u)
      <4>1. ticks' = ticks \/ ticks' = Append(ticks, "error")
        BY <3>1 DEF SendPacket, Write
      <4> QED BY <2>2, <3>1, <4>1, ErrorOnce DEF SendPacket
    <3> QED BY <2>14, <3>1 DEF ExecuteSends
  <2>15. CASE ExecuteReceive
    <3>1. due.to \in Executes /\ due.to \in Tasks /\ UNCHANGED <<queue, drain, emitting, issued>>
      BY <2>15 DEF ExecuteReceive, Tasks, queueVars
    <3>2. CASE Settle(due.to) /\ UNCHANGED <<socketVars, receive, gaps>>
      BY <2>12, <3>1, <3>2 DEF socketVars
    <3>3. CASE /\ gaps' = gaps \cup {due.to} /\ due' = NoCall
               /\ UNCHANGED <<socketVars, receive, calls>>
      <4>1. UNCHANGED ticks
        BY <3>3 DEF socketVars
      <4>2. (Started(t)' <=> Started(t)) /\ StartedOnce(t)'
        BY <2>2, <2>3, <3>3 DEF Started, StartedOnce, NoCall
      <4> QED BY <2>2, <2>4, <3>1, <3>3, <4>1, <4>2, OnceFrom
    <3>4. CASE ExecuteSends(due.to) /\ due' = NoCall /\ UNCHANGED <<gaps, calls>>
      <4>1. crashed' \/ (receive' = due.to /\ t \notin Elements(ticks'))
        BY <2>14, <3>1, <3>4
      <4>2. ~crashed' => (Started(t)' => Started(t)) /\ StartedOnce(t)'
        BY <2>2, <2>3, <3>4, <4>1 DEF Started, StartedOnce, NoCall
      <4> QED BY <2>2, <2>4, <3>1, <3>4, <4>1, <4>2, OnceFrom
    <3> QED BY <2>15, <3>2, <3>3, <3>4 DEF ExecuteReceive
  <2>16. CASE AuthReceive
    <3>1. ticks' = ticks \/ ticks' = Append(ticks, "error")
      BY <2>16 DEF AuthReceive, SendConnect, Write, socketVars
    <3>2. /\ UNCHANGED <<queue, drain, emitting, gaps, receive, calls, issued>>
          /\ due.to = "authenticate" /\ due' = NoCall
      BY <2>16 DEF AuthReceive, queueVars, taskVars
    <3>3. (Started(t)' <=> Started(t)) /\ StartedOnce(t)'
      BY <2>2, <2>3, <3>2 DEF Started, StartedOnce, NoCall
    <3> QED BY <2>2, <2>4, <3>1, <3>2, <3>3, ErrorOnce, OnceFrom
  <2>17. CASE ConnReceive
    <3>1. due.to = "connect" /\ UNCHANGED <<emitting, issued, calls>>
      BY <2>17 DEF ConnReceive
    <3>2. CASE due' = NoCall /\ UNCHANGED <<socketVars, receive, queueVars, gaps>>
      <4>1. UNCHANGED <<ticks, queue, drain>>
        BY <3>2 DEF socketVars, queueVars
      <4>2. (Started(t)' <=> Started(t)) /\ StartedOnce(t)'
        BY <2>2, <2>3, <3>1, <3>2 DEF Started, StartedOnce, NoCall
      <4> QED BY <2>2, <2>4, <3>1, <3>2, <4>1, <4>2, OnceFrom
    <3>3. CASE Dequeue(queue, busy, TRUE) /\ UNCHANGED drain
      <4>1. queue \in Seq(Tasks) /\ ticks \in Seq({"error"} \cup Tasks)
        BY DEF TypeOK
      <4>2. OnceIn(t, queue) /\ (t \in Elements(queue) => ~Started(t))
        BY <2>2 DEF Waiting, WaitsOnce
      <4>3. /\ t \notin Elements(ticks')
            /\ StartedOnce(t)' /\ OnceIn(t, queue')
            /\ t \in Elements(queue') => t \in Elements(queue) /\ ~Started(t)'
            /\ Started(t)' => Started(t) \/ t \in Elements(queue)
        BY <2>2, <3>3, <4>1, <4>2, DequeueOnce
      <4> QED BY <2>2, <3>1, <3>3, <4>3, OnceFrom DEF Waiting, WaitsOnce
    <3> QED BY <2>17, <3>2, <3>3 DEF ConnReceive
  <2>18. CASE NextTick
    <3>1. /\ ticks # <<>> /\ ticks' = Tail(ticks) /\ due = NoCall
          /\ UNCHANGED <<queue, drain, emitting, gaps, calls, issued>>
      BY <2>18 DEF NextTick, StackEmpty, UserRuns, queueVars, taskVars
    <3>2. t \notin Elements(ticks') /\ t # Head(ticks)
      BY <2>2, <3>1, TailOnce DEF TypeOK
    <3>3. CASE /\ due' = [to |-> Receiver, err |-> Receiver # "none"]
               /\ receive' = IF hsReceive = "none" THEN "none" ELSE receive
      <4>1. (Started(t)' <=> Started(t)) /\ StartedOnce(t)'
        BY <2>2, <2>3, <3>1, <3>3 DEF Started, StartedOnce, Receiver, TypeOK, NoCall
      <4> QED BY <2>2, <2>4, <3>1, <3>2, <4>1, OnceFrom
    <3>4. CASE due' = [to |-> Head(ticks), err |-> TRUE] /\ UNCHANGED receive
      <4>1. (Started(t)' <=> Started(t)) /\ StartedOnce(t)'
        BY <2>2, <2>3, <3>1, <3>2, <3>4 DEF Started, StartedOnce, NoCall
      <4> QED BY <2>2, <2>4, <3>1, <3>2, <4>1, OnceFrom
    <3> QED BY <2>18, <3>3, <3>4 DEF NextTick
  <2>19. CASE ServerReply
    <3>1. /\ ticks' = ticks \/ ticks' = Append(ticks, "error")
          /\ due = NoCall /\ due'.to = Receiver /\ receive' = "none"
          /\ UNCHANGED <<queue, drain, emitting, gaps, calls, issued>>
      BY <2>19 DEF ServerReply, EventLoop, StackEmpty, UserRuns, queueVars, taskVars
    <3>2. (Started(t)' => Started(t)) /\ StartedOnce(t)'
      BY <2>2, <2>3, <3>1 DEF Started, StartedOnce, Receiver, TypeOK
    <3> QED BY <2>2, <2>4, <3>1, <3>2, ErrorOnce, OnceFrom
  <2>20. ASSUME NEW u \in Executes, ParametersReady(u) PROVE OncePerTask(t)'
    <3>1. /\ u \in gaps /\ gaps' = gaps \ {u} /\ due = NoCall
          /\ UNCHANGED <<queue, drain, emitting, calls, issued>>
      BY <2>20 DEF ParametersReady, EventLoop, StackEmpty, UserRuns, queueVars
    <3>2. CASE ExecuteSends(u) /\ UNCHANGED due
      <4>1. crashed' \/ (receive' = u /\ t \notin Elements(ticks'))
        BY <2>14, <3>2
      <4>2. ~crashed' => (Started(t)' => Started(t)) /\ StartedOnce(t)'
        BY <2>2, <2>3, <3>1, <3>2, <4>1 DEF Started, StartedOnce, NoCall
      <4> QED BY <2>2, <2>4, <3>1, <4>1, <4>2, OnceFrom
    <3>3. CASE due' = [to |-> u, err |-> TRUE] /\ UNCHANGED <<socketVars, receive>>
      <4>1. UNCHANGED ticks
        BY <3>3 DEF socketVars
      <4>2. (Started(t)' <=> Started(t)) /\ StartedOnce(t)'
        BY <2>2, <2>3, <3>1, <3>3 DEF Started, StartedOnce, NoCall
      <4> QED BY <2>2, <2>4, <3>1, <4>1, <4>2, OnceFrom
    <3> QED BY <2>20, <3>2, <3>3 DEF ParametersReady
  <2>21. ASSUME ClearQueue, UNCHANGED <<ticks, emitting, gaps, issued>>,
                FirstExecute # {} => crashed',
                ~crashed' => /\ Started(t)' => Started(t)
                             /\ StartedOnce(t)'
         PROVE  OncePerTask(t)'
    <3>1. calls'[t] = IF t \in Told THEN calls[t] + 1 ELSE calls[t]
      BY <2>21, CalledOnce DEF ClearQueue
    <3>2. t \in Told => t \in Elements(queue)
      BY DEF Told, Elements
    <3>3. t \in Told => t \in issued /\ calls[t] = 0 /\ ~Started(t) /\ t \notin Elements(emitting)
      BY <2>2, <3>2 DEF Waiting, WaitsOnce
    <3>4. ~crashed' => queue' = <<>> /\ drain' = <<>>
      BY <2>21 DEF ClearQueue
    <3>5. /\ ~crashed' => WaitsOnce(t)' /\ (Waiting(t)' => t \in Elements(emitting))
          /\ t \in Elements(emitting) => Waiting(t)
      BY <2>2, <2>21, <3>4 DEF WaitsOnce, Waiting, Elements, OnceIn
    <3> QED BY <2>2, <2>21, <3>1, <3>3, <3>5, OnceFrom
  <2>22. CASE SocketClose
    <3>1. /\ ClearQueue /\ UNCHANGED <<ticks, emitting, gaps, issued, due>>
          /\ crashed' = (FirstExecute # {}) /\ receive' = "none"
      BY <2>22 DEF SocketClose, jsVars, taskVars
    <3>2. (Started(t)' => Started(t)) /\ StartedOnce(t)'
      BY <2>2, <2>3, <3>1 DEF Started, StartedOnce
    <3> QED BY <2>21, <3>1, <3>2
  <2>23. CASE ServerFin
    <3>1. /\ ClearQueue /\ UNCHANGED <<ticks, emitting, gaps, issued>> /\ due = NoCall
          /\ FirstExecute # {} => crashed'
      BY <2>23 DEF ServerFin, EventLoop, StackEmpty, UserRuns, taskVars
    <3>2. (Started(t)' => Started(t)) /\ StartedOnce(t)'
      BY <2>2, <2>3, <2>23, <3>1 DEF ServerFin, Started, StartedOnce, Receiver, TypeOK, NoCall
    <3> QED BY <2>21, <3>1, <3>2
  <2> QED
    BY <1>2, <2>6, <2>7, <2>8, <2>9, <2>10, <2>11, <2>13, <2>15, <2>16, <2>17, <2>18, <2>19,
       <2>20, <2>22, <2>23
       DEF Next, UserStep, HandlerStep, EventStep, FaultStep
<1> QED BY <1>1, <1>2

\* In every behaviour each sendable task is in one place at a time.
LEMMA OnceInductive == Spec => [](TypeOK /\ OnceInv)
<1>1. Init => TypeOK /\ OnceInv
  BY TypeInit, OnceInit DEF OnceInv
<1>2. TypeOK /\ OnceInv /\ [Next]_vars => TypeOK' /\ OnceInv'
  BY TypeStep, OnceStep DEF OnceInv
<1> QED BY <1>1, <1>2, PTL DEF Spec

\* Whatever is lost, refused or closed, and whatever the other tasks do, the callback of a
\* task whose packet can be sent is called at most once.
THEOREM SendableOnce == Spec => [](\A t \in Sendable : calls[t] <= 1)
<1>1. TypeOK /\ OnceInv => \A t \in Sendable : calls[t] <= 1
  BY DEF OnceInv, OncePerTask
<1> QED BY <1>1, OnceInductive, PTL

\* So when every packet can be sent, no callback is called twice.
THEOREM CalledAtMostOnce ==
  ASSUME TooLarge = {}, Unwritable = {}
  PROVE  Spec => []AtMostOnce
<1>1. (\A t \in Sendable : calls[t] <= 1) => AtMostOnce
  BY DEF Sendable, AtMostOnce
<1> QED BY <1>1, SendableOnce, PTL


-----------------------------------------------------------------------------
(***************************************************************************)
(* What keeps an exception from the event loop.  Two handlers need a       *)
(* connection that has not ended: one of an ExecuteTask that has more to   *)
(* send or that still waits when the queue is aborted, and the one that    *)
(* computes the proof of the login.  Careful names, for each of them, what *)
(* ends the connection under it: TLC finds the exception when any one of   *)
(* these is allowed, but for a fatal error during the login, which is      *)
(* excluded only to state it simply.                                       *)
(***************************************************************************)

\* Nothing ends the connection but user code that asks for it.
Steady == ~UserDestroys /\ Faults \cap {"fin", "reset", "fatal"} = {}

Careful ==
  /\ "badproof" \notin Faults
  /\ Executes # {} => Steady /\ (Orderly \/ Disconnects = {})
  /\ AsyncProof => Steady /\ Closes = {}

\* A steady socket is not half closed, reports no error, and has a queue while it is open.
Attached ==
  /\ sock # "ended" /\ "error" \notin Elements(ticks)
  /\ sock = "open" => hasQueue

\* The connection has been left, or will be left when the handlers and the reply that are
\* under way have been served.
Leaving == sock # "open" \/ emitting # <<>> \/ {due.to, receive} \cap Disconnects # {}

NoExecutes == gaps = {} /\ due.to \notin Executes /\ Elements(queue) \cap Executes = {}

NoneBehind(q) == \A i, j \in DOMAIN q : i < j /\ q[i] \in Disconnects => q[j] \notin Executes

ExecutesLast == NoneBehind(queue) /\ (Leaving => NoExecutes)

\* The login is over when the connection has been left.
LoginOver == sock # "open" => auth = "ok" /\ due.to \notin {"authenticate", "connect"}

CarefulInv ==
  /\ ~crashed
  /\ Steady => Attached
  /\ Executes # {} => ExecutesLast
  /\ IF AsyncProof THEN LoginOver ELSE auth # "proof"

\* A task that has not been issued has no place in a queue and is not under way.
LEMMA NotIssued ==
  ASSUME OnceInv, ~crashed, NEW t \in Disconnects \cup Executes, t \notin issued
  PROVE  t \notin Elements(queue) /\ due.to # t /\ receive # t
<1>1. t \in Sendable
  BY TaskAssumption DEF Sendable, Tasks
<1>2. OncePerTask(t)
  BY <1>1 DEF OnceInv
<1> QED
  BY <1>2 DEF OncePerTask, Waiting, Started

\* No ExecuteTask and no disconnect() is called back from the nextTick queue.
LEMMA TicksAreRequests ==
  ASSUME OnceInv, ~crashed, ticks # <<>>, ticks \in Seq({"error"} \cup Tasks),
         "error" \notin Elements(ticks)
  PROVE  Head(ticks) \in Requests
<1>1. Head(ticks) \in Elements(ticks) /\ Head(ticks) \in {"error"} \cup Tasks
  BY HeadTailProperties DEF Elements
<1>2. ASSUME Head(ticks) \in Disconnects \cup Executes PROVE FALSE
  <2>1. Head(ticks) \in Sendable
    BY <1>2, TaskAssumption DEF Sendable, Tasks
  <2> QED
    BY <1>1, <2>1 DEF OnceInv, OncePerTask
<1> QED
  BY <1>1, <1>2 DEF Tasks

\* While nothing is sent and no callback is due on an open connection, no ExecuteTask collects
\* parameters; nor while a callback of user code runs.
LEMMA NoGap ==
  ASSUME TypeOK, IInv, ~crashed, sock = "open", ~busy \/ stack # <<>> \/ due # NoCall
  PROVE  gaps = {}
<1>1. LoginInv /\ SessionInv
  BY DEF IInv
<1>2. CASE auth = "ok" /\ busy
  <2>1. PICK t \in Tasks : InHand(t)
    BY <1>1, <1>2 DEF SessionInv
  <2> QED
    BY <1>2, <2>1 DEF InHand, Pending
<1>3. CASE auth = "ok" /\ ~busy
  BY <1>1, <1>3 DEF SessionInv, Nothing, Pending
<1>4. CASE auth # "ok"
  BY <1>1, <1>4 DEF TypeOK, LoginInv, Nothing, Pending, Handshake
<1> QED
  BY <1>2, <1>3, <1>4

\* What is written to a steady socket leaves it as it is.
LEMMA WriteSteady ==
  ASSUME Attached, NEW p, Write(p)
  PROVE  sock' = sock /\ ticks' = ticks
BY DEF Attached, Write

\* The elements of a sequence, its tail and what is put behind it.
LEMMA ElementsTail ==
  ASSUME NEW q \in Seq(Tasks), q # <<>>
  PROVE  /\ Head(q) \in Elements(q)
         /\ Elements(Tail(q)) \subseteq Elements(q)
         /\ NoneBehind(q) => NoneBehind(Tail(q))
         /\ NoneBehind(q) /\ Head(q) \in Disconnects => Elements(Tail(q)) \cap Executes = {}
<1> DEFINE s == Tail(q)
<1>1. /\ Head(q) = q[1] /\ s \in Seq(Tasks) /\ Len(q) \in Nat \ {0} /\ Len(s) = Len(q) - 1
      /\ \A i \in 1..Len(s) : s[i] = q[i + 1]
      /\ DOMAIN q = 1..Len(q) /\ DOMAIN s = 1..Len(s)
  BY HeadTailProperties, EmptySeq, LenProperties
<1>2. \A i \in DOMAIN s : i + 1 \in DOMAIN q /\ s[i] = q[i + 1] /\ 1 < i + 1 /\ i \in Int
  BY <1>1
<1>3. 1 \in DOMAIN q
  BY <1>1
<1> HIDE DEF s
<1>4. Elements(s) \subseteq Elements(q)
  BY <1>2 DEF Elements
<1>5. NoneBehind(q) => NoneBehind(s)
  <2> SUFFICES ASSUME NoneBehind(q), NEW i \in DOMAIN s, NEW j \in DOMAIN s, i < j, s[i] \in Disconnects
               PROVE  s[j] \notin Executes
    BY DEF NoneBehind
  <2>1. i + 1 < j + 1
    BY <1>2
  <2> QED
    BY <1>2, <2>1 DEF NoneBehind
<1>6. NoneBehind(q) /\ Head(q) \in Disconnects => Elements(s) \cap Executes = {}
  BY <1>1, <1>2, <1>3 DEF NoneBehind, Elements
<1> QED
  BY <1>1, <1>3, <1>4, <1>5, <1>6 DEF s, Elements

\* A task goes to the end of the queue; no ExecuteTask goes behind a disconnect().
LEMMA PushedLast ==
  ASSUME TypeOK, NEW t \in Tasks, NoneBehind(queue),
         t \in Executes => Elements(queue) \cap Disconnects = {}
  PROVE  /\ Pushed(t) \in Seq(Tasks) /\ Pushed(t) # <<>>
         /\ Elements(Pushed(t)) = Elements(queue) \cup {t}
         /\ NoneBehind(Pushed(t))
<1> DEFINE q == Pushed(t)
           n == Len(queue)
<1>1. /\ q \in Seq(Tasks) /\ n \in Nat /\ Len(q) = n + 1 /\ q[n + 1] = t
      /\ \A i \in 1..n : q[i] = queue[i]
      /\ DOMAIN q = 1..(n + 1) /\ DOMAIN queue = 1..n
  BY AppendProperties, LenProperties DEF TypeOK, Pushed
<1>2. /\ \A i \in DOMAIN q : (i = n + 1 /\ q[i] = t) \/ (i \in DOMAIN queue /\ q[i] = queue[i])
      /\ \A i \in DOMAIN queue : i \in DOMAIN q /\ i < n + 1 /\ ~(n + 1 < i) /\ q[i] = queue[i]
      /\ n + 1 \in DOMAIN q
  BY <1>1
<1>3. q # <<>>
  BY <1>1, EmptySeq
<1>4. Elements(q) = Elements(queue) \cup {t}
  <2> HIDE DEF q, n
  <2> QED
    BY <1>1, <1>2 DEF Elements
<1>5. NoneBehind(q)
  <2> SUFFICES ASSUME NEW i \in DOMAIN q, NEW j \in DOMAIN q, i < j, q[i] \in Disconnects,
                      q[j] \in Executes
               PROVE  FALSE
    BY DEF NoneBehind
  <2>1. i \in DOMAIN queue /\ q[i] = queue[i]
    BY <1>1
  <2> HIDE DEF q, n
  <2>2. CASE q[j] = t
    BY <2>1, <2>2 DEF Elements
  <2>3. CASE j \in DOMAIN queue /\ q[j] = queue[j]
    BY <2>1, <2>3 DEF NoneBehind
  <2> QED
    BY <1>2, <2>2, <2>3
<1> QED
  BY <1>1, <1>3, <1>4, <1>5

\* Queue.run of one task neither breaks a steady socket nor ends the connection.
LEMMA RunSteady ==
  ASSUME TypeOK, Attached, NEW t \in Tasks, Run(t)
  PROVE  /\ sock' = sock /\ "error" \notin Elements(ticks')
         /\ due'.to \in {"none", t} /\ due'.to \notin Disconnects
         /\ IF t \in Executes THEN receive' \in {receive, t}
                              ELSE gaps' = gaps /\ receive' = t /\ due'.to \notin Executes
<1>0. /\ t \notin {"none", "error"} /\ "none" \notin Disconnects \cup Executes
      /\ (t \in TooLarge \cup Unwritable => t \in Requests)
      /\ (t \in Requests => t \notin Executes \cup Disconnects)
      /\ (t \in Executes => t \notin Disconnects)
  BY TaskAssumption DEF Tasks, Calls
<1>1. CASE t \in Executes /\ gaps' = gaps \cup {t} /\ due' = NoCall
              /\ UNCHANGED <<socketVars, msgType, session, receive>>
  BY <1>0, <1>1 DEF Attached, NoCall, socketVars
<1>2. CASE /\ t \in TooLarge
           /\ msgType' = "other" /\ receive' = t
           /\ due' = [to |-> t, err |-> TRUE]
           /\ UNCHANGED <<socketVars, session, gaps>>
  BY <1>0, <1>2 DEF Attached, socketVars
<1>3. CASE /\ t \in Unwritable
           /\ msgType' = "other" /\ receive' = t
           /\ ticks' = Append(ticks, t)
           /\ due' = NoCall
           /\ UNCHANGED <<sock, wire, session, gaps>>
  <2>1. ticks \in Seq({"error"} \cup Tasks) /\ "error" \notin Elements(ticks)
    BY DEF TypeOK, Attached
  <2>2. "error" \notin Elements(Append(ticks, t))
    BY <1>0, <2>1, AppendProperties, LenProperties DEF Elements
  <2> QED
    BY <1>0, <1>3, <2>2 DEF NoCall
<1>4. CASE t \notin Executes /\ SendPacket(t) /\ due' = NoCall /\ UNCHANGED gaps
  <2>1. sock' = sock /\ ticks' = ticks /\ receive' = t
    BY <1>4, WriteSteady DEF SendPacket
  <2> QED
    BY <1>0, <1>4, <2>1 DEF Attached, NoCall
<1>5. CASE /\ t \in Executes
           /\ due' = [to |-> t, err |-> TRUE]
           /\ UNCHANGED <<socketVars, msgType, session, receive, gaps>>
  BY <1>0, <1>5 DEF Attached, socketVars
<1> QED
  BY <1>1, <1>2, <1>3, <1>4, <1>5 DEF Run

\* The task that Queue.dequeue takes is an ExecuteTask, or a disconnect() with no ExecuteTask
\* behind it, or neither.
LEMMA DequeueSteady ==
  ASSUME TypeOK, Attached, NEW q \in Seq(Tasks), NEW b, NEW r, Dequeue(q, b, r)
  PROVE  /\ sock' = sock /\ "error" \notin Elements(ticks')
         /\ due'.to \notin Disconnects \cup {"authenticate", "connect"}
         /\ NoneBehind(q) => NoneBehind(queue')
         /\ NoneBehind(q) /\ gaps = {} /\ Elements(q) \cap Executes = {} => NoExecutes'
         /\ NoneBehind(q) /\ gaps = {} /\ receive' \in Disconnects =>
              receive \in Disconnects \/ NoExecutes'
<1>1. CASE MayRun(q, b, r)
  <2> DEFINE t == Head(q)
  <2>1. q # <<>> /\ t \in Tasks /\ Run(t) /\ queue' = Tail(q)
    BY <1>1, HeadTailProperties DEF Dequeue, MayRun
  <2>2. /\ t \in Elements(q)
        /\ Elements(Tail(q)) \subseteq Elements(q)
        /\ NoneBehind(q) => NoneBehind(Tail(q))
        /\ NoneBehind(q) /\ t \in Disconnects => Elements(Tail(q)) \cap Executes = {}
    BY <2>1, ElementsTail
  <2>3. t \notin {"none", "authenticate", "connect"} /\ (t \in Disconnects => t \notin Executes)
    BY <2>1, TaskAssumption DEF Calls, Tasks
  <2>4. "none" \notin Disconnects
    BY TaskAssumption DEF Calls, Tasks
  <2> HIDE DEF t
  <2>5. /\ sock' = sock /\ "error" \notin Elements(ticks')
        /\ due'.to \in {"none", t} /\ due'.to \notin Disconnects
        /\ IF t \in Executes THEN receive' \in {receive, t}
                             ELSE gaps' = gaps /\ receive' = t /\ due'.to \notin Executes
    BY <2>1, RunSteady
  <2>6. ASSUME NoneBehind(q), Elements(q) \cap Executes = {}, gaps = {} PROVE NoExecutes'
    BY <2>1, <2>2, <2>5, <2>6 DEF NoExecutes
  <2>7. ASSUME NoneBehind(q), receive' \in Disconnects, receive \notin Disconnects, gaps = {}
        PROVE  NoExecutes'
    <3>1. t \in Disconnects /\ t \notin Executes
      BY <2>3, <2>5, <2>7, TaskAssumption
    <3> QED
      BY <2>1, <2>2, <2>5, <2>7, <3>1 DEF NoExecutes
  <2> QED
    BY <2>1, <2>2, <2>3, <2>5, <2>6, <2>7
<1>2. CASE ~MayRun(q, b, r)
  <2>1. /\ queue' = q /\ due' = NoCall
        /\ UNCHANGED <<socketVars, receive, gaps>>
    BY <1>2 DEF Dequeue
  <2>2. due'.to = "none" /\ "none" \notin Disconnects \cup Executes
    BY <2>1, TaskAssumption DEF NoCall, Calls, Tasks
  <2> QED
    BY <2>1, <2>2 DEF Attached, NoExecutes, socketVars
<1> QED
  BY <1>1, <1>2

\* Every step keeps a steady socket attached.
LEMMA AttachedStep ==
  ASSUME TypeOK, IInv, OnceInv, ~crashed, Steady, Attached, Next
  PROVE  Attached'
<1>0. queue \in Seq(Tasks) /\ ticks \in Seq({"error"} \cup Tasks)
  BY DEF TypeOK
<1>1. ASSUME NEW t \in Tasks, Enqueue(t) PROVE sock' # "ended" /\ "error" \notin Elements(ticks')
  <2>1. CASE Dequeue(Pushed(t), busy, running)
    <3>1. Pushed(t) \in Seq(Tasks)
      BY <1>0, AppendProperties DEF Pushed
    <3> QED
      BY <2>1, <3>1, DequeueSteady DEF Attached
  <2>2. CASE UNCHANGED ticks /\ sock' \in {sock, Destroyed(sock)}
    BY <2>2 DEF Attached, Destroyed
  <2> QED
    BY <1>1, <2>1, <2>2 DEF Enqueue
<1>2. ASSUME sock' # "ended", "error" \notin Elements(ticks'), UNCHANGED hasQueue,
             sock' = "open" => sock = "open"
      PROVE  Attached'
  BY <1>2 DEF Attached
<1>3. ASSUME NEW t \in Tasks, Enqueue(t), UNCHANGED hasQueue PROVE Attached'
  BY <1>1, <1>2, <1>3, EnqueueStaysOpen
<1>4. ASSUME NEW p, Write(p), UNCHANGED hasQueue PROVE Attached'
  BY <1>4, WriteSteady DEF Attached
<1>5. ASSUME UNCHANGED ticks, UNCHANGED hasQueue, sock' \in {sock, Destroyed(sock)} PROVE Attached'
  BY <1>5 DEF Attached, Destroyed
<1>6. ASSUME NEW q \in Seq(Tasks), NEW b, NEW r, Dequeue(q, b, r), UNCHANGED hasQueue PROVE Attached'
  BY <1>6, DequeueSteady DEF Attached
<1>7. UserStep => Attached'
  <2>1. Connect => Attached'
    BY <1>4 DEF Connect, queueVars
  <2>2. ~UserDestroy
    BY DEF UserDestroy, Steady
  <2>3. ASSUME NEW t \in Requests \cup Executes, UserEnqueue(t) PROVE Attached'
    BY <1>3, <2>3 DEF UserEnqueue, Tasks
  <2>4. ASSUME NEW d \in Disconnects, UserDisconnect(d) PROVE Attached'
    <3>1. Enqueue(d) /\ UNCHANGED <<hasQueue, drain>> => Attached'
      BY <1>3 DEF Tasks
    <3> QED
      BY <1>5, <2>4, <3>1 DEF UserDisconnect, socketVars, queueVars
  <2>5. ASSUME NEW c \in Closes, UserClose(c) PROVE Attached'
    BY <1>5, <2>5 DEF UserClose
  <2> QED
    BY <2>1, <2>2, <2>3, <2>4, <2>5 DEF UserStep
<1>8. HandlerStep => Attached'
  <2>1. CallbackReturns => Attached'
    BY <1>0, <1>5, <1>6 DEF CallbackReturns, socketVars
  <2>2. DrainListener => Attached'
    <3>1. ASSUME DrainListener, Head(emitting) \in Disconnects, Enqueue(Head(emitting)) PROVE Attached'
      BY <1>3, <3>1 DEF DrainListener, Tasks
    <3> QED
      BY <1>5, <3>1 DEF DrainListener
  <2>3. TaskReceive => Attached'
    BY <1>5 DEF TaskReceive, queueVars
  <2>4. ExecuteReceive => Attached'
    BY <1>4, <1>5 DEF ExecuteReceive, ExecuteSends, SendPacket, socketVars, queueVars
  <2>5. AuthReceive => Attached'
    BY <1>4, <1>5 DEF AuthReceive, SendConnect, socketVars, queueVars
  <2>6. ConnReceive => Attached'
    BY <1>0, <1>5, <1>6 DEF ConnReceive, socketVars, queueVars
  <2> QED
    BY <2>1, <2>2, <2>3, <2>4, <2>5, <2>6 DEF HandlerStep
<1>9. EventStep => Attached'
  <2>1. NextTick => Attached'
    <3>1. ticks # <<>> => Elements(Tail(ticks)) \subseteq Elements(ticks)
      BY <1>0, HeadTailProperties, LenProperties, EmptySeq DEF Elements
    <3> QED
      BY <3>1 DEF NextTick, Attached, queueVars
  <2>2. ServerReply => Attached'
    <3> SUFFICES ASSUME ServerReply PROVE Attached'
      OBVIOUS
    <3>1. "fatal" \notin Replies(Head(wire))
      BY DEF Replies, Steady
    <3> QED
      BY <1>5, <3>1 DEF ServerReply, queueVars
  <2>3. ProofReady => Attached'
    BY <1>4, <1>5 DEF ProofReady, SendConnect, socketVars, queueVars
  <2>4. SocketClose => Attached'
    BY DEF SocketClose, Attached
  <2>5. ASSUME NEW t \in Executes, ParametersReady(t) PROVE Attached'
    BY <1>4, <1>5, <2>5 DEF ParametersReady, ExecuteSends, SendPacket, socketVars, queueVars
  <2> QED
    BY <2>1, <2>2, <2>3, <2>4, <2>5 DEF EventStep
<1>10. ~FaultStep
  BY DEF FaultStep, ServerFin, SocketReset, Steady
<1> QED
  BY <1>7, <1>8, <1>9, <1>10 DEF Next

\* Connection.enqueue of a task while user code or a listener of 'drain' runs.
LEMMA EnqueueLast ==
  ASSUME TypeOK, IInv, OnceInv, ~crashed, Attached, ExecutesLast, NEW t \in Tasks, Enqueue(t),
         due = NoCall, emitting' = <<>> \/ Leaving,
         t \in Executes => ~Leaving /\ Elements(queue) \cap Disconnects = {}
  PROVE  ExecutesLast'
<1>0. due.to \notin Disconnects
  BY TaskAssumption DEF NoCall, Calls, Tasks
<1>1. CASE sock = "open" /\ Dequeue(Pushed(t), busy, running)
  <2>1. /\ Pushed(t) \in Seq(Tasks)
        /\ Elements(Pushed(t)) = Elements(queue) \cup {t}
        /\ NoneBehind(Pushed(t))
    BY PushedLast DEF ExecutesLast
  <2>2. /\ sock' = sock
        /\ due'.to \notin Disconnects
        /\ NoneBehind(queue')
        /\ gaps = {} /\ Elements(Pushed(t)) \cap Executes = {} => NoExecutes'
        /\ gaps = {} /\ receive' \in Disconnects => receive \in Disconnects \/ NoExecutes'
    BY <1>1, <2>1, DequeueSteady
  <2>3. CASE Leaving
    <3>1. gaps = {} /\ Elements(Pushed(t)) \cap Executes = {}
      BY <2>1, <2>3 DEF ExecutesLast, NoExecutes
    <3> QED
      BY <2>2, <3>1 DEF ExecutesLast
  <2>4. CASE ~Leaving /\ ~busy
    <3>1. gaps = {}
      BY <1>1, <2>4, NoGap
    <3>2. Leaving' => NoExecutes'
      BY <1>1, <2>2, <2>4, <3>1 DEF Leaving
    <3> QED
      BY <2>2, <3>2 DEF ExecutesLast
  <2>5. CASE ~Leaving /\ busy
    <3>1. receive' = receive
      BY <1>1, <2>5 DEF Dequeue, MayRun
    <3>2. ~Leaving'
      BY <1>1, <2>2, <2>5, <3>1 DEF Leaving
    <3> QED
      BY <2>2, <3>2 DEF ExecutesLast
  <2> QED
    BY <2>3, <2>4, <2>5
<1>2. CASE sock # "open" /\ UNCHANGED <<queue, gaps, due>>
  BY <1>2 DEF ExecutesLast, Leaving, NoExecutes
<1>3. CASE sock # "open" /\ Dequeue(Pushed(t), busy, running)
  <2>1. Leaving /\ NoExecutes /\ t \notin Executes
    BY <1>3 DEF ExecutesLast, Leaving
  <2>2. /\ Pushed(t) \in Seq(Tasks)
        /\ Elements(Pushed(t)) = Elements(queue) \cup {t}
        /\ NoneBehind(Pushed(t))
    BY <2>1, PushedLast DEF ExecutesLast
  <2> QED
    BY <1>3, <2>1, <2>2, DequeueSteady DEF ExecutesLast, NoExecutes
<1>4. CASE sock = "open" /\ (~hasQueue \/ ReadyState = "closed")
  BY <1>4 DEF Attached, IInv, ReadyState, TypeOK
<1> QED
  BY <1>1, <1>2, <1>3, <1>4 DEF Enqueue

\* A step that queues nothing, starts nothing and leaves nothing keeps the ExecuteTasks last.
LEMMA SameLast ==
  ASSUME ExecutesLast, UNCHANGED queue, gaps' \subseteq gaps, due'.to \notin Executes \ {due.to},
         Leaving' => Leaving \/ NoExecutes
  PROVE  ExecutesLast'
BY DEF ExecutesLast, NoExecutes

\* An ExecuteTask goes on only while nobody leaves the connection.
LEMMA WorkLast ==
  ASSUME ExecutesLast, UNCHANGED queue, ~Leaving'
  PROVE  ExecutesLast'
BY DEF ExecutesLast

\* Sending the next packet of an ExecuteTask leaves nothing and finds the connection.
LEMMA SendsLast ==
  ASSUME TypeOK, IInv, Attached, NEW t \in Executes, ExecuteSends(t), ~Leaving,
         UNCHANGED emitting, due'.to \notin Disconnects
  PROVE  crashed' = crashed /\ ~Leaving'
<1>1. sock = "open" /\ alive
  BY DEF Leaving, IInv
<1>2. sock' = sock /\ receive' = t /\ crashed' = crashed
  BY <1>1, WriteSteady DEF ExecuteSends, SendPacket
<1> QED
  BY <1>1, <1>2, TaskAssumption DEF Leaving

\* What user code calls.
LEMMA UserLast ==
  ASSUME TypeOK, IInv, OnceInv, ~crashed, Careful, Executes # {}, Attached, ExecutesLast, UserStep
  PROVE  ExecutesLast' /\ ~crashed'
<1>0. "none" \notin Disconnects \cup Executes
  BY TaskAssumption DEF Calls, Tasks
<1>1. CASE Connect
  <2>1. sock' = sock
    BY <1>1, WriteSteady DEF Connect
  <2> QED
    BY <1>1, <2>1, SameLast DEF Connect, Leaving, queueVars, jsVars, taskVars
<1>2. ASSUME NEW t \in Requests \cup Executes, UserEnqueue(t) PROVE ExecutesLast' /\ ~crashed'
  <2>1. due = NoCall /\ emitting' = <<>> /\ t \in Tasks /\ Enqueue(t) /\ ~crashed'
    BY <1>2 DEF UserEnqueue, UserRuns, Tasks
  <2>2. ASSUME t \in Executes PROVE Elements(queue) \cap Disconnects = {} /\ receive \notin Disconnects
    <3>1. issued \cap Disconnects = {}
      BY <1>2, <2>2 DEF UserEnqueue, Careful
    <3> QED
      BY <3>1, NotIssued
  <2>3. CASE t \in Executes /\ sock # "open"
    <3>1. UNCHANGED <<queue, gaps, due>> /\ sock' = sock
      BY <2>1, <2>3, TaskAssumption DEF Enqueue, ReadyState
    <3> QED
      BY <2>1, <2>3, <3>1 DEF ExecutesLast, Leaving, NoExecutes
  <2>4. CASE t \in Executes => sock = "open"
    <3>1. t \in Executes => ~Leaving
      BY <1>0, <1>2, <2>1, <2>2, <2>4 DEF Leaving, UserEnqueue, UserRuns, NoCall
    <3> QED
      BY <2>1, <2>2, <3>1, EnqueueLast
  <2> QED
    BY <2>3, <2>4
<1>3. ASSUME NEW d \in Disconnects, UserDisconnect(d) PROVE ExecutesLast' /\ ~crashed'
  <2>1. d \in Tasks /\ d \notin Executes /\ due = NoCall /\ emitting = <<>> /\ UNCHANGED emitting /\ ~crashed'
    BY <1>3, TaskAssumption DEF UserDisconnect, UserRuns, Tasks
  <2>2. CASE Enqueue(d)
    BY <2>1, <2>2, EnqueueLast
  <2>3. CASE UNCHANGED <<sock, receive, queue, gaps, due>>
    BY <2>1, <2>3, SameLast DEF Leaving
  <2> QED
    BY <1>3, <2>2, <2>3 DEF UserDisconnect, socketVars, queueVars
<1>4. ASSUME NEW c \in Closes, UserClose(c) PROVE ExecutesLast' /\ ~crashed'
  <2>1. /\ ~crashed' /\ due = NoCall
        /\ UNCHANGED <<receive, queue, gaps, due, emitting>>
    BY <1>4 DEF UserClose, UserRuns, stateVars, jsVars, taskVars
  <2>2. CASE Idle /\ sock = "open"
    <3>1. queue = <<>> /\ ~busy
      BY <2>2 DEF Idle, Attached
    <3>2. gaps = {} /\ due.to \notin Executes /\ Elements(queue) = {}
      BY <1>0, <2>1, <2>2, <3>1, NoGap DEF NoCall, Elements
    <3> QED
      BY <2>1, <3>2, SameLast DEF NoExecutes
  <2>3. CASE sock # "open" \/ UNCHANGED sock
    BY <2>1, <2>3, SameLast DEF Leaving
  <2> QED
    BY <1>4, <2>2, <2>3 DEF UserClose
<1>5. ~UserDestroy
  BY DEF UserDestroy, Careful, Steady
<1> QED
  BY <1>1, <1>2, <1>3, <1>4, <1>5 DEF UserStep

\* The continuations of the handlers.
LEMMA HandlerLast ==
  ASSUME TypeOK, IInv, OnceInv, ~crashed, Careful, Executes # {}, Attached, ExecutesLast, HandlerStep
  PROVE  ExecutesLast' /\ ~crashed'
<1>0. "none" \notin Disconnects \cup Executes /\ queue \in Seq(Tasks)
  BY TaskAssumption DEF TypeOK, Calls, Tasks
<1>1. ASSUME NEW b, NEW r, Dequeue(queue, b, r), gaps = {}, UNCHANGED emitting, emitting = <<>> \/ Leaving,
             due.to \notin Disconnects
      PROVE  ExecutesLast'
  <2>1. /\ sock' = sock /\ due'.to \notin Disconnects
        /\ NoneBehind(queue')
        /\ Elements(queue) \cap Executes = {} => NoExecutes'
        /\ receive' \in Disconnects => receive \in Disconnects \/ NoExecutes'
    BY <1>0, <1>1, DequeueSteady DEF ExecutesLast
  <2>2. Leaving => NoExecutes'
    BY <2>1 DEF ExecutesLast, NoExecutes
  <2>3. Leaving' => Leaving \/ NoExecutes'
    BY <1>1, <2>1 DEF Leaving
  <2> QED
    BY <2>1, <2>2, <2>3 DEF ExecutesLast
<1>2. CASE CallbackReturns
  <2>1. /\ ~crashed' /\ due = NoCall /\ due.to \notin Disconnects \cup Executes
        /\ emitting = <<>> /\ stack # <<>>
    BY <1>0, <1>2 DEF CallbackReturns, UserRuns, NoCall
  <2>2. gaps = {}
    <3>1. CASE sock = "open"
      BY <2>1, <3>1, NoGap
    <3>2. CASE sock # "open"
      BY <3>2 DEF ExecutesLast, Leaving, NoExecutes
    <3> QED
      BY <3>1, <3>2
  <2>3. CASE Dequeue(queue, FALSE, running) /\ UNCHANGED <<drain, emitting>>
    BY <1>1, <2>1, <2>2, <2>3
  <2>4. CASE queue = <<>> /\ UNCHANGED <<socketVars, receive, queue, gaps, due>>
    <3>1. NoExecutes
      BY <2>1, <2>2, <2>4 DEF NoExecutes, Elements
    <3> QED
      BY <2>1, <2>4, <3>1, SameLast
  <2> QED
    BY <1>2, <2>1, <2>3, <2>4 DEF CallbackReturns
<1>3. CASE DrainListener
  <2>1. due = NoCall /\ Leaving /\ ~crashed'
    BY <1>3 DEF DrainListener, Leaving
  <2>2. CASE Head(emitting) \in Disconnects /\ Enqueue(Head(emitting))
    <3>1. Head(emitting) \in Tasks \ Executes
      BY <2>2, TaskAssumption DEF Tasks
    <3> QED
      BY <2>1, <2>2, <3>1, EnqueueLast
  <2>3. CASE UNCHANGED <<queue, gaps, due>>
    BY <2>1, <2>3, SameLast
  <2> QED
    BY <1>3, <2>2, <2>3 DEF DrainListener
<1>4. CASE TaskReceive
  <2>1. /\ due' = NoCall /\ UNCHANGED <<queue, gaps, receive, emitting, crashed>>
        /\ sock' # sock => due.to \in Disconnects
    BY <1>4 DEF TaskReceive, Settle, stateVars, queueVars, taskVars
  <2> QED
    BY <1>0, <2>1, SameLast DEF Leaving, NoCall
<1>5. CASE ExecuteReceive
  <2>1. due.to \in Executes /\ ~Leaving /\ due' = NoCall /\ UNCHANGED <<queue, emitting>>
    BY <1>5 DEF ExecuteReceive, ExecutesLast, NoExecutes, Settle, queueVars
  <2>2. CASE ExecuteSends(due.to)
    BY <1>0, <2>1, <2>2, SendsLast, WorkLast DEF NoCall
  <2>3. CASE UNCHANGED <<socketVars, receive, crashed>>
    <3>1. ~Leaving'
      BY <1>0, <2>1, <2>3 DEF Leaving, NoCall, socketVars
    <3> QED
      BY <2>1, <2>3, <3>1, WorkLast
  <2> QED
    BY <1>5, <2>2, <2>3 DEF ExecuteReceive
<1>6. CASE AuthReceive
  <2>1. due' = NoCall /\ UNCHANGED <<queue, gaps, receive, emitting, crashed>>
    BY <1>6 DEF AuthReceive, queueVars, taskVars
  <2>2. sock' = sock
    BY <1>6, WriteSteady DEF AuthReceive, SendConnect, socketVars
  <2> QED
    BY <1>0, <2>1, <2>2, SameLast DEF Leaving, NoCall
<1>7. CASE ConnReceive
  <2>1. due.to = "connect" /\ due.to \notin Disconnects /\ due # NoCall /\ UNCHANGED emitting
    BY <1>7, TaskAssumption DEF ConnReceive, NoCall, Calls, Tasks
  <2>2. gaps = {}
    <3>1. CASE sock = "open"
      BY <2>1, <3>1, NoGap
    <3>2. CASE sock # "open"
      BY <3>2 DEF ExecutesLast, Leaving, NoExecutes
    <3> QED
      BY <3>1, <3>2
  <2>3. CASE Dequeue(queue, busy, TRUE) /\ UNCHANGED crashed
    <3>1. emitting = <<>> \/ Leaving
      BY DEF Leaving
    <3> QED
      BY <1>1, <2>1, <2>2, <2>3, <3>1
  <2>4. CASE due' = NoCall /\ UNCHANGED <<socketVars, receive, queueVars, gaps, crashed>>
    BY <1>0, <2>1, <2>4, SameLast DEF Leaving, NoCall, socketVars, queueVars
  <2> QED
    BY <1>7, <2>3, <2>4 DEF ConnReceive, Careful
<1> QED
  BY <1>2, <1>3, <1>4, <1>5, <1>6, <1>7 DEF HandlerStep

\* The events of the event loop.
LEMMA EventLast ==
  ASSUME TypeOK, IInv, OnceInv, ~crashed, Careful, Executes # {}, Attached, ExecutesLast, EventStep,
         auth = "proof" => sock = "open"
  PROVE  ExecutesLast' /\ ~crashed'
<1>0. "none" \notin Disconnects \cup Executes /\ queue \in Seq(Tasks) /\ ticks \in Seq({"error"} \cup Tasks)
  BY TaskAssumption DEF TypeOK, Calls, Tasks
<1>1. CASE NextTick
  <2>1. Head(ticks) \in Requests
    BY <1>0, <1>1, TicksAreRequests DEF NextTick, Attached
  <2>2. Head(ticks) \notin Disconnects \cup Executes \cup {"error"}
    BY <2>1, TaskAssumption DEF Calls, Tasks
  <2>3. due'.to = Head(ticks) /\ UNCHANGED <<sock, queue, gaps, receive, emitting, crashed>>
    BY <1>1, <2>2 DEF NextTick, queueVars, taskVars
  <2> QED
    BY <2>2, <2>3, SameLast DEF Leaving
<1>2. CASE ServerReply
  <2>1. "fatal" \notin Replies(Head(wire))
    BY DEF Replies, Careful, Steady
  <2>2. /\ due'.to = Receiver /\ receive' = "none" /\ sock = "open" /\ sock' = sock
        /\ UNCHANGED <<queue, gaps, emitting, crashed>> /\ emitting = <<>>
    BY <1>2, <2>1 DEF ServerReply, EventLoop, StackEmpty, UserRuns, queueVars, taskVars
  <2>3. CASE Leaving
    <3>1. receive \in Disconnects
      BY <1>0, <1>2, <2>2, <2>3 DEF Leaving, ServerReply, EventLoop, StackEmpty, UserRuns, NoCall
    <3>2. Receiver \notin Executes
      BY <3>1, TaskAssumption DEF Receiver, TypeOK, Calls, Tasks
    <3> QED
      BY <2>2, <2>3, <3>2, SameLast
  <2>4. CASE ~Leaving
    <3>1. Receiver \notin Disconnects
      BY <2>4, TaskAssumption DEF Leaving, Receiver, TypeOK, Calls, Tasks
    <3>2. ~Leaving'
      BY <1>0, <2>2, <3>1 DEF Leaving
    <3> QED
      BY <2>2, <3>2, WorkLast
  <2> QED
    BY <2>3, <2>4
<1>3. CASE ProofReady
  <2>1. alive /\ SendConnect /\ UNCHANGED <<queue, gaps, receive, emitting, due, crashed>>
    BY <1>3 DEF ProofReady, IInv, queueVars, jsVars, taskVars
  <2>2. sock' = sock
    BY <2>1, WriteSteady DEF SendConnect
  <2> QED
    BY <2>1, <2>2, SameLast DEF Leaving
<1>4. CASE SocketClose
  <2>1. NoExecutes
    BY <1>4 DEF SocketClose, ExecutesLast, Leaving
  <2>2. FirstExecute = {}
    BY <2>1 DEF NoExecutes, FirstExecute, Elements
  <2>3. queue' = <<>> /\ ~crashed' /\ UNCHANGED <<gaps, due>>
    BY <1>4, <2>2 DEF SocketClose, ClearQueue, jsVars, taskVars
  <2> QED
    BY <2>1, <2>3 DEF ExecutesLast, NoExecutes, NoneBehind, Elements
<1>5. ASSUME NEW t \in Executes, ParametersReady(t) PROVE ExecutesLast' /\ ~crashed'
  <2>1. ~Leaving /\ due = NoCall /\ UNCHANGED <<queue, emitting>>
    BY <1>5 DEF ParametersReady, EventLoop, StackEmpty, UserRuns, ExecutesLast, NoExecutes, queueVars
  <2>2. CASE ExecuteSends(t) /\ UNCHANGED due
    BY <1>0, <2>1, <2>2, SendsLast, WorkLast DEF NoCall
  <2>3. CASE due' = [to |-> t, err |-> TRUE] /\ UNCHANGED <<socketVars, receive, crashed>>
    <3>1. ~Leaving'
      BY <2>1, <2>3, TaskAssumption DEF Leaving, socketVars
    <3> QED
      BY <2>1, <2>3, <3>1, WorkLast
  <2> QED
    BY <1>5, <2>2, <2>3 DEF ParametersReady
<1> QED
  BY <1>1, <1>2, <1>3, <1>4, <1>5 DEF EventStep

\* Without ExecuteTasks only the login can fail in this way.
LEMMA NoExecuteNoCrash ==
  ASSUME ~crashed, Careful, Executes = {}, IInv, auth = "proof" => sock = "open", Next
  PROVE  ~crashed'
<1>1. UserStep \/ CallbackReturns \/ DrainListener \/ TaskReceive \/ AuthReceive \/ NextTick \/ ServerReply
        \/ SocketReset => ~crashed'
  BY DEF UserStep, Connect, UserDestroy, UserEnqueue, UserDisconnect, UserClose, CallbackReturns,
         DrainListener, TaskReceive, AuthReceive, NextTick, ServerReply, SocketReset
<1>2. ~ExecuteReceive /\ ~\E t \in Executes : ParametersReady(t)
  BY DEF ExecuteReceive
<1>3. ConnReceive => ~crashed'
  BY DEF ConnReceive, Careful
<1>4. ProofReady => ~crashed'
  BY DEF ProofReady, IInv
<1>5. SocketClose \/ ServerFin => ~crashed'
  <2>1. FirstExecute = {}
    BY DEF FirstExecute
  <2> QED
    BY <2>1 DEF SocketClose, ServerFin
<1> QED
  BY <1>1, <1>2, <1>3, <1>4, <1>5 DEF Next, HandlerStep, EventStep, FaultStep

\* A proof that is computed at once is never waited for.
LEMMA NoProofToWaitFor ==
  ASSUME ~AsyncProof, auth # "proof", Next
  PROVE  auth' # "proof"
<1>1. UserStep => auth' # "proof"
  BY DEF UserStep, Connect, UserDestroy, UserEnqueue, UserDisconnect, UserClose
<1>2. HandlerStep => auth' # "proof"
  BY DEF HandlerStep, CallbackReturns, DrainListener, TaskReceive, ExecuteReceive, AuthReceive,
         ConnReceive, SendConnect
<1>3. EventStep => auth' # "proof"
  BY DEF EventStep, NextTick, ServerReply, ProofReady, SocketClose, ParametersReady
<1>4. FaultStep => auth' # "proof"
  BY DEF FaultStep, ServerFin, SocketReset
<1> QED
  BY <1>1, <1>2, <1>3, <1>4 DEF Next

\* When the proof is computed in the background, only a disconnect() leaves the connection, and
\* it is sent when the login is over.
LEMMA LoginOverStep ==
  ASSUME TypeOK, IInv, OnceInv, ~crashed, Careful, AsyncProof, Attached, LoginOver, Next
  PROVE  LoginOver'
<1>0. queue \in Seq(Tasks) /\ ticks \in Seq({"error"} \cup Tasks) /\ NoCall.to \notin {"authenticate", "connect"}
      /\ Tasks \cap {"authenticate", "connect"} = {}
  BY TaskAssumption DEF TypeOK, NoCall, Calls
<1>1. ASSUME sock' = sock, auth' = auth \/ sock = "open",
             due'.to \notin {"authenticate", "connect"} \/ due' = due \/ sock = "open"
      PROVE  LoginOver'
  BY <1>1 DEF LoginOver
<1>2. ASSUME NEW t \in Tasks, Enqueue(t), UNCHANGED auth PROVE LoginOver'
  <2>1. CASE Dequeue(Pushed(t), busy, running)
    <3>1. Pushed(t) \in Seq(Tasks)
      BY <1>0, AppendProperties DEF Pushed
    <3> QED
      BY <1>1, <1>2, <2>1, <3>1, DequeueSteady
  <2>2. CASE ~hasQueue \/ ReadyState = "closed"
    <3>1. sock # "open"
      BY <2>2 DEF Attached, IInv, ReadyState, TypeOK
    <3>2. UNCHANGED due \/ Dequeue(Pushed(t), busy, running)
      BY <1>2 DEF Enqueue
    <3> QED
      BY <1>2, <2>1, <3>1, <3>2 DEF LoginOver
  <2> QED
    BY <1>2, <2>1, <2>2 DEF Enqueue
<1>3. CASE UserStep
  <2>1. CASE Connect
    BY <1>1, <2>1, WriteSteady DEF Connect, jsVars
  <2>2. ASSUME NEW t \in Requests \cup Executes, UserEnqueue(t) PROVE LoginOver'
    BY <1>2, <2>2 DEF UserEnqueue, Tasks
  <2>3. ASSUME NEW d \in Disconnects, UserDisconnect(d) PROVE LoginOver'
    <3>1. d \in Tasks /\ UNCHANGED auth
      BY <2>3 DEF UserDisconnect, Tasks
    <3> QED
      BY <1>1, <1>2, <2>3, <3>1 DEF UserDisconnect, socketVars
  <2> QED
    BY <1>3, <2>1, <2>2, <2>3 DEF UserStep, UserDestroy, Careful, Steady
<1>4. CASE HandlerStep
  <2>1. CASE CallbackReturns
    BY <1>0, <1>1, <2>1, DequeueSteady DEF CallbackReturns, socketVars
  <2>2. CASE DrainListener
    <3>1. Head(emitting) \in Disconnects /\ Enqueue(Head(emitting)) /\ UNCHANGED auth
      <4>1. Head(emitting) \notin Closes
        BY DEF Careful
      <4> QED
        BY <2>2, <4>1 DEF DrainListener
    <3> QED
      BY <1>2, <3>1 DEF Tasks
  <2>3. CASE TaskReceive
    <3>1. due' = NoCall /\ UNCHANGED auth /\ due.to \in Tasks
      BY <2>3 DEF TaskReceive, Settle, Tasks
    <3>2. sock = "open" => auth = "ok"
      BY <3>1, DueTask DEF IInv
    <3> QED
      BY <1>0, <3>1, <3>2 DEF LoginOver
  <2>4. CASE ExecuteReceive
    <3>1. due' = NoCall /\ UNCHANGED auth
      BY <2>4 DEF ExecuteReceive, Settle
    <3>2. sock' = sock
      BY <2>4, WriteSteady DEF ExecuteReceive, ExecuteSends, SendPacket, socketVars
    <3> QED
      BY <1>0, <1>1, <3>1, <3>2
  <2>5. CASE AuthReceive
    <3>1. due' = NoCall /\ sock = "open"
      BY <2>5 DEF AuthReceive, LoginOver
    <3>2. sock' = sock
      BY <2>5, WriteSteady DEF AuthReceive, SendConnect, socketVars
    <3> QED
      BY <1>0, <1>1, <3>1, <3>2
  <2>6. CASE ConnReceive
    <3>1. sock = "open"
      BY <2>6 DEF ConnReceive, LoginOver
    <3>2. sock' = sock
      BY <1>0, <2>6, DequeueSteady DEF ConnReceive, socketVars
    <3> QED
      BY <1>1, <3>1, <3>2
  <2> QED
    BY <1>4, <2>1, <2>2, <2>3, <2>4, <2>5, <2>6 DEF HandlerStep
<1>5. CASE EventStep
  <2>1. CASE NextTick
    <3>1. Head(ticks) \in Requests
      BY <1>0, <2>1, TicksAreRequests DEF NextTick, Attached
    <3>2. Head(ticks) \notin {"error", "authenticate", "connect"} /\ Head(ticks) \in Tasks
      BY <3>1, TaskAssumption DEF Calls, Tasks
    <3> QED
      BY <1>1, <2>1, <3>2 DEF NextTick
  <2>2. CASE ServerReply
    <3>1. "fatal" \notin Replies(Head(wire))
      BY DEF Replies, Careful, Steady
    <3> QED
      BY <1>1, <2>2, <3>1 DEF ServerReply
  <2>3. CASE ProofReady
    <3>1. sock' = sock
      BY <2>3, WriteSteady DEF ProofReady, SendConnect, socketVars
    <3>2. sock = "open"
      BY <2>3 DEF ProofReady, LoginOver
    <3> QED
      BY <1>1, <3>1, <3>2
  <2>4. CASE SocketClose
    BY <2>4 DEF SocketClose, LoginOver, jsVars
  <2>5. ASSUME NEW t \in Executes, ParametersReady(t) PROVE LoginOver'
    <3>1. t \in Tasks /\ UNCHANGED auth
      BY <2>5 DEF ParametersReady, Tasks
    <3>2. sock' = sock
      BY <2>5, WriteSteady DEF ParametersReady, ExecuteSends, SendPacket, socketVars
    <3>3. due' = due \/ due'.to = t
      BY <2>5 DEF ParametersReady
    <3> QED
      BY <1>0, <1>1, <3>1, <3>2, <3>3
  <2> QED
    BY <1>5, <2>1, <2>2, <2>3, <2>4, <2>5 DEF EventStep
<1>6. ~FaultStep
  BY DEF FaultStep, ServerFin, SocketReset, Careful, Steady
<1> QED
  BY <1>3, <1>4, <1>5, <1>6 DEF Next

\* Every step keeps what no exception can reach.
LEMMA CarefulStep ==
  ASSUME Careful, TypeOK, IInv, OnceInv, CarefulInv, [Next]_vars
  PROVE  CarefulInv'
<1>1. CASE UNCHANGED vars
  BY <1>1 DEF CarefulInv, Attached, ExecutesLast, NoExecutes, Leaving, NoneBehind, LoginOver, Elements,
              vars, socketVars, stateVars, queueVars, jsVars, taskVars
<1>2. CASE Next
  <2>0. auth = "proof" => sock = "open"
    BY DEF CarefulInv, LoginOver
  <2>1. Steady => Attached'
    BY <1>2, AttachedStep DEF CarefulInv
  <2>2. IF AsyncProof THEN LoginOver' ELSE auth' # "proof"
    BY <1>2, LoginOverStep, NoProofToWaitFor DEF CarefulInv, Careful
  <2>3. CASE Executes = {}
    <3>1. ~crashed'
      BY <1>2, <2>0, <2>3, NoExecuteNoCrash DEF CarefulInv
    <3> QED
      BY <2>1, <2>2, <2>3, <3>1 DEF CarefulInv
  <2>4. CASE Executes # {}
    <3>1. ~FaultStep
      BY <2>4 DEF FaultStep, ServerFin, SocketReset, Careful, Steady
    <3>2. ~crashed /\ Attached /\ ExecutesLast
      BY <2>4 DEF CarefulInv, Careful
    <3>3. ExecutesLast' /\ ~crashed'
      BY <1>2, <2>0, <2>4, <3>1, <3>2, UserLast, HandlerLast, EventLast DEF Next
    <3> QED
      BY <2>1, <2>2, <3>3 DEF CarefulInv
  <2> QED
    BY <2>3, <2>4
<1> QED
  BY <1>1, <1>2

\* No exception of a handler reaches the event loop: Queue.abort meets no ExecuteTask, and an
\* ExecuteTask or the callback of manager.initialize that sends finds a connection.
THEOREM NoCrash ==
  ASSUME Careful
  PROVE  Spec => []NeverCrashes
<1>1. Init => CarefulInv
  <2> SUFFICES ASSUME Init PROVE CarefulInv
    OBVIOUS
  <2>1. Elements(ticks) = {} /\ Attached /\ ~crashed
    BY DEF Init, Elements, Attached
  <2>2. NoneBehind(queue) /\ ~Leaving
    BY TaskAssumption DEF Init, NoneBehind, Leaving, NoCall, Calls, Tasks
  <2>3. LoginOver /\ auth # "proof"
    BY DEF Init, LoginOver
  <2> QED
    BY <2>1, <2>2, <2>3 DEF CarefulInv, ExecutesLast
<1>2. CarefulInv /\ (TypeOK /\ IInv) /\ (TypeOK /\ OnceInv) /\ [Next]_vars => CarefulInv'
  BY CarefulStep
<1>3. CarefulInv => NeverCrashes
  BY DEF CarefulInv, NeverCrashes
<1> QED
  BY <1>1, <1>2, <1>3, Inductive, OnceInductive, PTL DEF Spec
===============================================================================
