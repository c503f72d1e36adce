------------------------------- MODULE ResultSet -------------------------------
(***************************************************************************)
(* A result set (lib/protocol/ResultSet.js) and the binary stream that     *)
(* reads it (util.createReadStream).  Rows travel in packets 1..Last; the  *)
(* reply to the query may carry packet 1, FETCH requests get the others.   *)
(*                                                                         *)
(* As in Connection, a step is one callback of the event loop, one call of *)
(* user code or one part of a handler between two callbacks it makes:      *)
(*   frames  the handleData() calls whose 'data' listeners are running     *)
(*   event   the event that has been emitted and whose listener runs next  *)
(*   ticks   the process.nextTick queue of this result set                 *)
(* The connection (module Connection) is a queue that answers one request  *)
(* at a time.  When it breaks it fails the requests it still has, see      *)
(* Break; one of them may be lost, and its callback is never called.       *)
(***************************************************************************)
EXTENDS Naturals, Sequences, Functions

CONSTANTS
  Last,           \* the number of packets
  Empty,          \* packets without rows
  HighWaterMark,  \* the stream wants no more packets than this
  FaultSets,      \* what may go wrong in one execution: FETCH, CLOSE, READ LOB, the connection
  MaxPauses,      \* bound on the calls of pause() by user code
  Impatient,      \* user code calls pause() and resume() from anywhere, see UserPause
  MaxCloses       \* bound on the calls of close() by user code

Packets == 1..Last

ASSUME PacketAssumption == Last \in Nat \ {0} /\ Empty \subseteq Packets
ASSUME StreamAssumption == HighWaterMark \in Nat \ {0}
ASSUME UserAssumption ==
  MaxPauses \in Nat /\ MaxCloses \in Nat /\ Impatient \in BOOLEAN
ASSUME FaultAssumption == FaultSets \subseteq SUBSET {"fetch", "close", "lob", "fin", "reset"}

VARIABLES
  running,    \* _running: undefined, yes, no
  finished, closed,
  data,       \* _data: a packet, or 0
  connected,  \* _connection is defined
  ticks, frames, event,
  requests,   \* requests the connection has not answered, the first one in flight
  up,         \* the connection is open
  cursor,     \* packets the server has handed out
  serverOpen, \* the server still holds the result set
  autoClose,  \* the last packet has the attribute RESULT_SET_CLOSED
  faults,     \* what may go wrong, a member of FaultSets
  lost,       \* the request that the connection lost when it broke, none otherwise
  buffer,     \* packets in the stream
  reading,    \* the stream waits for the push() that its _read has asked for
  ended,      \* push(null) has been called
  delivered,  \* packets that the consumer has taken from the stream
  pauses, closes, answered, \* calls of pause() and close(), callbacks of close()
  ends, closeEvents         \* 'end' and 'close' events

rsVars == <<running, finished, closed, data, connected>>
loopVars == <<ticks, frames, event>>
serverVars == <<requests, up, cursor, serverOpen, autoClose, faults, lost>>
streamVars == <<buffer, reading, ended, delivered>>
userVars == <<pauses, closes, answered, ends, closeEvents>>
vars == <<rsVars, loopVars, serverVars, streamVars, userVars>>

\* The last one is the 'error' event of the collector of module ResultSetFetch.
TickNames == {"fetch", "end", "endclose", "close", "sendclose", "emitclose", "collector"}

TypeOK ==
  /\ running \in {"undefined", "yes", "no"}
  /\ finished \in BOOLEAN /\ closed \in BOOLEAN /\ connected \in BOOLEAN
  /\ data \in 0..Last
  /\ ticks \in Seq(TickNames)
  /\ frames \in Seq([packet : Packets, stored : BOOLEAN])
  /\ event \in {"none", "error"}
  /\ requests \in Seq({"fetch", "close", "lob"})
  /\ up \in BOOLEAN /\ cursor \in 0..Last /\ serverOpen \in BOOLEAN /\ autoClose \in BOOLEAN
  /\ lost \in {"none", "fetch", "close", "lob"}
  /\ buffer \in Seq(Packets) /\ reading \in BOOLEAN /\ ended \in BOOLEAN
  /\ delivered \in Seq(Packets)
  /\ pauses \in Nat /\ closes \in Nat /\ answered \in Nat /\ ends \in Nat /\ closeEvents \in Nat

Init ==
  /\ running = "undefined" /\ finished = FALSE /\ closed = FALSE /\ connected = TRUE
  /\ data \in {0, 1} /\ cursor = data
  /\ autoClose \in BOOLEAN /\ serverOpen = ~(cursor = Last /\ autoClose)
  /\ ticks = <<>> /\ frames = <<>> /\ event = "none"
  /\ requests = <<>> /\ up = TRUE /\ faults \in FaultSets /\ lost = "none"
  /\ buffer = <<>> /\ reading = FALSE /\ ended = FALSE /\ delivered = <<>>
  /\ pauses = 0 /\ closes = 0 /\ answered = 0 /\ ends = 0 /\ closeEvents = 0

\* User code may call: no handler is between two of its own statements.
UserRuns == event = "none"

\* No callback is running; the connection is not failing its requests.
Calm == UserRuns /\ frames = <<>> /\ (up \/ requests = <<>>)
EventLoop == Calm /\ ticks = <<>>

-----------------------------------------------------------------------------
(* The operations of the result set *)

\* Faulty variant: 'end' is emitted again by a result set that has finished.
EndTicksAgain(isClosed) == IF isClosed THEN <<"endclose">> ELSE <<"end">>

\* What emitEnd(isClosed) defers: the 'end' event, and the 'close' event when the server has
\* closed the result set.
EndTicks(isClosed) ==
  CASE ~finished /\ isClosed  -> <<"endclose">>
    [] ~finished /\ ~isClosed -> <<"end">>
    [] finished /\ isClosed   -> <<"close">>
    [] finished /\ ~isClosed  -> <<>>

\* emitEnd
EmitEnd(isClosed) ==
  /\ finished' = TRUE
  /\ running' = IF finished THEN running ELSE "no"
  /\ ticks' = ticks \o EndTicks(isClosed)

\* emitClose
EmitClose ==
  /\ closed' = TRUE
  /\ ticks' = IF closed THEN Tail(ticks) ELSE Append(Tail(ticks), "emitclose")

\* Faulty variant: the packet that fills the stream does not pause the result set.
NeverPauses(n) == "yes"

\* The stream's 'data' listener pauses the result set when push() says that it is full.
AfterPush(n) == IF n < HighWaterMark THEN "yes" ELSE "no"

\* handleData(k), up to the return of the stream's 'data' listener.  The packet goes to the
\* buffer of the stream, or to a consumer that waits for it unless _read is running.
HandleData(k, stored, inRead) ==
  /\ frames' = <<[packet |-> k, stored |-> stored]>> \o frames
  /\ \/ /\ k \in Empty \/ ended
        /\ running' = "yes" /\ reading' = (reading \/ inRead)
        /\ UNCHANGED <<buffer, delivered>>
     \/ /\ k \notin Empty /\ ~ended
        /\ buffer' = Append(buffer, k)
        /\ running' = AfterPush(Len(buffer) + 1) /\ reading' = FALSE
        /\ UNCHANGED delivered
     \/ /\ k \notin Empty /\ ~ended /\ ~inRead /\ buffer = <<>>
        /\ delivered' = Append(delivered, k)
        /\ running' = "yes" /\ reading' = FALSE
        /\ UNCHANGED buffer

\* sendFetch, with the flag _running at p: a closed connection refuses the request at once.
SendFetch(p) ==
  IF up
  THEN requests' = Append(requests, "fetch") /\ running' = p /\ UNCHANGED event
  ELSE running' = "no" /\ event' = "error" /\ UNCHANGED requests

\* Faulty variant of the early return of resume().
ResumesAgain == ~finished

\* resume() returns early when the result set is running or finished.
MayResume == running # "yes" /\ ~finished

\* resume(), called by user code or by the stream's _read
Resume(inRead) ==
  \/ /\ ~MayResume
     /\ reading' = (reading \/ inRead)
     /\ UNCHANGED <<running, frames, event, requests, buffer, delivered>>
  \/ /\ MayResume /\ data # 0
     /\ HandleData(data, TRUE, inRead)
     /\ UNCHANGED <<event, requests>>
  \/ /\ MayResume /\ data = 0
     /\ SendFetch("yes")
     /\ reading' = (reading \/ inRead)
     /\ UNCHANGED <<frames, buffer, delivered>>

\* Faulty variant: close() of a finished result set sends nothing to the server.
CloseTicksOnce == IF finished THEN <<>> ELSE <<"end", "sendclose">>

\* close() defers sendClose behind the 'end' event.
CloseTicks == EndTicks(FALSE) \o <<"sendclose">>

\* close(cb)
Close ==
  IF closed
  THEN answered' = answered + 1 /\ UNCHANGED <<running, finished, ticks>>
  ELSE /\ finished' = TRUE
       /\ running' = IF finished THEN running ELSE "no"
       /\ ticks' = ticks \o CloseTicks
       /\ UNCHANGED answered

-----------------------------------------------------------------------------
(* User code and the stream *)

\* User code pauses the result set.  Patient code does so in a listener of 'data', before the
\* next FETCH is sent; impatient code also from a timer, when a FETCH may be outstanding.
UserPause ==
  /\ UserRuns /\ pauses < MaxPauses
  /\ frames # <<>> \/ (Impatient /\ Calm)
  /\ pauses' = pauses + 1
  /\ running' = "no"
  /\ UNCHANGED <<finished, closed, data, connected, loopVars, serverVars, streamVars, closes,
                 answered, ends, closeEvents>>

\* User code resumes what it has paused; patient code only while the stream has room.
UserResume ==
  /\ Calm /\ pauses > 0 /\ running = "no"
  /\ Impatient \/ Len(buffer) < HighWaterMark
  /\ Resume(FALSE)
  /\ UNCHANGED <<finished, closed, data, connected, ticks, up, cursor, serverOpen, autoClose,
                 faults, lost, ended,
                 userVars>>

UserClose ==
  /\ UserRuns /\ closes < MaxCloses
  /\ closes' = closes + 1
  /\ Close
  /\ UNCHANGED <<closed, data, connected, frames, event, serverVars, streamVars, pauses, ends,
                 closeEvents>>

\* The stream calls _read when it has room and no _read is outstanding.
StreamReads ==
  /\ Calm /\ ~reading /\ ~ended /\ Len(buffer) < HighWaterMark
  /\ Resume(TRUE)
  /\ UNCHANGED <<finished, closed, data, connected, ticks, up, cursor, serverOpen, autoClose,
                 faults, lost, ended,
                 userVars>>

\* The consumer takes a packet from the stream.
Consume ==
  /\ Calm /\ buffer # <<>>
  /\ delivered' = Append(delivered, Head(buffer))
  /\ buffer' = Tail(buffer)
  /\ UNCHANGED <<rsVars, loopVars, serverVars, reading, ended, userVars>>

\* The listener of 'error': the error is passed on to the user.
ErrorListener ==
  /\ event = "error" /\ event' = "none"
  /\ UNCHANGED <<rsVars, ticks, frames, serverVars, streamVars, userVars>>

-----------------------------------------------------------------------------
(* Callbacks *)

\* Faulty variants: the packet is kept after it was handled; the last packet but one ends.
StillStored(f) == data
LastButOne(k) == k + 1 >= Last

\* resume() drops the packet that it has handled.
Stored(f) == IF f.stored THEN 0 ELSE data

\* isLast
IsLast(k) == k = Last

\* Faulty variant: the next packet is fetched by a paused result set only.
FetchesWhenPaused == running = "no"

\* A result set that runs fetches its next packet.
FetchesNext == running = "yes"

\* The 'data' listeners return to handleData(), and that to resume() or receiveData().
HandlerReturns ==
  /\ UserRuns /\ frames # <<>>
  /\ frames' = Tail(frames)
  /\ data' = Stored(Head(frames))
  /\ IF IsLast(Head(frames).packet)
     THEN EmitEnd(autoClose)
     ELSE /\ ticks' = IF FetchesNext THEN Append(ticks, "fetch") ELSE ticks
          /\ UNCHANGED <<running, finished>>
  /\ UNCHANGED <<closed, connected, event, serverVars, streamVars, userVars>>

\* Faulty variant: a second CLOSE whose connection is gone is not answered.
SendCloseSilently ==
  IF connected /\ up
  THEN requests' = Append(requests, "close") /\ UNCHANGED <<connected, answered>>
  ELSE connected' = FALSE /\ UNCHANGED <<requests, answered>>

\* sendClose: a connection that is gone or closed answers at once.
SendClose ==
  IF connected /\ up
  THEN requests' = Append(requests, "close") /\ UNCHANGED <<connected, answered>>
  ELSE connected' = FALSE /\ answered' = answered + 1 /\ UNCHANGED requests

\* The next nextTick callback.
Tick ==
  /\ Calm /\ ticks # <<>>
  /\ \/ /\ Head(ticks) = "fetch"
        /\ ticks' = Tail(ticks)
        /\ SendFetch(running)
        /\ UNCHANGED <<closed, connected, ended, answered, ends, closeEvents>>
     \/ /\ Head(ticks) \in {"end", "endclose", "close"}
        /\ IF Head(ticks) # "close"
           THEN ends' = ends + 1 /\ ended' = TRUE
           ELSE UNCHANGED <<ends, ended>>
        /\ IF Head(ticks) # "end" THEN EmitClose ELSE ticks' = Tail(ticks) /\ UNCHANGED closed
        /\ UNCHANGED <<running, connected, event, requests, answered, closeEvents>>
     \/ /\ Head(ticks) = "sendclose"
        /\ ticks' = Tail(ticks)
        /\ SendClose
        /\ UNCHANGED <<running, closed, event, ended, ends, closeEvents>>
     \/ /\ Head(ticks) = "emitclose"
        /\ ticks' = Tail(ticks)
        /\ closeEvents' = closeEvents + 1
        /\ UNCHANGED <<running, closed, connected, event, requests, ended, answered, ends>>
  /\ UNCHANGED <<finished, data, frames, up, cursor, serverOpen, autoClose, faults, lost, buffer,
                 reading,
                 delivered, pauses, closes>>

\* A request may be answered when nothing else is left to do, or is failing.
Answering(r) == (EventLoop \/ (~up /\ UserRuns /\ frames = <<>>)) /\ requests # <<>> /\ Head(requests) = r

\* The packet with which the server answers FETCH.
NextPacket == cursor + 1

\* receiveData handles the packet, or keeps it while the result set is paused.
FetchReply ==
  /\ Answering("fetch")
  /\ requests' = Tail(requests)
  /\ \/ /\ up /\ serverOpen /\ cursor < Last
        /\ cursor' = NextPacket
        /\ serverOpen' = ~(cursor' = Last /\ autoClose)
        /\ IF running = "yes"
           THEN HandleData(NextPacket, FALSE, FALSE) /\ UNCHANGED data
           ELSE data' = NextPacket /\ UNCHANGED <<running, frames, buffer, reading, delivered>>
        /\ UNCHANGED event
     \/ /\ ~up \/ ~serverOpen \/ cursor = Last \/ "fetch" \in faults
        /\ running' = "no" /\ event' = "error"
        /\ UNCHANGED <<data, frames, cursor, serverOpen, buffer, reading, delivered>>
  /\ UNCHANGED <<finished, closed, connected, ticks, up, autoClose, faults, lost, ended, userVars>>

\* done(err) of sendClose
CloseReply ==
  /\ Answering("close")
  /\ requests' = Tail(requests)
  /\ connected' = FALSE
  /\ answered' = answered + 1
  /\ \/ /\ up
        /\ serverOpen' = FALSE
        /\ closed' = TRUE
        /\ ticks' = IF closed THEN ticks ELSE Append(ticks, "emitclose")
     \/ /\ ~up \/ ~serverOpen \/ "close" \in faults
        /\ UNCHANGED <<serverOpen, closed, ticks>>
  /\ UNCHANGED <<running, finished, data, frames, event, up, cursor, autoClose, faults, lost,
                 streamVars, pauses,
                 closes, ends, closeEvents>>

\* The server's FIN: Queue.abort fails what waits, then onError what is in flight.
FinFails ==
  /\ "fin" \in faults
  /\ requests' = IF requests = <<>> THEN <<>> ELSE Append(Tail(requests), Head(requests))
  /\ UNCHANGED lost

\* The requests without the i-th one.
Without(i) == [j \in 1..(Len(requests) - 1) |-> requests[IF j < i THEN j ELSE j + 1]]

\* A reset, or a fatal reply: onError fails what is in flight, next() sends the task that waits on
\* the destroyed socket, _cleanup forgets its callback and Queue.abort fails the others.  Which
\* request is lost, if one of this result set, depends on what else is in the queue.
ResetLoses ==
  /\ "reset" \in faults
  /\ \/ UNCHANGED <<requests, lost>>
     \/ \E i \in DOMAIN requests : requests' = Without(i) /\ lost' = requests[i]

\* The connection breaks.
Break ==
  /\ EventLoop /\ up
  /\ up' = FALSE
  /\ serverOpen' = FALSE
  /\ FinFails \/ ResetLoses
  /\ UNCHANGED <<rsVars, loopVars, cursor, autoClose, faults, streamVars, userVars>>

-----------------------------------------------------------------------------
UserStep == UserPause \/ UserResume \/ UserClose \/ ErrorListener
StreamStep == StreamReads \/ Consume
HandlerStep == HandlerReturns \/ Tick \/ FetchReply \/ CloseReply

Next == UserStep \/ StreamStep \/ HandlerStep \/ Break

Spec == Init /\ [][Next]_vars

\* The server answers, handlers run to completion, the consumer reads to the end, and user code
\* resumes what it has paused.
FairSpec ==
  /\ Spec /\ WF_vars(UserResume)
  /\ WF_vars(HandlerStep) /\ WF_vars(StreamReads) /\ WF_vars(Consume) /\ WF_vars(ErrorListener)

-----------------------------------------------------------------------------
(* Properties *)

WithRows == Packets \ Empty
Pushed == delivered \o buffer

\* ResultSet.resume, receiveData, handleData and the stream: the consumer gets the packets in
\* the order of the rows, none twice and none left out.
RowsInOrder ==
  /\ Range(Pushed) \subseteq WithRows
  /\ \A i, j \in DOMAIN Pushed : i < j => Pushed[i] < Pushed[j]
  /\ \A i \in DOMAIN Pushed : \A k \in WithRows : k < Pushed[i] => k \in Range(Pushed)

\* The stream holds no more packets than it has asked for.
Backpressure == Len(buffer) <= HighWaterMark

Once(s, x) == \A i, j \in DOMAIN s : s[i] = x /\ s[j] = x => i = j
Before(s, x, y) == \A i, j \in DOMAIN s : s[i] = x /\ s[j] = y => i < j

\* A FETCH has been sent, or will be by process.nextTick.
Fetching == "fetch" \in Range(requests)
FetchDue == "fetch" \in Range(ticks)

\* FETCH: one is outstanding or due at a time, and none while a packet is handled; none is sent for
\* a stream that has its last packet, none follows the CLOSE of the same result set, which the server
\* would reject, and none is made without a connection, where sendFetch would throw.
OneFetch ==
  /\ Once(requests, "fetch") /\ Once(ticks, "fetch") /\ ~(Fetching /\ FetchDue)
  /\ Fetching \/ FetchDue => frames = <<>> /\ cursor < Last
  /\ up => Before(requests, "fetch", "close")
  /\ FetchDue => "close" \notin Range(requests) /\ connected
  /\ ~connected => finished

\* 'end' and 'close' are emitted at most once, 'close' after 'end', and without close() and
\* without a failure 'end' tells that every row has been pushed.
EndThenClose ==
  /\ ends <= 1 /\ closeEvents <= ends
  /\ ends > 0 /\ closes = 0 => WithRows \subseteq Range(Pushed)

\* Each call of close(cb) is answered, but for the one whose CLOSE a breaking connection has lost;
\* and a result set that user code has closed does not stay open on the server (CLOSE succeeds).
CloseSettles ==
  /\ \A n \in 1..MaxCloses :
       (closes = n) ~> (answered = n \/ (lost = "close" /\ answered = n - 1))
  /\ (closes > 0) ~> ~serverOpen

\* A consumer that reads to the end comes to the end, unless an error was reported or a breaking
\* connection has lost the FETCH.
StreamEnds == <>(ended \/ event = "error" \/ lost = "fetch")
===============================================================================
