------------------------------ MODULE ExecuteTask ------------------------------
(***************************************************************************)
(* The execution of a prepared statement (lib/protocol/ExecuteTask.js) and *)
(* the Writer of its parameters (lib/protocol/Writer.js).  Rows are packed *)
(* into EXECUTE packets as long as they fit; a LOB is read from a stream   *)
(* and continued by WRITE_LOB packets; several packets are one transaction *)
(* that the task ends with COMMIT or ROLLBACK.  The connection may break   *)
(* while the task runs; a reply that is lost then leaves open what the     *)
(* server has done.                                                        *)
(*                                                                         *)
(* Data is counted in units and kept as tokens <<row, lob, unit>>: the     *)
(* fixed part of a row is <<row, 0, 0>>, the units of a LOB are numbered,  *)
(* and its LAST_DATA flag counts as one more.  The state of the task is    *)
(* one record, so that the functions of the code, which call each other    *)
(* before they return to the event loop, are operators on that record.     *)
(***************************************************************************)
EXTENDS Integers, Sequences, FiniteSets, Functions

CONSTANTS
  Batches,          \* what the caller may execute, see BatchAssumption
  PacketSizeLimit,  \* getAvailableSize(false), the most that a packet holds
  PacketSize,       \* getAvailableSize(true), the most when a packet holds LOB data
  LobHeader         \* WRITE_LOB_REQUEST_HEADER_LENGTH

\* rows: parameters.values, the units of a row without LOB data and the lengths of its LOBs;
\* bad: rows with a value that the Writer rejects; autoCommit: that of the connection;
\* faults: what fails - a request, COMMIT or ROLLBACK, the stream being read, another stream, the
\* connection by a FIN or a reset.
ASSUME BatchAssumption ==
  \A b \in Batches :
    /\ b.rows \in Seq([size : Nat \ {0}, lobs : Seq(Nat)]) /\ b.bad \subseteq DOMAIN b.rows
    /\ b.autoCommit \in BOOLEAN /\ 
       b.faults \subseteq {"request", "finalize", "reading", "other", "fin", "reset"}
ASSUME SizeAssumption ==
  /\ PacketSizeLimit \in Nat /\ PacketSize \in Nat /\ LobHeader \in Nat
  /\ LobHeader < PacketSize /\ PacketSize <= PacketSizeLimit

VARIABLES
  batch,    \* the member of Batches that is executed
  task,     \* the ExecuteTask, its Writer, streams, deferred calls and unanswered requests
  tx,       \* what the server holds in the open transaction
  durable,  \* what the server has committed
  link      \* the connection: up, ended (FIN received), dead (nothing is answered any more)

vars == <<batch, task, tx, durable, link>>

Rows == batch.rows
BadRows == batch.bad
AutoCommit == batch.autoCommit
Faults == batch.faults

RowIds == DOMAIN Rows
LobIds == UNION {{<<r, l>> : l \in DOMAIN Rows[r].lobs} : r \in RowIds}

Length(k) == Rows[k[1]].lobs[k[2]]

RowToken(r) == <<r, 0, 0>>
Data(k, i) == <<k[1], k[2], i>>
LastData(k) == Data(k, Length(k) + 1)
IsData(x) == x[2] > 0 /\ x[3] <= Length(x)

\* What the server must receive, and in which order.
Tokens ==
  {RowToken(r) : r \in RowIds} \cup UNION {{Data(k, i) : i \in 1..Length(k)} \cup {LastData(k)} : k \in LobIds}

Precedes(x, y) ==
  \/ x[1] < y[1]
  \/ x[1] = y[1] /\ x[2] < y[2]
  \/ x[1] = y[1] /\ x[2] = y[2] /\ x[3] < y[3]

Modes == {"parameters", "writelob"}
Requests == {"execute", "writelob", "commit", "rollback"}

Call == [step : {"next", "done", "fail"}, mode : Modes]
Request == [type : Requests, autoCommit : BOOLEAN, data : Seq(Tokens), size : Nat]
Stream == [buffered : Nat, left : Nat, ended : BOOLEAN, errored : BOOLEAN]

Task ==
  [started : BOOLEAN, next : Nat, autoCommit : BOOLEAN, needFinalize : BOOLEAN,
   params : BOOLEAN, row : Nat, lobs : Seq(Nat), buffers : Seq(Tokens), bytes : Nat,
   args : Seq(Tokens), argBytes : Nat, attached : Modes \cup {"none"}, room : Int,
   streams : [LobIds -> Stream], immediates : Seq(Call), requests : Seq(Request),
   receive : Requests \cup {"none"}, calls : Nat, outcome : {"none", "ok", "error"}]

TypeOK ==
  /\ task \in Task /\ tx \in Seq(Tokens) /\ durable \in Seq(Tokens)
  /\ link \in {"up", "ended", "dead"}

Init ==
  /\ batch \in Batches
  /\ task = [started |-> FALSE, next |-> 1, autoCommit |-> AutoCommit, needFinalize |-> FALSE,
             params |-> FALSE, row |-> 0, lobs |-> <<>>, buffers |-> <<>>, bytes |-> 0,
             args |-> <<>>, argBytes |-> 0, attached |-> "none", room |-> 0,
             streams |-> [k \in LobIds |->
               [buffered |-> 0, left |-> Rows[k[1]].lobs[k[2]], ended |-> FALSE, errored |-> FALSE]],
             immediates |-> <<>>, requests |-> <<>>, receive |-> "none",
             calls |-> 0, outcome |-> "none"]
  /\ tx = <<>> /\ durable = <<>> /\ link = "up"

-----------------------------------------------------------------------------
(* The Writer *)

\* The stream that is read next.
Lob(t) == <<t.row, Head(t.lobs)>>

Defer(t, step, mode) == [t EXCEPT !.immediates = Append(@, [step |-> step, mode |-> mode])]

\* finalize() sets LAST_DATA in the header of the LOB and removes its stream.
FinalizeLob(t) == [t EXCEPT !.buffers = Append(@, LastData(Lob(t))), !.lobs = Tail(@)]

\* Faulty variants: a full packet always ends its LOB, or never does.
EndsAnyway(s) == s.ended
EndsLater(s) == s.ended /\ s.left > 0

\* The LOB is complete when its stream has ended and nothing is left in it.
Complete(s) == s.ended /\ s.buffered = 0

\* How many units of the LOB have been taken from its stream.
UnitsRead(t, k) == Length(k) - t.streams[k].left - t.streams[k].buffered

\* onreadable: everything that the stream has, as far as there is room.
OnReadable(t, mode) ==
  LET k    == Lob(t)
      n    == IF t.streams[k].buffered < t.room THEN t.streams[k].buffered ELSE t.room
      read == [t EXCEPT !.streams[k].buffered = @ - n, !.bytes = @ + n, !.room = @ - n,
                        !.buffers = @ \o [i \in 1..n |-> Data(k, UnitsRead(t, k) + i)]]
      full == [read EXCEPT !.attached = "none"]
  IN IF n = 0 THEN t
     ELSE IF read.room > 0 THEN read
     ELSE Defer(IF Complete(read.streams[k]) THEN FinalizeLob(full) ELSE full, "done", mode)

\* next() of finializeParameters and of finalizeWriteLobRequest
ReadLob(t, mode) ==
  LET header == IF mode = "writelob" THEN LobHeader ELSE 0
  IN IF t.lobs = <<>> \/ t.room <= header
     THEN Defer(t, "done", mode)
     ELSE OnReadable([t EXCEPT !.attached = mode, !.bytes = @ + header, !.room = @ - header], mode)

\* The callback is called for every stream of the row that has failed before, and next() after it.
ReadLobs(t, mode) ==
  LET failed == {i \in DOMAIN t.lobs : t.streams[<<t.row, t.lobs[i]>>].errored}
  IN ReadLob([t EXCEPT !.immediates = @ \o [i \in 1..Cardinality(failed) |-> [step |-> "fail", mode |-> mode]]],
             mode)

\* clear
Cleared(t) == [t EXCEPT !.params = FALSE, !.buffers = <<>>, !.bytes = 0]

\* setValues(parameterValues.shift()): a rejected value leaves a Writer without parameters.
SetValues(t) ==
  [t EXCEPT !.params = (t.next \notin BadRows), !.row = t.next, !.next = @ + 1,
            !.lobs = [l \in DOMAIN Rows[t.next].lobs |-> l], !.buffers = <<RowToken(t.next)>>,
            !.bytes = Rows[t.next].size]

-----------------------------------------------------------------------------
(* The task *)

\* connection.send(request, receive)
Send(t, type) ==
  [t EXCEPT !.requests = Append(@, [type |-> type, autoCommit |-> t.autoCommit,
              data |-> CASE type = "execute" -> t.args [] type = "writelob" -> t.buffers
                         [] OTHER -> <<>>,
              size |-> CASE type = "execute" -> t.argBytes [] type = "writelob" -> t.bytes
                         [] OTHER -> 0]),
            !.receive = type]

\* done(err): the callback, then next() of the queue
Ended(t, outcome) == [t EXCEPT !.calls = @ + 1, !.outcome = outcome]

\* finalize(err)
Finalize(t, outcome) ==
  IF ~t.needFinalize THEN Ended(t, outcome)
  ELSE Send(t, IF outcome = "error" THEN "rollback" ELSE "commit")

\* Faulty variants: the packets commit on their own; the task ends a transaction of the user.
CommitsEachPacket(t) == [t EXCEPT !.needFinalize = t.autoCommit]
TakesTransaction(t) == [t EXCEPT !.needFinalize = TRUE, !.autoCommit = FALSE]

\* Under auto-commit a statement that needs more packets becomes a transaction of its own.
OpenTransaction(t) == IF t.autoCommit THEN [t EXCEPT !.needFinalize = TRUE, !.autoCommit = FALSE] ELSE t

\* Faulty variant: the rows already in the packet are not counted.
RoomOfRow(t) == PacketSize - t.bytes

\* The room for LOB data behind the row.
RoomForLobs(t) == PacketSize - t.argBytes - t.bytes

\* next() of getParameters
NextRow(t) ==
  LET taken == IF t.params THEN t ELSE SetValues(t)
  IN IF ~t.params /\ t.next > Len(Rows) THEN Send(t, "execute")
     ELSE IF ~taken.params THEN Finalize(taken, "error")
     ELSE IF taken.bytes <= PacketSizeLimit - t.argBytes
     THEN ReadLobs([taken EXCEPT !.room = RoomForLobs(taken)], "parameters")
     ELSE IF t.args = <<>>
     THEN Finalize([OpenTransaction(taken) EXCEPT !.needFinalize = FALSE], "error")
     ELSE Send(OpenTransaction(taken), "execute")

\* done(null) of getParameters and handleParameters
HandleParameters(t) ==
  LET packed == Cleared([t EXCEPT !.args = @ \o t.buffers, !.argBytes = @ + t.bytes])
  IN IF t.lobs # <<>> THEN Send(OpenTransaction(packed), "execute") ELSE NextRow(packed)

\* Faulty variant: the row that did not fit into the last packet is forgotten.
ForgetsRow(t) ==
  IF t.next > Len(Rows) THEN Finalize(t, "ok") ELSE NextRow([t EXCEPT !.args = <<>>, !.argBytes = 0])

\* execute
Execute(t) ==
  IF t.next > Len(Rows) /\ ~t.params
  THEN Finalize(t, "ok")
  ELSE NextRow([t EXCEPT !.args = <<>>, !.argBytes = 0])

\* writeLob: the Writer is finished, holds the next row, or has LOBs to continue.
WriteLob(t) ==
  IF t.params \/ (t.lobs = <<>> /\ t.buffers = <<>>)
  THEN Execute(t)
  ELSE ReadLobs([Cleared(t) EXCEPT !.room = PacketSize], "writelob")

-----------------------------------------------------------------------------
(* Steps *)

\* run: a batch needs a statement that takes many rows.
Run ==
  /\ ~task.started /\ link = "up"
  /\ \E canBatch \in BOOLEAN :
        LET started == [task EXCEPT !.started = TRUE]
        IN task' = IF Len(Rows) > 1 /\ ~canBatch THEN Ended(started, "error") ELSE Execute(started)
  /\ UNCHANGED <<batch, tx, durable, link>>

\* A setImmediate callback.
Immediate ==
  /\ task.immediates # <<>>
  /\ LET call == Head(task.immediates)
         t    == [task EXCEPT !.immediates = Tail(@)]
     IN task' = CASE call.step = "next" -> ReadLob(t, call.mode)
                  [] call.step = "fail" -> Finalize(t, "error")
                  [] call.step = "done" /\ call.mode = "parameters" -> HandleParameters(t)
                  [] call.step = "done" /\ call.mode = "writelob" -> Cleared(Send(t, "writelob"))
  /\ UNCHANGED <<batch, tx, durable, link>>

Attached == task.attached # "none"

\* 'readable' of the stream that is being read
ReadableEvent ==
  /\ Attached /\ task.streams[Lob(task)].buffered > 0 /\ ~task.streams[Lob(task)].errored
  /\ task' = OnReadable(task, task.attached)
  /\ UNCHANGED <<batch, tx, durable, link>>

\* 'end' of the stream that is being read
EndEvent ==
  /\ Attached /\ Complete(task.streams[Lob(task)])
  /\ task' = Defer([FinalizeLob(task) EXCEPT !.attached = "none"], "next", task.attached)
  /\ UNCHANGED <<batch, tx, durable, link>>

\* A stream gets data, or comes to its end.
Arrive(k) ==
  /\ ~task.streams[k].errored /\ ~task.streams[k].ended
  /\ \/ \E n \in 1..task.streams[k].left :
           task' = [task EXCEPT !.streams[k].left = @ - n, !.streams[k].buffered = @ + n]
     \/ /\ task.streams[k].left = 0
        /\ task' = [task EXCEPT !.streams[k].ended = TRUE]
  /\ UNCHANGED <<batch, tx, durable, link>>

Reads(k) == Attached /\ k = Lob(task)

\* A stream fails: the listener of the stream that is read stops, of another one remembers it.
StreamError(k) ==
  /\ ~task.streams[k].errored /\ ~task.streams[k].ended
  /\ LET t == [task EXCEPT !.streams[k].errored = TRUE]
     IN \/ /\ Reads(k) /\ "reading" \in Faults
           /\ task' = Defer([t EXCEPT !.attached = "none"], "fail", task.attached)
        \/ /\ ~Reads(k) /\ "other" \in Faults
           /\ task' = t
  /\ UNCHANGED <<batch, tx, durable, link>>

MayFail(type) == (IF type \in {"execute", "writelob"} THEN "request" ELSE "finalize") \in Faults

\* A request that commits when it succeeds.
Commits(r) == r.type = "commit" \/ (r.type = "execute" /\ r.autoCommit)

\* What the server does with a request that succeeds.
Apply(r) ==
  CASE r.type = "execute" /\ r.autoCommit -> durable' = durable \o tx \o r.data /\ tx' = <<>>
    [] r.type \in {"execute", "writelob"} /\ ~(r.type = "execute" /\ r.autoCommit) ->
         tx' = tx \o r.data /\ UNCHANGED durable
    [] r.type = "commit" -> durable' = durable \o tx /\ tx' = <<>>
    [] r.type = "rollback" -> tx' = <<>> /\ UNCHANGED durable

\* The task without the request that is answered.
Answered(t) == [t EXCEPT !.requests = Tail(@), !.receive = "none"]

\* receive(err) of the request that is outstanding
Failed(t) ==
  CASE t.receive \in {"execute", "writelob"} -> Finalize(Answered(t), "error")
    [] t.receive \in {"commit", "rollback"} -> Ended(Answered(t), "error")
    [] t.receive = "none" -> Answered(t)

\* The server answers the oldest request; the reply goes to the callback that is registered.
Reply ==
  /\ task.requests # <<>> /\ link = "up"
  /\ LET r == Head(task.requests)
         t == Answered(task)
     IN \/ /\ Apply(r)
           /\ task' = CASE task.receive \in {"execute", "writelob"} -> WriteLob(t)
                        [] task.receive = "commit" -> Ended(t, "ok")
                        [] task.receive = "rollback" -> Ended(t, "error")
                        [] task.receive = "none" -> t
        \/ /\ MayFail(r.type)
           /\ task' = Failed(task)
           /\ UNCHANGED <<tx, durable>>
  /\ UNCHANGED <<batch, link>>

\* The link after a break: after a FIN, or a fatal reply, the next request still fails with an error of
\* the socket; a reset leaves nothing that would answer.
Broken == {IF f = "fin" THEN "ended" ELSE "dead" : f \in Faults \cap {"fin", "reset"}}

\* The connection breaks while the task runs.  The server has carried out the request that is
\* outstanding or has not, and gives up the open transaction; the task gets the error of the socket.
Break ==
  /\ task.started /\ task.calls = 0 /\ link = "up"
  /\ link' \in Broken
  /\ tx' = <<>>
  /\ IF task.requests = <<>>
     THEN UNCHANGED <<task, durable>>
     ELSE /\ task' = Failed(task)
          /\ \/ UNCHANGED durable
             \/ /\ Commits(Head(task.requests))
                /\ durable' = durable \o tx \o Head(task.requests).data
  /\ UNCHANGED batch

\* After the FIN, send() is answered by the error of the write (EPIPE), which destroys the socket.
WriteFails ==
  /\ link = "ended" /\ task.requests # <<>>
  /\ link' = "dead"
  /\ task' = Failed(task)
  /\ UNCHANGED <<batch, tx, durable>>

\* 'close' of the socket: the next send() throws (module Connection), and nobody calls back.
SocketCloses ==
  /\ link = "ended" /\ task.requests = <<>>
  /\ link' = "dead"
  /\ UNCHANGED <<batch, task, tx, durable>>

StreamStep == \E k \in LobIds : Arrive(k) \/ StreamError(k)
LoopStep == Immediate \/ ReadableEvent \/ EndEvent

LinkStep == Break \/ WriteFails \/ SocketCloses

Next == Run \/ LoopStep \/ StreamStep \/ Reply \/ LinkStep

Spec == Init /\ [][Next]_vars

\* The queue runs the task, the event loop its callbacks, the server answers unless the connection
\* breaks, a write to an ended socket fails, and every stream comes to an end or fails.
FairSpec ==
  /\ Spec
  /\ WF_vars(Run) /\ WF_vars(LoopStep) /\ WF_vars(Reply) /\ WF_vars(WriteFails)
  /\ WF_vars(\E k \in LobIds : Arrive(k))

-----------------------------------------------------------------------------
(* Properties *)

\* ExecuteTask.getParameters and the Writer: the server receives the rows in order, each once, and
\* each LOB complete and closed before anything that follows it.
RowsInOrder ==
  LET sent == durable \o tx
  IN /\ \A i, j \in DOMAIN sent : i < j => Precedes(sent[i], sent[j])
     /\ \A i \in DOMAIN sent : \A x \in Tokens : Precedes(x, sent[i]) => x \in Range(sent)

\* The callback is called once, and told that all is well only when the server has everything.
SuccessIsComplete ==
  /\ task.calls <= 1
  /\ task.outcome = "ok" => Range(durable \o tx) = Tokens

\* The bytes of a packet up to each of its tokens.
SizeUpTo(tokens) ==
  LET size(x) == IF x[2] = 0 THEN Rows[x[1]].size ELSE IF IsData(x) THEN 1 ELSE 0
      sum[i \in 0..Len(tokens)] == IF i = 0 THEN 0 ELSE sum[i - 1] + size(tokens[i])
  IN sum

\* README "Controlling the Maximum Packet Size": no packet is larger than packetSizeLimit, and
\* LOB data is put only where the packet is within packetSize.
PacketFits ==
  \A i \in DOMAIN task.requests :
    LET r == task.requests[i]
    IN /\ r.size <= IF r.type = "writelob" THEN PacketSize ELSE PacketSizeLimit
       /\ \A j \in DOMAIN r.data : IsData(r.data[j]) => SizeUpTo(r.data)[j] <= PacketSize

\* The task has one request outstanding, and none when its callback has been called.
OneRequest == Len(task.requests) <= (IF task.calls = 0 THEN 1 ELSE 0)

\* Without auto-commit the task commits nothing and rolls nothing back; under auto-commit a statement
\* that has ended leaves no transaction open, which the next one would commit, unless COMMIT or
\* ROLLBACK may fail.
LeavesTransactions ==
  /\ ~AutoCommit => \A i \in DOMAIN task.requests :
                      /\ task.requests[i].type \notin {"commit", "rollback"}
                      /\ ~task.requests[i].autoCommit
  /\ AutoCommit /\ "finalize" \notin Faults /\ task.calls > 0 => tx = <<>>

\* The callback is called, unless the task has sent its request or its ROLLBACK on a dead connection.
Settles == <>(task.calls > 0 \/ (link = "dead" /\ task.requests # <<>>))

\* Under auto-commit the task implements AtomicBatch; in a transaction of the user it stores nothing.
Batch == INSTANCE AtomicBatch WITH
  Nothing <- {}, whole <- IF AutoCommit THEN Tokens ELSE {},
  stored <- Range(durable), outcome <- task.outcome, broken <- link # "up"

AllOrNothing == Batch!Spec
===============================================================================
