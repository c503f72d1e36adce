---------------------------- MODULE ResultSetFetch ----------------------------
(***************************************************************************)
(* ResultSet.fetch(cb): the stream of module ResultSet is parsed into rows *)
(* and piped into a collector, which reads the LOBs of each row before it  *)
(* takes the next one.  cb is the callback of close(): `answered` counts   *)
(* its calls.  What the stream's consumer has `delivered` are the parsed   *)
(* rows of a packet, waiting for the collector.                            *)
(***************************************************************************)
EXTENDS ResultSet

CONSTANTS
  Lobs,   \* LOBs in the rows of a packet, by what may go wrong
  Room    \* packets of rows that wait for the collector

ASSUME CollectorAssumption == Lobs \in [FaultSets -> Nat] /\ Room \in Nat \ {0}

VARIABLES
  listening,  \* the listeners of 'error' and 'finish' are attached
  result,     \* what done() was called with: none, ok, error
  collecting, \* the collector: idle, immediate, reading (a LOB), failed
  left,       \* LOBs left in the rows that are being collected
  collected,  \* packets whose rows have been collected
  crashed     \* an exception has reached the event loop

fetchVars == <<listening, result, collecting, left, collected, crashed>>
allVars == <<vars, fetchVars>>

FetchInit ==
  /\ Init
  /\ listening = TRUE /\ result = "none"
  /\ collecting = "idle" /\ left = 0 /\ collected = 0 /\ crashed = FALSE

\* Faulty variants: done() leaves its listeners attached, or the result set open.
DoneListening(r) ==
  /\ listening' = listening /\ result' = r
  /\ Close
DoneOnly(r) ==
  /\ listening' = FALSE /\ result' = r
  /\ answered' = answered + 1
  /\ UNCHANGED <<running, finished, ticks>>

\* done(err, rows): close() unless the result set is closed, then cb.
Done(r) ==
  /\ listening' = FALSE /\ result' = r
  /\ Close

\* An 'error' event of the stream or the collector: without a listener it is thrown.
FailWith(rest) ==
  IF listening
  THEN Done("error") /\ UNCHANGED crashed
  ELSE /\ crashed' = TRUE /\ ticks' = rest
       /\ UNCHANGED <<listening, result, running, finished, answered>>

StreamError ==
  /\ event = "error" /\ event' = "none"
  /\ FailWith(ticks)
  /\ UNCHANGED <<closed, data, connected, frames, serverVars, streamVars, pauses, closes, ends,
                 closeEvents, collecting, left, collected>>

CollectorError ==
  /\ Calm /\ ticks # <<>> /\ Head(ticks) = "collector"
  /\ IF listening
     THEN /\ listening' = FALSE /\ result' = "error"
          /\ finished' = TRUE
          /\ running' = IF finished THEN running ELSE "no"
          /\ ticks' = Tail(ticks) \o IF closed THEN <<>> ELSE CloseTicks
          /\ answered' = IF closed THEN answered + 1 ELSE answered
          /\ UNCHANGED crashed
     ELSE /\ crashed' = TRUE /\ ticks' = Tail(ticks)
          /\ UNCHANGED <<listening, result, running, finished, answered>>
  /\ UNCHANGED <<closed, data, connected, frames, event, serverVars, streamVars, pauses, closes,
                 ends, closeEvents, collecting, left, collected>>

\* The parser takes a packet while its own buffer has room.
Parse ==
  /\ Len(delivered) - collected < Room
  /\ Consume
  /\ UNCHANGED fetchVars

\* The pipe reads from the stream in events of its own.
PipeReads == EventLoop /\ StreamReads

\* collectRows, or the start of collectLobRows
Collect ==
  /\ Calm /\ collecting = "idle" /\ collected < Len(delivered)
  /\ IF Lobs[faults] = 0
     THEN collected' = collected + 1 /\ UNCHANGED <<collecting, left>>
     ELSE collecting' = "immediate" /\ left' = Lobs[faults] /\ UNCHANGED collected
  /\ UNCHANGED <<vars, listening, result, crashed>>

\* receiveLob without an error: the next LOB, or the next packet.
NextLob ==
  /\ left' = left - 1
  /\ collecting' = IF left = 1 THEN "idle" ELSE "immediate"
  /\ collected' = IF left = 1 THEN collected + 1 ELSE collected

\* collectLobRow: a LOB that is in the row, or READ LOB requests (one stands for all);
\* sendReadLob throws when the result set has lost its connection.
ReadLob ==
  /\ EventLoop /\ collecting = "immediate"
  /\ \/ NextLob /\ UNCHANGED <<requests, ticks, crashed>>
     \/ /\ connected /\ up
        /\ requests' = Append(requests, "lob")
        /\ collecting' = "reading" /\ UNCHANGED <<ticks, left, collected, crashed>>
     \/ /\ connected /\ ~up
        /\ ticks' = Append(ticks, "collector")
        /\ collecting' = "failed" /\ UNCHANGED <<requests, left, collected, crashed>>
     \/ /\ ~connected
        /\ crashed' = TRUE
        /\ collecting' = "failed" /\ UNCHANGED <<requests, ticks, left, collected>>
  /\ UNCHANGED <<rsVars, frames, event, up, cursor, serverOpen, autoClose, faults, lost, streamVars,
                 userVars,
                 listening, result>>

\* receiveLob
LobReply ==
  /\ Answering("lob") /\ collecting = "reading"
  /\ requests' = Tail(requests)
  /\ \/ up /\ NextLob /\ UNCHANGED ticks
     \/ /\ ~up \/ "lob" \in faults
        /\ ticks' = Append(ticks, "collector")
        /\ collecting' = "failed" /\ UNCHANGED <<left, collected>>
  /\ UNCHANGED <<rsVars, frames, event, up, cursor, serverOpen, autoClose, faults, lost, streamVars,
                 userVars,
                 listening, result, crashed>>

\* Faulty variant: 'finish' does not wait for the rows of the last packet.
FinishEarly == ended /\ buffer = <<>> /\ collecting # "failed"

\* The collector has got everything.
Finishes == ended /\ buffer = <<>> /\ collected = Len(delivered) /\ collecting = "idle"

\* onfinish
Finish ==
  /\ Calm /\ Finishes /\ listening
  /\ Done("ok")
  /\ UNCHANGED <<closed, data, connected, frames, event, serverVars, streamVars, pauses, closes,
                 ends, closeEvents, collecting, left, collected, crashed>>

CollectorStep ==
  \/ StreamError \/ CollectorError \/ Parse \/ Collect \/ ReadLob \/ LobReply \/ Finish

FetchNext ==
  /\ ~crashed
  /\ \/ CollectorStep
     \/ (PipeReads \/ HandlerStep \/ Break) /\ UNCHANGED fetchVars

FetchSpec == FetchInit /\ [][FetchNext]_allVars

\* The server answers, handlers run to completion, the pipeline moves what it can.
FairFetchSpec ==
  /\ FetchSpec
  /\ WF_allVars(~crashed /\ CollectorStep)
  /\ WF_allVars(~crashed /\ HandlerStep /\ UNCHANGED fetchVars)
  /\ WF_allVars(~crashed /\ PipeReads /\ UNCHANGED fetchVars)

-----------------------------------------------------------------------------
(* Properties *)

\* fetch(cb): the callback is called at most once, after its listeners have been removed, and
\* when it is called the result set is closed on the server, unless CLOSE may fail.
FetchCallsBackOnce ==
  /\ answered <= 1
  /\ answered = 1 => ~listening /\ (serverOpen => "close" \in faults)

\* A fetch that succeeds has collected the rows of every packet.
FetchIsComplete ==
  result = "ok" => RowsInOrder /\ WithRows \subseteq Range(delivered) /\ collected = Len(delivered)

\* fetch(cb) calls back, and nothing throws before it does, unless a breaking connection has lost
\* the FETCH, READ LOB or CLOSE it waits for.
FetchSettles == <>(answered = 1 \/ lost # "none")

\* test/lib.ResultSet.js, "should fail fetching data": an error of FETCH reaches the callback.
FailureIsReported == crashed => answered = 1
===============================================================================
