---------------------------------- MODULE Lob ----------------------------------
(***************************************************************************)
(* A LOB that is read (lib/protocol/Lob.js) by Lob.read or by a stream.    *)
(* Its bytes are numbered 1..Length.  The first ones may come with the row *)
(* (ld.chunk); the others are answers to READ LOB requests, which the      *)
(* connection answers in their order (module Connection).                  *)
(***************************************************************************)
EXTENDS Naturals, Sequences

CONSTANTS
  Length,     \* the length that the locator announces
  ReadSize,   \* the most that one READ LOB returns
  Impatient,  \* user code resumes a LOB whose READ LOB is outstanding
  Fails       \* READ LOB may fail

ASSUME LengthAssumption == Length \in Nat \ {0} /\ ReadSize \in Nat \ {0}
ASSUME UserAssumption == Impatient \in BOOLEAN /\ Fails \in BOOLEAN

VARIABLES
  running,   \* _running: undefined, yes, no
  finished, offset,
  data,      \* _data
  tick,      \* the process.nextTick callback that is pending: send, end
  reads,     \* offsets of the READ LOB requests that are not answered
  received,  \* what the listener of 'data' has got
  ended,     \* 'end' has been emitted
  failed     \* 'error' has been emitted

vars == <<running, finished, offset, data, tick, reads, received, ended, failed>>

Offsets == 1..Length + 1
Chunks == [first : 1..Length, last : 1..Length, isLast : BOOLEAN]
NoData == [first |-> 0, last |-> 0, isLast |-> FALSE]

TypeOK ==
  /\ running \in {"undefined", "yes", "no"} /\ finished \in BOOLEAN
  /\ offset \in Offsets /\ data \in Chunks \cup {NoData}
  /\ tick \in {"none", "send", "end"} /\ reads \in Seq(1..Length)
  /\ received \in Seq(1..Length) /\ ended \in BOOLEAN /\ failed \in BOOLEAN

\* What a locator or a reply carries from byte f on; the server may leave LAST_DATA out.
ChunksFrom(f) == {c \in Chunks : /\ c.first = f /\ f <= c.last /\ c.last < f + ReadSize
                                 /\ c.isLast => c.last = Length}

Init ==
  /\ running = "undefined" /\ finished = FALSE /\ offset = 1
  /\ data \in ChunksFrom(1) \cup {NoData}
  /\ tick = "none" /\ reads = <<>> /\ received = <<>> /\ ended = FALSE /\ failed = FALSE

-----------------------------------------------------------------------------
\* Faulty variant: the offset of the next request is off by one.
OneBehind(c) == c.last

\* increaseOffset
NextOffset(c) == offset + (c.last - c.first + 1)

\* Faulty variant: a chunk that reaches the last byte but one ends a LOB.
EndsEarly(c) == c.isLast \/ NextOffset(c) >= Length

\* A LOB is complete when the server says so or when the announced length has been read.
IsLast(c) == c.isLast \/ NextOffset(c) > Length

\* handleData, with the 'data' listener that may pause the LOB
HandleData(c) ==
  /\ received' = received \o [i \in 1..(c.last - c.first + 1) |-> c.first + i - 1]
  /\ offset' = NextOffset(c)
  /\ IF IsLast(c)
     THEN finished' = TRUE /\ running' = "no" /\ tick' = "end"
     ELSE /\ running' \in {"yes", "no"}
          /\ tick' = IF running' = "yes" THEN "send" ELSE "none"
          /\ UNCHANGED finished

\* pause, from user code that is not a listener of the LOB
Pause ==
  /\ tick = "none" /\ running = "yes"
  /\ running' = "no"
  /\ UNCHANGED <<finished, offset, data, tick, reads, received, ended, failed>>

\* Faulty variant: a LOB that was paused is not read again.
ResumesNew == running = "undefined" /\ ~finished

\* Faulty variant: the chunk that has been handled is kept.
StillKept == data

\* The early return of resume
MayResume == running # "yes" /\ ~finished

\* resume() drops the chunk that it has handled.
KeptData == NoData

\* resume, also after an error; read() and the _read of a stream are the first call of it.
Resume ==
  /\ tick = "none" /\ MayResume
  /\ Impatient \/ reads = <<>>
  /\ IF data # NoData
     THEN HandleData(data) /\ data' = KeptData /\ UNCHANGED reads
     ELSE /\ running' = "yes" /\ reads' = Append(reads, offset)
          /\ UNCHANGED <<finished, offset, data, tick, received>>
  /\ UNCHANGED <<ended, failed>>

\* sendReadLob and emitEnd, deferred by process.nextTick
Tick ==
  /\ tick # "none" /\ tick' = "none"
  /\ IF tick = "send"
     THEN reads' = Append(reads, offset) /\ UNCHANGED ended
     ELSE ended' = TRUE /\ UNCHANGED reads
  /\ UNCHANGED <<running, finished, offset, data, received, failed>>

\* receiveData: a reply is handled, or kept while the LOB is paused.
ReceiveData ==
  /\ tick = "none" /\ reads # <<>>
  /\ reads' = Tail(reads)
  /\ \/ \E c \in ChunksFrom(Head(reads)) :
           IF running = "yes"
           THEN HandleData(c) /\ UNCHANGED <<data, failed>>
           ELSE data' = c /\ UNCHANGED <<running, finished, offset, tick, received, failed>>
     \/ /\ Fails
        /\ running' = "no" /\ failed' = TRUE
        /\ UNCHANGED <<finished, offset, data, tick, received>>
  /\ UNCHANGED ended

Next == Pause \/ Resume \/ Tick \/ ReceiveData

Spec == Init /\ [][Next]_vars

\* The server answers, deferred calls are made, and what is paused is resumed; a LOB paused and
\* resumed again and again comes to its end because every round answers a request.
FairSpec == Spec /\ WF_vars(Tick) /\ WF_vars(ReceiveData) /\ WF_vars(Resume)

-----------------------------------------------------------------------------
(* Properties *)

\* Lob.resume, receiveData and handleData: the listener gets the bytes in order, none twice and
\* none left out, whatever the sizes of the chunks and wherever the LOB is paused.
BytesInOrder == received = [i \in 1..Len(received) |-> i]

\* 'end' tells that everything has been received.
EndIsComplete == ended => Len(received) = Length

\* One READ LOB is outstanding at a time, and none when a chunk is kept: it would be lost.
OneRead ==
  LET asked == Len(reads) + (IF tick = "send" THEN 1 ELSE 0)
  IN asked <= 1 /\ (data # NoData => asked = 0)

\* A LOB that has finished asks for nothing and keeps nothing.
NothingAfterEnd == finished => reads = <<>> /\ data = NoData

\* Reading comes to an end or to an error.
Settles == <>(ended \/ failed)
===============================================================================
