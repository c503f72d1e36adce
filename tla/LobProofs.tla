------------------------------- MODULE LobProofs -------------------------------
(***************************************************************************)
(* Theorems about Lob for every length and read size, when user code does  *)
(* not resume a LOB whose READ LOB is outstanding.                         *)
(***************************************************************************)
EXTENDS Lob, SequenceTheorems, TLAPS

\* What the server or the locator sends next starts where the LOB has come to.
Continues ==
  /\ data # NoData => data \in ChunksFrom(offset)
  /\ \A i \in DOMAIN reads : reads[i] = offset
  /\ tick = "send" => offset <= Length

\* A LOB has finished when everything is received, and then it asks for nothing.
Finishing ==
  /\ finished <=> offset = Length + 1
  /\ finished => running = "no"
  /\ running = "undefined" => reads = <<>> /\ tick = "none"
  /\ running = "yes" => data = NoData
  /\ (ended \/ tick = "end") => finished
  /\ tick = "send" => ~finished

Received == Len(received) = offset - 1 /\ BytesInOrder

IInv == TypeOK /\ Received /\ Continues /\ Finishing /\ OneRead /\ NothingAfterEnd

-----------------------------------------------------------------------------
\* Chunks carry at least one byte and none behind the end of the LOB.
LEMMA ChunkBounds ==
  ASSUME NEW f, NEW c \in ChunksFrom(f)
  PROVE  /\ c \in Chunks /\ c.first = f /\ c.last \in f..Length /\ f \in 1..Length
         /\ c.isLast => c.last = Length
         /\ c # NoData
BY LengthAssumption DEF ChunksFrom, Chunks, NoData

\* The type invariant and the inductive invariant hold initially.
LEMMA InitIInv == Init => IInv
<1> SUFFICES ASSUME Init PROVE IInv
  OBVIOUS
<1> USE LengthAssumption DEF Init
<1>1. data # NoData => data \in ChunksFrom(1)
  OBVIOUS
<1>2. TypeOK
  <2>1. data \in Chunks \cup {NoData}
    BY <1>1, ChunkBounds
  <2>2. reads \in Seq(1..Length) /\ received \in Seq(1..Length)
    BY EmptySeq
  <2>3. offset \in Offsets
    BY DEF Offsets
  <2> QED BY <2>1, <2>2, <2>3 DEF TypeOK
<1>3. Received
  BY DEF Received, BytesInOrder
<1>4. Continues /\ Finishing
  BY <1>1 DEF Continues, Finishing
<1>5. OneRead /\ NothingAfterEnd
  BY DEF OneRead, NothingAfterEnd
<1> QED BY <1>2, <1>3, <1>4, <1>5 DEF IInv

\* handleData appends the bytes that follow, and finishes with the last one.
LEMMA HandleDataAppends ==
  ASSUME IInv, ~finished, NEW c \in ChunksFrom(offset), HandleData(c)
  PROVE  /\ received' \in Seq(1..Length) /\ Received'
         /\ offset' = c.last + 1 /\ offset' \in Offsets
         /\ \/ finished' = TRUE /\ offset' = Length + 1 /\ running' = "no" /\ tick' = "end"
            \/ finished' = FALSE /\ offset' <= Length /\ running' = "yes" /\ tick' = "send"
            \/ finished' = FALSE /\ offset' <= Length /\ running' = "no" /\ tick' = "none"
<1>1. /\ c \in Chunks /\ c.first = offset /\ c.last \in offset..Length /\ offset \in 1..Length
      /\ c.isLast => c.last = Length
  BY ChunkBounds
<1>2. Length \in Nat /\ offset \in Nat /\ c.last \in Nat
  BY <1>1, LengthAssumption
<1>3. offset' = c.last + 1
  BY <1>1, <1>2 DEF HandleData, NextOffset
<1>4. offset' \in Offsets
  BY <1>1, <1>2, <1>3 DEF Offsets
<1> DEFINE n == c.last - c.first + 1
           new == [i \in 1..n |-> c.first + i - 1]
<1>5. n \in Nat /\ new \in Seq(1..Length) /\ Len(new) = n /\ \A i \in 1..n : new[i] = offset + i - 1
  <2>1. n \in Nat
    BY <1>1, <1>2
  <2>2. \A i \in 1..n : c.first + i - 1 \in 1..Length
    BY <1>1, <1>2, <2>1
  <2>3. new \in [1..n -> 1..Length]
    BY <2>2
  <2>4. new \in Seq(1..Length)
    BY <2>1, <2>3, SeqDef
  <2>5. Len(new) = n
    BY <2>1, <2>3, <2>4, LenProperties
  <2> QED BY <1>1, <2>1, <2>4, <2>5
<1>6. received \in Seq(1..Length) /\ Len(received) = offset - 1
      /\ \A i \in 1..Len(received) : received[i] = i
  BY DEF IInv, TypeOK, Received, BytesInOrder
<1>7. received' = received \o new
  BY DEF HandleData
<1> HIDE DEF n, new
<1>8. /\ received' \in Seq(1..Length) /\ Len(received') = offset - 1 + n
      /\ \A i \in 1..Len(received') : received'[i] = IF i <= offset - 1 THEN received[i] ELSE new[i - (offset - 1)]
  <2>1. /\ received \o new \in Seq(1..Length) /\ Len(received \o new) = Len(received) + Len(new)
        /\ \A i \in 1..Len(received) + Len(new) :
              (received \o new)[i] = IF i <= Len(received) THEN received[i] ELSE new[i - Len(received)]
    BY <1>5, <1>6, ConcatProperties
  <2> QED BY <2>1, <1>5, <1>6, <1>7
<1>9. Len(received') = offset' - 1
  BY <1>1, <1>2, <1>3, <1>8 DEF n
<1>10. \A i \in 1..Len(received') : received'[i] = i
  <2> TAKE i \in 1..Len(received')
  <2>1. CASE i <= offset - 1
    BY <2>1, <1>2, <1>6, <1>8
  <2>2. CASE ~(i <= offset - 1)
    <3>1. i - (offset - 1) \in 1..n
      BY <2>2, <1>2, <1>5, <1>8
    <3>2. received'[i] = offset + (i - (offset - 1)) - 1
      BY <2>2, <3>1, <1>5, <1>8
    <3> QED BY <3>2, <1>2
  <2> QED BY <2>1, <2>2
<1>11. received' = [i \in 1..Len(received') |-> i]
  BY <1>8, <1>10
<1>12. IsLast(c) <=> c.last = Length
  BY <1>1, <1>2 DEF IsLast, NextOffset
<1>13. \/ finished' = TRUE /\ offset' = Length + 1 /\ running' = "no" /\ tick' = "end"
       \/ finished' = FALSE /\ offset' <= Length /\ running' = "yes" /\ tick' = "send"
       \/ finished' = FALSE /\ offset' <= Length /\ running' = "no" /\ tick' = "none"
  <2>1. finished = FALSE
    BY DEF IInv, TypeOK
  <2>2. CASE IsLast(c)
    BY <2>2, <1>2, <1>3, <1>12 DEF HandleData
  <2>3. CASE ~IsLast(c)
    <3>1. offset' <= Length
      BY <2>3, <1>1, <1>2, <1>3, <1>12, LengthAssumption
    <3>2. /\ finished' = FALSE /\ running' \in {"yes", "no"}
          /\ tick' = IF running' = "yes" THEN "send" ELSE "none"
      BY <2>1, <2>3 DEF HandleData
    <3> QED BY <3>1, <3>2
  <2> QED BY <2>2, <2>3
<1> QED BY <1>3, <1>4, <1>8, <1>9, <1>11, <1>13 DEF Received, BytesInOrder

\* A handled chunk that leaves neither a request nor data behind keeps the invariant.
LEMMA HandleDataIInv ==
  ASSUME IInv, ~finished, NEW c \in ChunksFrom(offset), HandleData(c),
         reads' = <<>>, data' = NoData, ended' = ended, failed' = failed
  PROVE  IInv'
<1> USE LengthAssumption
<1>1. /\ received' \in Seq(1..Length) /\ Received'
      /\ offset' = c.last + 1 /\ offset' \in Offsets
      /\ \/ finished' = TRUE /\ offset' = Length + 1 /\ running' = "no" /\ tick' = "end"
         \/ finished' = FALSE /\ offset' <= Length /\ running' = "yes" /\ tick' = "send"
         \/ finished' = FALSE /\ offset' <= Length /\ running' = "no" /\ tick' = "none"
  BY HandleDataAppends
<1>2. TypeOK'
  BY <1>1, EmptySeq DEF IInv, TypeOK
<1>3. Continues'
  BY <1>1 DEF Continues
<1>4. Finishing'
  BY <1>1, <1>2 DEF IInv, Finishing, TypeOK, Offsets
<1>5. OneRead' /\ NothingAfterEnd'
  BY <1>1 DEF OneRead, NothingAfterEnd
<1> QED BY <1>1, <1>2, <1>3, <1>4, <1>5 DEF IInv

\* Every step preserves the inductive invariant.
LEMMA NextIInv ==
  ASSUME ~Impatient, IInv, [Next]_vars
  PROVE  IInv'
<1> USE LengthAssumption
<1>a. /\ TypeOK /\ Received /\ Continues /\ Finishing /\ OneRead /\ NothingAfterEnd
      /\ offset \in Nat
  BY DEF IInv, TypeOK, Offsets
<1>b. reads \in Seq(1..Length) /\ Len(reads) \in Nat /\ (Len(reads) = 0 => reads = <<>>)
  BY <1>a, EmptySeq, LenProperties DEF TypeOK
<1>1. CASE Pause
  <2>1. TypeOK' /\ Received' /\ Continues'
    BY <1>1, <1>a DEF Pause, TypeOK, Received, BytesInOrder, Continues
  <2>2. Finishing' /\ OneRead' /\ NothingAfterEnd'
    BY <1>1, <1>a DEF Pause, Finishing, OneRead, NothingAfterEnd
  <2> QED BY <2>1, <2>2 DEF IInv
<1>2. CASE Resume
  <2>1. reads = <<>> /\ ~finished /\ tick = "none"
    BY <1>2 DEF Resume, MayResume
  <2>2. CASE data # NoData
    <3>1. data \in ChunksFrom(offset) /\ HandleData(data) /\ data' = NoData /\ reads' = <<>>
          /\ ended' = ended /\ failed' = failed
      BY <1>2, <2>1, <2>2, <1>a DEF Resume, KeptData, Continues
    <3> QED BY <3>1, <2>1, HandleDataIInv
  <2>3. CASE data = NoData
    <3>1. /\ running' = "yes" /\ reads' = Append(reads, offset)
          /\ UNCHANGED <<finished, offset, data, tick, received, ended, failed>>
      BY <1>2, <2>3 DEF Resume
    <3>2. offset \in 1..Length
      BY <2>1, <1>a DEF Finishing, TypeOK, Offsets
    <3>3. reads' \in Seq(1..Length) /\ Len(reads') = 1 /\ reads'[1] = offset
      BY <3>1, <3>2, <2>1
    <3>4. TypeOK' /\ Received'
      BY <3>1, <3>3, <1>a DEF TypeOK, Received, BytesInOrder
    <3>5. Continues'
      BY <3>1, <3>3, <1>a, <2>1 DEF Continues
    <3>6. Finishing' /\ OneRead' /\ NothingAfterEnd'
      BY <3>1, <3>3, <1>a, <2>1, <2>3 DEF Finishing, OneRead, NothingAfterEnd
    <3> QED BY <3>4, <3>5, <3>6 DEF IInv
  <2> QED BY <2>2, <2>3
<1>3. CASE Tick
  <2>1. CASE tick = "send"
    <3>1. reads = <<>> /\ data = NoData /\ ~finished /\ offset \in 1..Length
      BY <2>1, <1>a, <1>b DEF OneRead, Finishing, TypeOK, Offsets
    <3>2. /\ tick' = "none" /\ reads' = Append(reads, offset)
          /\ UNCHANGED <<running, finished, offset, data, received, ended, failed>>
      BY <1>3, <2>1 DEF Tick
    <3>3. reads' \in Seq(1..Length) /\ Len(reads') = 1 /\ reads'[1] = offset
      BY <3>1, <3>2
    <3>4. TypeOK' /\ Received' /\ Continues'
      BY <3>1, <3>2, <3>3, <1>a DEF TypeOK, Received, BytesInOrder, Continues
    <3>5. running # "undefined"
      BY <2>1, <1>a DEF Finishing
    <3>6. Finishing' /\ OneRead' /\ NothingAfterEnd'
      BY <3>1, <3>2, <3>3, <3>5, <1>a DEF Finishing, OneRead, NothingAfterEnd
    <3> QED BY <3>4, <3>6 DEF IInv
  <2>2. CASE tick # "send"
    <3>1. /\ tick = "end" /\ tick' = "none" /\ ended'
          /\ UNCHANGED <<running, finished, offset, data, reads, received, failed>>
      BY <1>3, <2>2, <1>a DEF Tick, TypeOK
    <3>2. TypeOK' /\ Received' /\ Continues'
      BY <1>3, <3>1, <1>a DEF Tick, TypeOK, Received, BytesInOrder, Continues
    <3>3. Finishing' /\ OneRead' /\ NothingAfterEnd'
      BY <3>1, <1>a DEF Finishing, OneRead, NothingAfterEnd
    <3> QED BY <3>2, <3>3 DEF IInv
  <2> QED BY <2>1, <2>2
<1>4. CASE ReceiveData
  <2>1. tick = "none" /\ Len(reads) = 1 /\ reads # <<>> /\ data = NoData /\ ~finished
    <3>1. tick = "none" /\ reads # <<>>
      BY <1>4 DEF ReceiveData
    <3>2. Len(reads) <= 1 /\ (data # NoData => Len(reads) = 0)
      BY <3>1, <1>a, <1>b DEF OneRead
    <3>3. Len(reads) = 1
      <4>1. Len(reads) # 0
        BY <3>1, <1>b
      <4>2. Len(reads) \in Nat
        BY <1>b
      <4>3. \A k \in Nat : k # 0 /\ k <= 1 => k = 1
        OBVIOUS
      <4> QED BY <3>2, <4>1, <4>2, <4>3
    <3>4. data = NoData
      BY <3>2, <3>3
    <3>5. ~finished
      BY <3>1, <1>a DEF NothingAfterEnd
    <3> QED BY <3>1, <3>3, <3>4, <3>5
  <2>2. Head(reads) = offset /\ reads' = <<>> /\ running # "undefined"
    BY <1>4, <2>1, <1>a, <1>b DEF ReceiveData, Continues, Finishing
  <2>3. CASE \E c \in ChunksFrom(Head(reads)) :
               IF running = "yes"
               THEN HandleData(c) /\ UNCHANGED <<data, failed>>
               ELSE data' = c /\ UNCHANGED <<running, finished, offset, tick, received, failed>>
    <3>1. PICK c \in ChunksFrom(offset) :
               IF running = "yes"
               THEN HandleData(c) /\ UNCHANGED <<data, failed>>
               ELSE data' = c /\ UNCHANGED <<running, finished, offset, tick, received, failed>>
      BY <2>2, <2>3
    <3>2. ended' = ended
      BY <1>4 DEF ReceiveData
    <3>3. CASE running = "yes"
      BY <3>1, <3>2, <3>3, <2>1, <2>2, HandleDataIInv
    <3>4. CASE running # "yes"
      <4>1. data' = c /\ c \in Chunks /\ c # NoData
            /\ UNCHANGED <<running, finished, offset, tick, received, failed>>
        BY <3>1, <3>4, ChunkBounds
      <4>2. TypeOK'
        BY <4>1, <3>2, <2>2, <1>a, EmptySeq DEF TypeOK
      <4>3. Received'
        BY <4>1, <1>a DEF Received, BytesInOrder
      <4>4. c \in ChunksFrom(offset)'
        BY <4>1 DEF ChunksFrom, Chunks
      <4>5. Continues'
        BY <4>1, <4>4, <2>1, <2>2 DEF Continues
      <4>6. Finishing' /\ OneRead' /\ NothingAfterEnd'
        BY <4>1, <3>2, <3>4, <2>1, <2>2, <1>a DEF Finishing, OneRead, NothingAfterEnd
      <4> QED BY <4>2, <4>3, <4>5, <4>6 DEF IInv
    <3> QED BY <3>3, <3>4
  <2>4. CASE /\ running' = "no" /\ failed' = TRUE
             /\ UNCHANGED <<finished, offset, data, tick, received>>
    <3>1. ended' = ended
      BY <1>4 DEF ReceiveData
    <3>2. TypeOK' /\ Received' /\ Continues'
      BY <2>4, <3>1, <2>1, <2>2, <1>a, EmptySeq DEF TypeOK, Received, BytesInOrder, Continues
    <3>3. Finishing' /\ OneRead' /\ NothingAfterEnd'
      BY <2>4, <3>1, <2>1, <2>2, <1>a DEF Finishing, OneRead, NothingAfterEnd
    <3> QED BY <3>2, <3>3 DEF IInv
  <2> QED BY <1>4, <2>3, <2>4 DEF ReceiveData
<1>5. CASE UNCHANGED vars
  <2>1. TypeOK' /\ Received' /\ Continues'
    BY <1>5, <1>a DEF vars, TypeOK, Received, BytesInOrder, Continues
  <2>2. Finishing' /\ OneRead' /\ NothingAfterEnd'
    BY <1>5, <1>a DEF vars, Finishing, OneRead, NothingAfterEnd
  <2> QED BY <2>1, <2>2 DEF IInv
<1> QED BY <1>1, <1>2, <1>3, <1>4, <1>5 DEF Next

\* Lob.js: the inductive invariant holds in every state.
THEOREM Inductive ==
  ASSUME ~Impatient
  PROVE  Spec => []IInv
<1>1. IInv /\ [Next]_vars => IInv'
  BY NextIInv
<1> QED BY InitIInv, <1>1, PTL DEF Spec

\* Lob.js: the components of the state keep their types.
THEOREM TypeCorrect ==
  ASSUME ~Impatient
  PROVE  Spec => []TypeOK
<1>1. IInv => TypeOK
  BY DEF IInv
<1> QED BY Inductive, <1>1, PTL

\* Lob.resume, receiveData and handleData: bytes are delivered in order, each once, for LOBs and
\* chunks of every size.
THEOREM InOrder ==
  ASSUME ~Impatient
  PROVE  Spec => []BytesInOrder
<1>1. IInv => BytesInOrder
  BY DEF IInv, Received
<1> QED BY Inductive, <1>1, PTL

\* Lob.end: 'end' is emitted only when the whole LOB has been delivered.
THEOREM CompleteAtEnd ==
  ASSUME ~Impatient
  PROVE  Spec => []EndIsComplete
<1>1. IInv => EndIsComplete
  BY LengthAssumption DEF IInv, TypeOK, Offsets, Received, Finishing, EndIsComplete
<1> QED BY Inductive, <1>1, PTL

\* sendReadLob: one READ LOB is outstanding, and none while a chunk is kept.
THEOREM OneAtATime ==
  ASSUME ~Impatient
  PROVE  Spec => []OneRead
<1>1. IInv => OneRead
  BY DEF IInv
<1> QED BY Inductive, <1>1, PTL
===============================================================================
