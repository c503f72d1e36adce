-------------------------------- MODULE Packets --------------------------------
(***************************************************************************)
(* Packets, segments and parts (request/Segment.js, request/Part.js,       *)
(* reply/Segment.js, reply/Part.js, data/Fields.js), the MessageBuffer     *)
(* that puts chunks of TCP together, and the compression of packets        *)
(* (Compressor.js).                                                        *)
(*                                                                         *)
(* A packet is a sequence of cells: one for each field of a header that is *)
(* read again, one for each unit of data.  The headers, the alignment and  *)
(* the limits are as many cells as they have fields, and small.            *)
(***************************************************************************)
EXTENDS Integers, FiniteSets, SequencesExt

CONSTANTS
  MIN_COMPRESS_PKT_LEN,  \* packets that are longer are compressed
  MaxInt16,              \* the largest argument count of a part of a request
  None                   \* undefined

PACKET_HEADER_LENGTH == 5
SEGMENT_HEADER_LENGTH == 2
PART_HEADER_LENGTH == 4
ALIGNMENT == 2
PACKET_OPTION_IS_COMPRESSED == 2
MIN_COMPRESSION_SIZE_PCT == 95

COMMAND == 3
RESULT_SET == 5
ROWS_AFFECTED == 12
RESULT_SET_ID == 13
PARAMETERS == 32
AUTHENTICATION == 33
STATEMENT_CONTEXT == 39
CONNECT_OPTIONS == 42
RESULT_SET_METADATA == 48

AUTHENTICATE == 65
CONNECT == 66
EXECUTE == 13

Zeros(n) == [i \in 1..n |-> 0]

\* util.alignLength
alignLength(n) == IF n % ALIGNMENT = 0 THEN n ELSE n + ALIGNMENT - (n % ALIGNMENT)

-----------------------------------------------------------------------------
(* Fields: the lengths that fit one byte, two and four, scaled *)

DATA_LENGTH_MAX1BYTE_LENGTH == 1
DATA_LENGTH_MAX2BYTE_LENGTH == 2

FieldCells(field) ==
  (IF Len(field) <= DATA_LENGTH_MAX1BYTE_LENGTH THEN <<Len(field)>>
   ELSE IF Len(field) <= DATA_LENGTH_MAX2BYTE_LENGTH THEN <<246, Len(field)>>
   ELSE <<247, Len(field), 0>>) \o field

WriteFields(fields) == FoldLeft(LAMBDA cells, f : cells \o FieldCells(f), <<Len(fields)>>, fields)

\* An indicator of 255 is read, though not written; the others throw, and nobody sends them.
ReadField(cells, at) ==
  LET size   == cells[at + 1]
      start  == CASE size <= DATA_LENGTH_MAX1BYTE_LENGTH -> at + 1
                  [] size \in {246, 255} -> at + 2
                  [] size = 247 -> at + 3
      length == IF size > DATA_LENGTH_MAX1BYTE_LENGTH THEN cells[at + 2] ELSE size
  IN [value |-> SubSeq(cells, start + 1, start + length), next |-> start + length]

ReadFields(cells) ==
  LET fields[i \in Nat, at \in Nat] ==
        IF i = 0 THEN <<>>
        ELSE LET f == ReadField(cells, at) IN <<f.value>> \o fields[i - 1, f.next]
  IN fields[cells[1], 1]

-----------------------------------------------------------------------------
(* Requests: a message is its type and its parts [kind, count, data]. *)

\* Part.prototype.toBuffer; the count is an Int16 here.
PartCells(part, count, bigCount) ==
  <<part.kind, count, bigCount, Len(part.data)>> \o part.data
    \o Zeros(alignLength(Len(part.data)) - Len(part.data))

CanBeWritten(message) == \A i \in DOMAIN message.parts : message.parts[i].count <= MaxInt16

\* Segment.prototype.toBuffer
RequestCells(message) ==
  FoldLeft(LAMBDA cells, p : cells \o PartCells(p, p.count, 0),
           <<Len(message.parts), message.type>>, message.parts)

\* The header of PhysicalConnection.send, in front of the segment.
Packet(sessionId, packetCount, segment) == <<sessionId, packetCount, Len(segment), 0, 0>> \o segment

\* lz4-wasm: what repeats is short.  Three or more of the same cell are their number, negative,
\* and the cell.
RunAt(cells, i) == Max({n \in 1..Len(cells) - i + 1 : \A j \in i..i + n - 1 : cells[j] = cells[i]})
Lz4(cells) ==
  LET packed[i \in Nat] ==
        IF i > Len(cells) THEN <<>>
        ELSE LET n == RunAt(cells, i)
             IN (IF n > 2 THEN <<-n, cells[i]>> ELSE SubSeq(cells, i, i + n - 1)) \o packed[i + n]
  IN packed[1]
Unpacked(cells) ==
  LET rest[i \in Nat] ==
        IF i > Len(cells) THEN <<>>
        ELSE IF cells[i] < -2 /\ i < Len(cells) THEN [j \in 1..-cells[i] |-> cells[i + 1]] \o rest[i + 2]
        ELSE <<cells[i]>> \o rest[i + 1]
  IN rest[1]

\* compress: the packet header and the segment header are left as they are.
Compress(packet) ==
  LET head       == PACKET_HEADER_LENGTH + SEGMENT_HEADER_LENGTH
      compressed == Lz4(SubSeq(packet, head + 1, Len(packet)))
      header     == [SubSeq(packet, 1, head) EXCEPT ![3] = Len(compressed) + SEGMENT_HEADER_LENGTH,
                                                    ![4] = PACKET_OPTION_IS_COMPRESSED,
                                                    ![5] = packet[3]]
  IN IF (head + Len(compressed)) * 100 < MIN_COMPRESSION_SIZE_PCT * Len(packet)
     THEN header \o compressed ELSE packet

\* decompress: it throws unless the buffer holds one compressed segment of that size.
MayDecompress(buffer, size) ==
  /\ Len(buffer) > SEGMENT_HEADER_LENGTH
  /\ LET output == SubSeq(buffer, SEGMENT_HEADER_LENGTH + 1, Len(buffer))
     IN Lz4(Unpacked(output)) = output /\ Len(Unpacked(output)) = size - SEGMENT_HEADER_LENGTH
Decompress(buffer) ==
  SubSeq(buffer, 1, SEGMENT_HEADER_LENGTH) \o Unpacked(SubSeq(buffer, SEGMENT_HEADER_LENGTH + 1, Len(buffer)))

-----------------------------------------------------------------------------
(* MessageBuffer *)

EmptyBuffer == [length |-> 0, header |-> None, data |-> <<>>]

ReadHeader(b) ==
  [length |-> b.length - PACKET_HEADER_LENGTH,
   header |-> [sessionId |-> b.data[1], packetCount |-> b.data[2], length |-> b.data[3],
               packetOptions |-> b.data[4], compressionVarpartLength |-> b.data[5]],
   data |-> SubSeq(b.data, PACKET_HEADER_LENGTH + 1, Len(b.data))]

\* push
Push(b, chunk) ==
  LET pushed == [b EXCEPT !.length = @ + Len(chunk), !.data = @ \o chunk]
  IN IF b.header = None /\ pushed.length >= PACKET_HEADER_LENGTH THEN ReadHeader(pushed) ELSE pushed

\* Faulty variant: the packet header is counted.
IsReadyLate(b) == b.header # None /\ b.length >= b.header.length + PACKET_HEADER_LENGTH

\* isReady
IsReady(b) == b.header # None /\ b.length >= b.header.length

-----------------------------------------------------------------------------
(* Replies *)

PartLength(cells, at) == cells[at + 4]

\* readPart
ReadPart(cells, at) ==
  [kind |-> cells[at + 1],
   count |-> IF cells[at + 2] = -1 THEN cells[at + 3] ELSE cells[at + 2],
   data |-> SubSeq(cells, at + PART_HEADER_LENGTH + 1, at + PART_HEADER_LENGTH + PartLength(cells, at))]
NextPart(cells, at) == at + PART_HEADER_LENGTH + alignLength(PartLength(cells, at))

\* readSegment
ReadParts(cells) ==
  LET parts[i \in Nat, at \in Nat] ==
        IF i = 0 THEN <<>> ELSE <<ReadPart(cells, at)>> \o parts[i - 1, NextPart(cells, at)]
  IN parts[cells[1], SEGMENT_HEADER_LENGTH]

FragmentName(kind) ==
  CASE kind = RESULT_SET -> "data" [] kind = RESULT_SET_ID -> "id" [] kind = RESULT_SET_METADATA -> "metadata"
FragmentKinds == {RESULT_SET, RESULT_SET_ID, RESULT_SET_METADATA}
ValueOf(part) == [count |-> part.count, data |-> part.data]

\* What the read function of a part returns: options, fields and more than one integer are an
\* array, of which data are the bytes.
IsArray(part) == \/ part.kind \in {AUTHENTICATION, STATEMENT_CONTEXT, CONNECT_OPTIONS}
                 \/ part.kind = ROWS_AFFECTED /\ part.count # 1
ReadValue(part) ==
  IF IsArray(part) THEN [data |-> part.data, items |-> [i \in 1..part.count |-> [item |-> i]]]
  ELSE ValueOf(part)
ListOf(values) == [data |-> <<>>, items |-> values]

\* Faulty variant: a result set opens with its metadata.
OpensWithMetadata(sets, name) == sets = <<>> \/ name = "metadata"

\* addResultSetFragment: a fragment that the last result set has opens another one.
OpensResultSet(sets, name) == sets = <<>> \/ name \in DOMAIN Last(sets)

ResultSets(fragments) ==
  LET add(sets, part) ==
        LET name == FragmentName(part.kind)
            fragment == name :> ValueOf(part)
        IN IF OpensResultSet(sets, name) THEN Append(sets, fragment)
           ELSE [sets EXCEPT ![Len(sets)] = fragment @@ @]
  IN FoldLeft(add, <<>>, fragments)

\* add: a part that repeats makes a list of its values, but an array is taken for such a list.
AddValue(values, part) ==
  LET k == part.kind
      value == ReadValue(part)
  IN IF k \notin DOMAIN values THEN k :> value @@ values
     ELSE IF "items" \in DOMAIN values[k] THEN [values EXCEPT ![k].items = Append(@, value)]
     ELSE [values EXCEPT ![k] = ListOf(<<@, value>>)]

NoValues == [k \in {} |-> <<>>]

\* getReply
GetReply(cells) ==
  LET parts == ReadParts(cells)
  IN [kind |-> cells[2],
      resultSets |-> ResultSets(SelectSeq(parts, LAMBDA p : p.kind \in FragmentKinds)),
      values |-> FoldLeft(AddValue, NoValues, SelectSeq(parts, LAMBDA p : p.kind \notin FragmentKinds))]

-----------------------------------------------------------------------------
(* The server, which is external: replies as they are sent, requests as they are read.  Of each *)
(* kind of part, a reply that is sent has one or several.                                        *)

\* A count that does not fit an Int16 is in the next field.
ServerPart(part) ==
  PartCells(part, IF part.count <= MaxInt16 THEN part.count ELSE -1,
            IF part.count <= MaxInt16 THEN 0 ELSE part.count)

ReplyParts(reply) ==
  LET fragments(set) ==
        LET kinds == SelectSeq(<<RESULT_SET_METADATA, RESULT_SET_ID, RESULT_SET>>,
                               LAMBDA k : FragmentName(k) \in DOMAIN set)
        IN [i \in DOMAIN kinds |->
              [kind |-> kinds[i], count |-> set[FragmentName(kinds[i])].count, data |-> set[FragmentName(kinds[i])].data]]
      values(k) == [i \in DOMAIN reply.values[k] |->
                      [kind |-> k, count |-> reply.values[k][i].count, data |-> reply.values[k][i].data]]
  IN FlattenSeq([i \in DOMAIN reply.resultSets |-> fragments(reply.resultSets[i])])
       \o FlattenSeq([i \in 1..Cardinality(DOMAIN reply.values) |->
                        values(SetToSortSeq(DOMAIN reply.values, <)[i])])

ReplyCells(reply) ==
  LET parts == ReplyParts(reply)
  IN FoldLeft(LAMBDA cells, p : cells \o ServerPart(p), <<Len(parts), reply.kind>>, parts)

\* None is a packet that cannot be read.
ReadRequest(packet, compression) ==
  LET body    == SubSeq(packet, PACKET_HEADER_LENGTH + 1, PACKET_HEADER_LENGTH + packet[3])
      zipped  == packet[4] = PACKET_OPTION_IS_COMPRESSED
      segment == IF zipped THEN Decompress(body) ELSE body
      whole   == Len(packet) = PACKET_HEADER_LENGTH + packet[3]
                   /\ (zipped => compression /\ MayDecompress(body, packet[5]))
  IN [sessionId |-> packet[1], packetCount |-> packet[2],
      message |-> IF whole THEN [type |-> segment[2], parts |-> ReadParts(segment)] ELSE None]
===============================================================================
