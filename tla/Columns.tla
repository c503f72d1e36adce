-------------------------------- MODULE Columns -------------------------------
(***************************************************************************)
(* The types of columns: what the Writer (lib/protocol/Writer.js) makes of *)
(* a parameter, and what the Reader (lib/protocol/Reader.js) takes from a  *)
(* row.  Bytes are cells, a width and a content; an offset counts bytes.   *)
(* A column is [type, fraction, length, ..]; a value is a record, its kind *)
(* says what the caller passed.  The day of the newer date types has HOURS *)
(* hours of MINUTES minutes of SECONDS seconds of TICKS parts.             *)
(***************************************************************************)
EXTENDS Decimal, Calendar

CONSTANTS HOURS, MINUTES, SECONDS, TICKS   \* 24, 60, 60, 10^7

ASSUME ClockAssumption == {HOURS, MINUTES, SECONDS, TICKS} \subseteq Nat \ {0}

DaySeconds == HOURS * MINUTES * SECONDS
LastDay == 3652061                          \* 9999-12-31

Num(n) == [int |-> n]
Cell(w, v) == [w |-> w, v |-> v]
Field(code, cells) == [refused |-> FALSE, code |-> code, cells |-> cells]

Widths == [TINYINT |-> 1, SMALLINT |-> 2, INT |-> 4, REAL |-> 4, DOUBLE |-> 8]
MaxInt32 == 2147483647
Bounds == [TINYINT |-> 0..255, SMALLINT |-> -32768..32767, INT |-> (-MaxInt32 - 1)..MaxInt32]
Halves == [FIXED8 |-> 4, FIXED12 |-> 6, FIXED16 |-> 8]

-----------------------------------------------------------------------------
(* Writer. *)

\* The type code of NULL, without its highest bit.
NullCode(type) ==
  CASE type \in {"LONGDATE", "SECONDDATE"} -> "TIMESTAMP"
    [] type = "DAYDATE" -> "DATE"
    [] type = "SECONDTIME" -> "TIME"
    [] type \in {"ST_GEOMETRY", "REAL_VECTOR"} -> "BINARY"
    [] type = "ALPHANUM" -> "STRING"
    [] OTHER -> type

\* Node's writeInt.. functions throw a RangeError.
WriteInteger(type, v) ==
  IF v.kind = "nan" \/ v.n \notin Bounds[type] THEN REFUSED
  ELSE Field(type, <<Cell(Widths[type], Num(v.n))>>)

WriteBigInt(v) == IF v.kind = "nan" THEN REFUSED
                  ELSE Field("BIGINT", <<Cell(8, [h |-> WriteInt64(v.s, v.m, FALSE)])>>)

\* A double that is too large for a float becomes one that is infinite.
WriteReal(type, v) ==
  IF v.kind = "nan" THEN REFUSED
  ELSE Field(type, <<Cell(Widths[type], IF type = "REAL" /\ v.kind = "large" THEN [kind |-> "infinite"] ELSE v)>>)

NumeralField(type, d) ==
  IF d.refused THEN REFUSED
  ELSE IF type = "DECIMAL" THEN Field(type, <<Cell(16, d.b)>>)
  ELSE Field(type, <<Cell(2 * Halves[type], [h |-> d.h])>>)

WriteNumeral(col, v) ==
  IF v.kind # "numeral" THEN REFUSED
  ELSE NumeralField(col.type, IF col.type = "DECIMAL" THEN WriteDecimal(v, col.fraction)
                              ELSE WriteFixed(v, col.fraction, Halves[col.type]))

LengthIndicator(n) ==
  IF n <= 245 THEN <<Cell(1, Num(n))>>
  ELSE IF n <= 32767 THEN <<Cell(1, Num(246)), Cell(2, Num(n))>>
  ELSE <<Cell(1, Num(247)), Cell(4, Num(n))>>

createBinaryOutBuffer(code, v) == Field(code, LengthIndicator(v.length) \o <<Cell(v.length, v)>>)

\* Strings, binaries and geometries; col.text: geometries are strings (spatialTypes is 1).
WriteBytes(col, v) ==
  CASE col.type \in {"STRING", "ALPHANUM"} /\ v.kind = "string" -> createBinaryOutBuffer("STRING", v)
    [] col.type = "BINARY" /\ v.kind = "buffer" -> createBinaryOutBuffer("BINARY", v)
    [] col.type = "ST_GEOMETRY" /\ v.kind = "buffer" -> createBinaryOutBuffer("BINARY", v)
    [] col.type = "ST_GEOMETRY" /\ v.kind = "string" ->
         IF col.text THEN createBinaryOutBuffer("STRING", v)
         ELSE createBinaryOutBuffer("BINARY", [kind |-> "buffer", length |-> v.length \div 2])
    [] OTHER -> REFUSED

\* The digits of a fraction of a second, as len digits.
strToNumLen(str, len) == IF Len(str) > len THEN NumberOf(SubSeq(str, 1, len))
                         ELSE NumberOf(str \o ZEROS(len - Len(str)))

DateCells(v) == <<Cell(2, Num(v.y + 32768)), Cell(1, Num((v.m - 1) % 256)), Cell(1, Num(v.d))>>
TimeCells(v) == <<Cell(1, Num(v.h + 128)), Cell(1, Num(v.mi)),
                  Cell(2, Num(v.s * 1000 + strToNumLen(v.f, 3)))>>
FitsUInt16(v) == v.s * 1000 + strToNumLen(v.f, 3) <= 65535

WriteDate(v) == IF v.kind # "date" THEN REFUSED ELSE Field("DATE", DateCells(v))
WriteTime(v) == IF v.kind # "time" \/ ~FitsUInt16(v) THEN REFUSED ELSE Field("TIME", TimeCells(v))
WriteTimestamp(v) == IF v.kind # "timestamp" \/ ~FitsUInt16(v) THEN REFUSED
                     ELSE Field("TIMESTAMP", DateCells(v) \o TimeCells(v))

isValidTime(v) == v.h \in 0..HOURS-1 /\ v.mi \in 0..MINUTES-1 /\ v.s \in 0..SECONDS-1
isZeroTime(v) == v.h = 0 /\ v.mi = 0 /\ v.s = 0
SecondsOf(v) == (v.h * MINUTES + v.mi) * SECONDS + v.s
TicksOf(v) == strToNumLen(v.f, Len(Digits[TICKS]) - 1 + 2) \div 100

WriteDayDate(v) ==
  IF v.kind # "date" THEN REFUSED
  ELSE IF isZeroDay(v.d, v.m, v.y) THEN Field("DAYDATE", <<Cell(4, Num(0))>>)
  ELSE IF ~isValidDay(v.d, v.m, v.y) THEN REFUSED
  ELSE Field("DAYDATE", <<Cell(4, Num(DAYDATE(v.y, v.m, v.d)))>>)

WriteSecondTime(v) == IF v.kind # "time" \/ ~isValidTime(v) THEN REFUSED
                      ELSE Field("SECONDTIME", <<Cell(4, Num(SecondsOf(v) + 1))>>)

\* LONGDATE counts ticks, SECONDDATE seconds; both from 1.
WriteMoment(type, v) ==
  LET long == type = "LONGDATE"
      time == IF long THEN SecondsOf(v) * TICKS + TicksOf(v) ELSE SecondsOf(v)
      dayFactor == IF long THEN DaySeconds * TICKS ELSE DaySeconds
      zero == /\ isZeroDay(v.d, v.m, v.y) /\ isZeroTime(v)
              /\ long => strToNumLen(v.f, Len(Digits[TICKS]) - 1 + 2) = 0
  IN  IF v.kind # "timestamp" THEN REFUSED
      ELSE IF zero THEN Field(type, <<Cell(8, Num(0))>>)
      ELSE IF ~isValidDay(v.d, v.m, v.y) \/ ~isValidTime(v) THEN REFUSED
      ELSE Field(type, <<Cell(8, Num((DAYDATE(v.y, v.m, v.d) - 1) * dayFactor + time + 1))>>)

WriteBoolean(v) ==
  LET code == CASE v.kind = "true" -> 2
                [] v.kind = "false" -> 0
                [] v.kind = "number" -> IF v.n = 0 THEN 0 ELSE 2
                [] v.kind = "text" -> CASE v.text \in {"TRUE", "1"} -> 2
                                        [] v.text \in {"FALSE", "0"} -> 0
                                        [] v.text \in {"UNKNOWN", ""} -> 1
                                        [] OTHER -> 3
                [] OTHER -> 3
  IN  IF code = 3 THEN REFUSED ELSE Field("BOOLEAN", <<Cell(1, Num(code))>>)

\* An array of numbers, or a buffer that begins with their count (v.count).
WriteVector(col, v) ==
  LET n == IF v.kind = "array" THEN v.n ELSE v.count
      wellFormed == CASE v.kind = "array" -> n # 0
                      [] v.kind = "buffer" -> v.length >= 4 /\ n # 0 /\ v.length - 4 = 4 * n
                      [] OTHER -> FALSE
  IN  IF ~wellFormed \/ (col.length # 0 /\ n # col.length) THEN REFUSED
      ELSE Field("BINARY", LengthIndicator(4 + 4 * n) \o <<Cell(4, Num(n)), Cell(4 * n, Num(n))>>)

\* pushLob: only the header; the data follow it (module ExecuteTask).
WriteLob(type, v) == IF v.kind \notin {"string", "buffer", "stream"} THEN REFUSED
                     ELSE Field(type, <<Cell(9, Num(0))>>)

\* Writer.add: a value goes to the function of the column's type; null has a code of its own.
Write(col, v) ==
  IF v.kind = "null" THEN Field(NullCode(col.type), <<>>)
  ELSE CASE col.type \in DOMAIN Bounds -> WriteInteger(col.type, v)
         [] col.type = "BIGINT" -> WriteBigInt(v)
         [] col.type \in {"REAL", "DOUBLE"} -> WriteReal(col.type, v)
         [] col.type \in DOMAIN Halves \cup {"DECIMAL"} -> WriteNumeral(col, v)
         [] col.type \in {"STRING", "ALPHANUM", "BINARY", "ST_GEOMETRY"} -> WriteBytes(col, v)
         [] col.type = "DATE" -> WriteDate(v)
         [] col.type = "TIME" -> WriteTime(v)
         [] col.type = "TIMESTAMP" -> WriteTimestamp(v)
         [] col.type = "DAYDATE" -> WriteDayDate(v)
         [] col.type = "SECONDTIME" -> WriteSecondTime(v)
         [] col.type \in {"LONGDATE", "SECONDDATE"} -> WriteMoment(col.type, v)
         [] col.type = "BOOLEAN" -> WriteBoolean(v)
         [] col.type = "REAL_VECTOR" -> WriteVector(col, v)
         [] col.type \in {"BLOB", "CLOB", "NCLOB"} -> WriteLob(col.type, v)

-----------------------------------------------------------------------------
(* Reader.  A function returns the value and the offset behind it. *)

Got(v, next) == [v |-> v, next |-> next]
Garbage == [garbage |-> TRUE]

\* The w bytes of the buffer at off.
Take(row, off, w) ==
  LET start[i \in 1..Len(row)] == IF i = 1 THEN 0 ELSE start[i-1] + row[i-1].w
      hit == {i \in DOMAIN row : row[i].w = w /\ start[i] = off}
  IN  IF hit = {} THEN Garbage ELSE row[CHOOSE i \in hit : TRUE].v

\* Types whose first byte is zero for NULL.
ReadIndicated(row, off, w) ==
  IF Take(row, off, 1) = Num(0) THEN Got(Null, off + 1) ELSE Got(Take(row, off + 1, w), off + 1 + w)

readBigInt(row, off) ==
  LET r == ReadIndicated(row, off, 8)
  IN  IF r.v = Null THEN r ELSE Got(ReadInt64(r.v.h, FALSE), r.next)

ReadFixedColumn(row, off, col) ==
  LET r == ReadIndicated(row, off, 2 * Halves[col.type])
  IN  IF r.v = Null THEN r ELSE Got(ReadFixed(r.v.h, col.fraction), r.next)

readDecimal(row, off, fraction) == Got(ReadDecimal(Take(row, off, 16), fraction), off + 16)

readReal(row, off, w) == LET v == Take(row, off, w)
                         IN  Got(IF v.kind = "all ones" THEN Null ELSE v, off + w)

readLengthIndicator(row, off) ==
  LET first == Take(row, off, 1)
  IN  CASE first = Num(255) -> Got(Null, off + 1)
        [] first = Num(246) -> Got(Take(row, off + 1, 2), off + 3)
        [] first = Num(247) -> Got(Take(row, off + 1, 4), off + 5)
        [] OTHER -> Got(first, off + 1)

readBytes(row, off) ==
  LET n == readLengthIndicator(row, off)
  IN  IF n.v = Null THEN n ELSE Got(Take(row, n.next, n.v.int), n.next + n.v.int)

\* The first byte holds the length of the column; numbers are filled up with zeros.
readAlphanum(row, off) ==
  LET n == readLengthIndicator(row, off)
      ind == Take(row, n.next, 1)
      value == Take(row, n.next + 1, n.v.int - 1)
      zeros == IF ind.numeric /\ ind.definitionLen >= n.v.int THEN ind.definitionLen - n.v.int + 1 ELSE 0
  IN  IF n.v = Null THEN n
      ELSE Got([value EXCEPT !.length = @ + zeros], n.next + n.v.int)

readDate(row, off) ==
  LET year == Take(row, off, 2).int
  IN  IF year < 32768 THEN Got(Null, off + 4)
      ELSE Got([y |-> year % 16384, m |-> Take(row, off + 2, 1).int + 1, d |-> Take(row, off + 3, 1).int], off + 4)

readTime(row, off) ==
  LET hour == Take(row, off, 1).int
  IN  IF hour < 128 THEN Got(Null, off + 4)
      ELSE Got([h |-> hour % 128, mi |-> Take(row, off + 1, 1).int, ms |-> Take(row, off + 2, 2).int], off + 4)

readTimestamp(row, off) ==
  LET date == readDate(row, off)
      time == readTime(row, date.next)
      day == IF date.v = Null THEN [y |-> 1, m |-> 1, d |-> 1] ELSE date.v
      clock == IF time.v = Null THEN [h |-> 0, mi |-> 0, ms |-> 0] ELSE time.v
  IN  Got(IF date.v = Null /\ time.v = Null THEN Null ELSE day @@ clock, time.next)

Clock(seconds) == [h |-> (seconds \div SECONDS) \div MINUTES,
                   mi |-> (seconds \div SECONDS) % MINUTES, s |-> seconds % SECONDS]

readDayDate(row, off) ==
  LET value == Take(row, off, 4).int
  IN  Got(IF value \in {LastDay + 1, 0} THEN Null ELSE DATE(value), off + 4)

readSecondTime(row, off) ==
  LET value == Take(row, off, 4).int
  IN  Got(IF value \in {DaySeconds + 2, 0} THEN Null ELSE Clock(value - 1), off + 4)

readSecondDate(row, off) ==
  LET value == Take(row, off, 8).int
  IN  Got(IF value \in {LastDay * DaySeconds + 1, 0} THEN Null
          ELSE DATE((value - 1) \div DaySeconds + 1) @@ Clock((value - 1) % DaySeconds), off + 8)

readLongDate(row, off) ==
  LET value == Take(row, off, 8).int
      part == value % TICKS
      secondDate == IF part = 0 THEN value \div TICKS - 1 ELSE value \div TICKS
      fraction == IF part = 0 THEN TICKS - 1 ELSE part - 1
  IN  Got(IF value \in {LastDay * DaySeconds * TICKS + 1, 0} THEN Null
          ELSE DATE(secondDate \div DaySeconds + 1) @@ Clock(secondDate % DaySeconds) @@ [ticks |-> fraction],
          off + 8)

readBoolean(row, off) ==
  LET value == Take(row, off, 1).int
  IN  Got(CASE value = 2 -> [kind |-> "true"] [] value = 1 -> Null [] OTHER -> [kind |-> "false"], off + 1)

readVector(row, off) ==
  LET n == readLengthIndicator(row, off)
      count == Take(row, n.next, 4).int
  IN  IF n.v = Null THEN n ELSE Got(Take(row, n.next + 4, 4 * count), n.next + 4 + 4 * count)

\* The locator: type, options, two bytes, two lengths, an identifier, the length of the chunk.
readLob(row, off, defaultType) ==
  LET type == Take(row, off, 1)
      options == Take(row, off + 1, 1)
      length == Take(row, off + 28, 4).int
      chunk == IF length > 0 THEN Take(row, off + 32, length) ELSE [kind |-> "chunk", length |-> 0]
  IN  IF "null" \in options.options THEN Got(Null, off + 2)
      ELSE Got([type |-> IF type = Num(0) THEN defaultType ELSE type.int,
                isLast |-> "last" \in options.options,
                byteLength |-> Take(row, off + 12, 8).int,
                locatorId |-> Take(row, off + 20, 8).int, chunk |-> chunk.length],
               off + 32 + length)

\* The read function of a column, with the arguments that the parser passes.
Read(row, off, col) ==
  CASE col.type \in DOMAIN Bounds -> ReadIndicated(row, off, Widths[col.type])
    [] col.type = "BIGINT" -> readBigInt(row, off)
    [] col.type \in {"REAL", "DOUBLE"} -> readReal(row, off, Widths[col.type])
    [] col.type = "DECIMAL" -> readDecimal(row, off, col.fraction)
    [] col.type \in DOMAIN Halves -> ReadFixedColumn(row, off, col)
    [] col.type \in {"STRING", "BINARY", "ST_GEOMETRY"} -> readBytes(row, off)
    [] col.type = "ALPHANUM" -> readAlphanum(row, off)
    [] col.type = "DATE" -> readDate(row, off)
    [] col.type = "TIME" -> readTime(row, off)
    [] col.type = "TIMESTAMP" -> readTimestamp(row, off)
    [] col.type = "DAYDATE" -> readDayDate(row, off)
    [] col.type = "SECONDTIME" -> readSecondTime(row, off)
    [] col.type = "SECONDDATE" -> readSecondDate(row, off)
    [] col.type = "LONGDATE" -> readLongDate(row, off)
    [] col.type = "BOOLEAN" -> readBoolean(row, off)
    [] col.type = "REAL_VECTOR" -> readVector(row, off)
    [] col.type = "BLOB" -> readLob(row, off, 1)
    [] col.type = "CLOB" -> readLob(row, off, 2)
    [] col.type = "NCLOB" -> readLob(row, off, 3)
=============================================================================
