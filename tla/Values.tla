-------------------------------- MODULE Values --------------------------------
(***************************************************************************)
(* Values on their way to the server and back: the parameters of a         *)
(* statement are written one after the other (Writer.setValues), the       *)
(* server stores them in a row, and the row is parsed (lib/protocol/       *)
(* Parser.js) into an array or an object.  How the server lays out a row   *)
(* is taken from the Reader.                                               *)
(***************************************************************************)
EXTENDS Columns

CONSTANTS
  Statements,   \* [cols, values, mode]: columns, a value for each, the shape of the rows
  Normalises    \* the server keeps no zeros at the end of a decimal's mantissa

ASSUME ServerAssumption == Normalises \in BOOLEAN

VARIABLES
  stmt,
  fields,   \* what the Writer has pushed
  phase,    \* writing, refused, stored, reading, read
  row, offset,
  pairs     \* what the parser has read: <<path in the row, value>>

vars == <<stmt, fields, phase, row, offset, pairs>>

ValuesInit ==
  /\ stmt \in Statements
  /\ fields = <<>> /\ phase = "writing" /\ row = <<>> /\ offset = 0 /\ pairs = <<>>

-----------------------------------------------------------------------------
(* The server. *)

NullCells(type) ==
  CASE type \in DOMAIN Bounds \cup DOMAIN Halves \cup {"BIGINT"} -> <<Cell(1, Num(0))>>
    [] type \in {"REAL", "DOUBLE"} -> <<Cell(Widths[type], [kind |-> "all ones"])>>
    [] type = "DECIMAL" -> <<Cell(16, [exp |-> 7 * (ExpRange \div 8)])>>
    [] type \in {"STRING", "ALPHANUM", "BINARY", "ST_GEOMETRY", "REAL_VECTOR"} -> <<Cell(1, Num(255))>>
    [] type = "DATE" -> <<Cell(2, Num(0)), Cell(1, Num(0)), Cell(1, Num(0))>>
    [] type = "TIME" -> <<Cell(1, Num(0)), Cell(1, Num(0)), Cell(2, Num(0))>>
    [] type = "TIMESTAMP" -> <<Cell(2, Num(0)), Cell(1, Num(0)), Cell(1, Num(0)),
                               Cell(1, Num(0)), Cell(1, Num(0)), Cell(2, Num(0))>>
    [] type = "DAYDATE" -> <<Cell(4, Num(LastDay + 1))>>
    [] type = "SECONDTIME" -> <<Cell(4, Num(DaySeconds + 2))>>
    [] type = "SECONDDATE" -> <<Cell(8, Num(LastDay * DaySeconds + 1))>>
    [] type = "LONGDATE" -> <<Cell(8, Num(LastDay * DaySeconds * TICKS + 1))>>
    [] type = "BOOLEAN" -> <<Cell(1, Num(1))>>
    [] type \in {"BLOB", "CLOB", "NCLOB"} -> <<Cell(1, Num(0)), Cell(1, [options |-> {"null"}])>>

Trimmed(d) == LET m == trimTrailingZeroes(d.m)
              IN  [s |-> d.s, m |-> m, e |-> d.e + Len(d.m) - Len(m)]

\* A decimal without zeros at its end, if the server normalises.
Normal(b) == IF ~Normalises \/ ReadDec128(b).null \/ ReadDec128(b).m = <<0>> THEN b
             ELSE WriteDec128(Trimmed(ReadDec128(b)))

AlphanumCells(col, v) ==
  LET n == v.length - (IF v.numeric THEN v.zeros ELSE 0)
  IN  LengthIndicator(n + 1)
      \o <<Cell(1, [numeric |-> v.numeric, definitionLen |-> col.length]), Cell(n, [v EXCEPT !.length = n])>>

LobCells(v) ==
  <<Cell(1, Num(0)), Cell(1, [options |-> {"last"}]), Cell(2, Num(0)), Cell(8, Num(v.length)),
    Cell(8, Num(v.length)), Cell(8, Num(7)), Cell(4, Num(v.length))>>
  \o (IF v.length > 0 THEN <<Cell(v.length, v)>> ELSE <<>>)

RowCells(col, v, cells) ==
  IF v.kind = "null" THEN NullCells(col.type)
  ELSE CASE col.type \in DOMAIN Bounds \cup DOMAIN Halves \cup {"BIGINT"} -> <<Cell(1, Num(1))>> \o cells
         [] col.type = "DECIMAL" -> <<Cell(16, Normal(cells[1].v))>>
         [] col.type = "ALPHANUM" -> AlphanumCells(col, v)
         [] col.type \in {"BLOB", "CLOB", "NCLOB"} -> LobCells(v)
         [] OTHER -> cells

Store ==
  /\ phase = "stored" /\ phase' = "reading"
  /\ row' = FoldLeft(\o, <<>>, [i \in DOMAIN fields |-> RowCells(stmt.cols[i], stmt.values[i], fields[i].cells)])
  /\ UNCHANGED <<stmt, fields, offset, pairs>>

-----------------------------------------------------------------------------
(* The client. *)

\* Writer.setValues: the next value; one that is refused throws.
Add ==
  /\ phase = "writing"
  /\ \E f \in {Write(stmt.cols[Len(fields) + 1], stmt.values[Len(fields) + 1])} :
       IF f.refused THEN phase' = "refused" /\ UNCHANGED fields
       ELSE /\ fields' = Append(fields, f)
            /\ phase' = IF Len(fields') = Len(stmt.cols) THEN "stored" ELSE "writing"
  /\ UNCHANGED <<stmt, row, offset, pairs>>

\* Where a column goes in the row that is returned.  mode.sep is the option nestTables, a string.
Path(col) == CASE stmt.mode.kind = "hash" -> <<col.name>>
               [] stmt.mode.kind = "joined" -> <<col.table \o stmt.mode.sep \o col.name>>
               [] stmt.mode.kind = "nested" -> <<col.table, col.name>>

\* getNestedMetadata: the columns table by table, in the order in which the tables come first.
Tables == LET first(t) == Min({i \in DOMAIN stmt.cols : stmt.cols[i].table = t})
              all == {c.table : c \in Range(stmt.cols)}
          IN  SetToSortSeq(all, LAMBDA t, u : first(t) < first(u))
OfTable(t) == SelectSeq([i \in DOMAIN stmt.cols |-> i], LAMBDA i : stmt.cols[i].table = t)

\* The order in which the read functions are called.
ReadOrder == IF stmt.mode.kind = "nested"
             THEN FoldLeft(\o, <<>>, [k \in DOMAIN Tables |-> OfTable(Tables[k])])
             ELSE [i \in DOMAIN stmt.cols |-> i]

ReadColumn ==
  /\ phase = "reading"
  /\ \E i \in {ReadOrder[Len(pairs) + 1]} : \E r \in {Read(row, offset, stmt.cols[i])} :
       /\ pairs' = Append(pairs, <<IF stmt.mode.kind = "array" THEN <<i>> ELSE Path(stmt.cols[i]), r.v>>)
       /\ offset' = r.next
  /\ phase' = IF Len(pairs') = Len(stmt.cols) THEN "read" ELSE "reading"
  /\ UNCHANGED <<stmt, fields, row>>

\* A property of the row that is assigned twice keeps the later value.
ValueAt(path) == pairs[Max({k \in DOMAIN pairs : pairs[k][1] = path})][2]

ValuesNext == Add \/ Store \/ ReadColumn
ValuesSpec == ValuesInit /\ [][ValuesNext]_vars

-----------------------------------------------------------------------------
(* What the types can hold, and what a value is after it was stored. *)

\* The value of a numeral, which may be written in many ways.
Meaning(v) ==
  LET all == trimLeadingZeroes(v.int \o v.frac)
      m == trimTrailingZeroes(all)
  IN  [negative |-> v.sign = "-" /\ m # <<>>, m |-> m,
       e |-> IF m = <<>> THEN 0 ELSE Exponent(v) - Len(v.frac) + Len(all) - Len(m)]

Numeral(negative, digits, e) ==
  Meaning([sign |-> IF negative THEN "-" ELSE "", int |-> digits, frac |-> <<>>, exp |-> <<e>>])

\* v, rounded to len digits.
Rounded(v, len) ==
  LET x == Meaning(v)
      head == Reverse(<<0>> \o SubSeq(x.m, 1, len))
      more == IF x.m[len + 1] > 4 THEN 1 ELSE 0
  IN  IF Len(x.m) <= len THEN x
      ELSE Numeral(x.negative, Reverse(Carry(10, [head EXCEPT ![1] = @ + more])), x.e + Len(x.m) - len)

\* v, without the digits behind the given number of decimals.
Truncated(v, decimals) ==
  LET x == Meaning(v)
      drop == -decimals - x.e
  IN  IF drop <= 0 THEN x ELSE Numeral(x.negative, SubSeq(x.m, 1, Len(x.m) - drop), -decimals)

FitsHalves(halves, negative, digits) ==
  LET limit == INT_2_16 ^ halves \div 2
  IN  IF halves = 8 THEN Len(digits) <= maxFixedMantissaLen
      ELSE /\ Len(digits) <= Len(Digits[limit])
           /\ NumberOf(digits) < limit + (IF negative THEN 1 ELSE 0)

FitsFixed(col, v) ==
  \E x \in {Truncated(v, col.fraction)} :
    FitsHalves(Halves[col.type], x.negative, x.m \o ZEROS(IF x.m = <<>> THEN 0 ELSE x.e + col.fraction))

\* What is kept of v has an exponent that can be stored, with some number of zeros in the mantissa.
FitsDecimal(v) ==
  \E x \in {Rounded(v, maxDecimalMantissaLen)} :
    x.m = <<>> \/ /\ x.e >= -EXP_BIAS
                  /\ x.e - (maxDecimalMantissaLen - Len(x.m)) < 7 * (ExpRange \div 8) - EXP_BIAS

Day(v) == [y |-> v.y, m |-> v.m, d |-> v.d]
Time(v) == [h |-> v.h, mi |-> v.mi, s |-> v.s]
Milli(v) == [h |-> v.h, mi |-> v.mi, ms |-> v.s * 1000 + strToNumLen(v.f, 3)]

\* The day and the time that some number stands for: DAYDATE and SecondsOf name the only candidate.
HasDay(v) == \E n \in {DAYDATE(v.y, v.m, v.d)} : n \in 1..LastDay /\ DATE(n) = Day(v)
HasTime(v) == \E n \in {SecondsOf(v)} : n \in 0..DaySeconds-1 /\ Clock(n) = Time(v)
\* The types that hold hours, minutes and milliseconds apart know the real clock only.
OnClock(v) == v.h < 24 /\ v.mi < 60 /\ v.s < 60

\* Zeros only: an empty date.
IsZero(col, v) == /\ v.y = 0 /\ v.m = 0 /\ v.d = 0
                  /\ col.type # "DAYDATE" => v.h = 0 /\ v.mi = 0 /\ v.s = 0
                  /\ col.type = "LONGDATE" => \A i \in DOMAIN v.f : v.f[i] = 0

\* The integers of 64 bits.
FitsInt64(v) == LET limit == (INT_2_32 * INT_2_32) \div 2 IN v.s * NumberOf(v.m) \in -limit..limit-1

\* What a type can hold, whatever the Writer checks.  large: a double beyond any float.
Fits(col, v) ==
  \/ v.kind = "null"
  \/ CASE col.type \in DOMAIN Bounds -> v.kind = "int" /\ v.n \in Bounds[col.type]
       [] col.type = "BIGINT" -> v.kind = "big" /\ FitsInt64(v)
       [] col.type = "REAL" -> v.kind = "double"
       [] col.type = "DOUBLE" -> v.kind \in {"double", "large"}
       [] col.type \in DOMAIN Halves -> v.kind = "numeral" /\ v.int \o v.frac # <<>> /\ FitsFixed(col, v)
       [] col.type = "DECIMAL" -> v.kind = "numeral" /\ v.int \o v.frac # <<>> /\ FitsDecimal(v)
       [] col.type \in {"STRING", "ALPHANUM"} -> v.kind = "string"
       [] col.type = "BINARY" -> v.kind = "buffer"
       [] col.type = "ST_GEOMETRY" -> v.kind \in {"buffer", "string"}
       [] col.type \in {"BLOB", "CLOB", "NCLOB"} -> v.kind \in {"string", "buffer", "stream"}
       [] col.type = "DATE" -> v.kind = "date" /\ HasDay(v)
       [] col.type = "DAYDATE" -> v.kind = "date" /\ (HasDay(v) \/ IsZero(col, v))
       [] col.type = "TIME" -> v.kind = "time" /\ OnClock(v)
       [] col.type = "SECONDTIME" -> v.kind = "time" /\ HasTime(v)
       [] col.type = "TIMESTAMP" -> v.kind = "timestamp" /\ HasDay(v) /\ OnClock(v)
       [] col.type \in {"SECONDDATE", "LONGDATE"} ->
            v.kind = "timestamp" /\ ((HasDay(v) /\ HasTime(v)) \/ IsZero(col, v))
       [] col.type = "BOOLEAN" -> v.kind \in {"true", "false", "number"}
                                  \/ (v.kind = "text" /\ v.text \in {"TRUE", "1", "FALSE", "0", "UNKNOWN", ""})
       [] col.type = "REAL_VECTOR" ->
            IF v.kind = "array" THEN v.n > 0 /\ col.length \in {0, v.n}
            ELSE v.kind = "buffer" /\ v.length = 4 + 4 * v.count /\ v.count > 0 /\ col.length \in {0, v.count}

\* The types of which the Writer does not look at the range: it stores what two bytes, eight or a
\* float make of the value, and leaves it to the server to refuse it.
Unchecked == {"BIGINT", "REAL", "DOUBLE", "DATE", "TIME", "TIMESTAMP"}

\* What is read, with numerals replaced by their meaning.
Seen(col, r) == IF col.type \in DOMAIN Halves \cup {"DECIMAL"} /\ "int" \in DOMAIN r THEN Meaning(r) ELSE r

Kept(col, v) ==
  IF v.kind = "null" THEN Null
  ELSE CASE col.type \in DOMAIN Bounds -> Num(v.n)
         [] col.type = "BIGINT" -> IF NumberOf(v.m) <= INT_2_21 * INT_2_32
                                   THEN [kind |-> "number", s |-> v.s, m |-> v.m]
                                   ELSE [kind |-> "string", s |-> v.s, m |-> v.m]
         [] col.type \in DOMAIN Halves -> Truncated(v, col.fraction)
         [] col.type = "DECIMAL" -> IF col.fraction > maxDecimalMantissaLen
                                    THEN Rounded(v, maxDecimalMantissaLen) ELSE Truncated(v, col.fraction)
         [] col.type = "ALPHANUM" -> IF v.numeric THEN [v EXCEPT !.length = col.length] ELSE v
         [] col.type = "ST_GEOMETRY" -> IF v.kind = "string" /\ ~col.text
                                        THEN [kind |-> "buffer", length |-> v.length \div 2] ELSE v
         [] col.type \in {"BLOB", "CLOB", "NCLOB"} ->
              [type |-> CASE col.type = "BLOB" -> 1 [] col.type = "CLOB" -> 2 [] OTHER -> 3,
               isLast |-> TRUE, byteLength |-> v.length, locatorId |-> 7, chunk |-> v.length]
         [] col.type = "DATE" -> Day(v)
         [] col.type = "TIME" -> Milli(v)
         [] col.type = "TIMESTAMP" -> Day(v) @@ Milli(v)
         [] col.type = "SECONDTIME" -> Time(v)
         [] col.type \in {"DAYDATE", "SECONDDATE", "LONGDATE"} ->
              IF IsZero(col, v) THEN Null
              ELSE IF col.type = "DAYDATE" THEN Day(v)
              ELSE IF col.type = "SECONDDATE" THEN Day(v) @@ Time(v)
              ELSE Day(v) @@ Time(v) @@ [ticks |-> TicksOf(v)]
         [] col.type = "BOOLEAN" ->
              CASE v.kind = "number" -> [kind |-> IF v.n = 0 THEN "false" ELSE "true"]
                [] v.kind = "text" -> IF v.text \in {"UNKNOWN", ""} THEN Null
                                      ELSE [kind |-> IF v.text \in {"TRUE", "1"} THEN "true" ELSE "false"]
                [] OTHER -> v
         [] col.type = "REAL_VECTOR" -> Num(IF v.kind = "array" THEN v.n ELSE v.count)
         [] OTHER -> v

\* Whatever the types, the values and the shape of the row: each column of the row has the value
\* that was written for it, as far as its type keeps it (of columns with the same name, the last
\* one), nothing is shifted by a NULL or a length, and no integer has lost its last digits.  What
\* a type cannot hold and the Writer lets through may be read as anything, but shifts nothing.
ReadsWhatWasWritten ==
  phase = "read" =>
    \A i \in DOMAIN stmt.cols :
      LET path(j) == IF stmt.mode.kind = "array" THEN <<j>> ELSE Path(stmt.cols[j])
      IN  /\ Fits(stmt.cols[i], stmt.values[i])
          /\ \A j \in i + 1..Len(stmt.cols) : path(j) # path(i)
          => Seen(stmt.cols[i], ValueAt(path(i))) = Kept(stmt.cols[i], stmt.values[i])

\* The Writer refuses no value that the type of its column can hold, and every value that the type
\* cannot hold, except in the columns whose range it leaves to the server.
RefusesMisfits ==
  /\ phase = "refused" => ~Fits(stmt.cols[Len(fields) + 1], stmt.values[Len(fields) + 1])
  /\ \A i \in DOMAIN fields : Fits(stmt.cols[i], stmt.values[i]) \/ stmt.cols[i].type \in Unchecked
=============================================================================
