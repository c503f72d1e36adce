------------------------------- MODULE MCValues -------------------------------
(***************************************************************************)
(* Statements with one column of each type and the values at its bounds,   *)
(* followed by an INT that must not be shifted; and statements whose rows  *)
(* become objects.  Limbs of two digits and halves of 24 values keep all   *)
(* the relations between the constants of bignum.js: a limb has two        *)
(* halves, 10^4 three, 10^6 five, 10^8 six, 10^10 eight; 2^32 has two      *)
(* limbs, 2^64 three; the last safe number lies between the longest string *)
(* that is converted as a number and the largest integer of 64 bits.       *)
(***************************************************************************)
EXTENDS Values

CONSTANT Kinds   \* which statements

Column(type, fraction, length) ==
  [type |-> type, fraction |-> fraction, length |-> length, text |-> FALSE, table |-> <<"t">>, name |-> <<"x">>]
Sentinel == [Column("INT", 0, 0) EXCEPT !.name = <<"y">>]

\* Each value in a column of its own, before the sentinel.
Alone(col, values) ==
  {[cols |-> <<col, Sentinel>>, values |-> <<v, [kind |-> "int", n |-> 7]>>, mode |-> [kind |-> "array"]] :
     v \in values \cup {Null}}

-----------------------------------------------------------------------------
IntegerValues == {[kind |-> "nan"]} \cup
  {[kind |-> "int", n |-> n] : n \in {-1, 0, 1, 127, 255, 256, -32768, -32769, 32767, 32768, 2147483647}}

\* Around the powers of the limbs, the last safe number, and the ends of the range, and beyond it.
BigNumbers == {0, 1, 23, 24, 99, 100, 575, 576, 577, 9999, 10000, 10001, 57599, 57600, 99999, 100000,
               110015, 110591, 110592, 110593, 111168, 123456, 144100, 160006, 165311, 165887}
BigValues == {[kind |-> "big", s |-> s, m |-> Digits[n]] : s \in {-1, 1}, n \in BigNumbers \ {0}}
             \cup {[kind |-> "big", s |-> 1, m |-> <<0>>], [kind |-> "big", s |-> -1, m |-> Digits[165888]]}
             \cup {[kind |-> "big", s |-> s, m |-> Digits[n]] : s \in {-1, 1}, n \in {165889, 331775, 331776, 9999999}}
             \cup {[kind |-> "big", s |-> 1, m |-> Digits[165888]]}

Integers2 == UNION {Alone(Column(t, 0, 0), IntegerValues) : t \in {"TINYINT", "SMALLINT", "INT"}}
             \cup Alone(Column("BIGINT", 0, 0), BigValues \cup {[kind |-> "nan"]})

Strings == {<<>>, <<0>>, <<1>>, <<0, 4, 0>>, <<2, 4>>, <<5, 7, 6>>, <<1, 0, 0, 0, 0>>, <<1, 6, 5, 8, 8, 7>>,
            <<1, 6, 5, 8, 8, 8>>, <<1, 9, 1, 1, 0, 2, 9, 7, 6>>, <<9, 9, 9, 9, 9, 9, 9>>,
            <<9, 5, 5, 5, 1, 4, 8, 8>>, <<9, 9, 9, 9, 9, 9, 9, 9, 5>>}
Numerals(signs, ints, fracs, exps) ==
  {[kind |-> "numeral", sign |-> s, int |-> i, frac |-> f, exp |-> e] :
     s \in signs, i \in ints, f \in fracs, e \in exps}

\* A numeral is a string with a digit; zero has no sign and no exponent.
Usual(v) == /\ v.int \o v.frac # <<>>
            /\ (\A i \in DOMAIN (v.int \o v.frac) : (v.int \o v.frac)[i] = 0) => v.sign = "" /\ v.exp = <<>>

Fractions == {<<>>, <<0, 0>>, <<5>>, <<4, 9, 9>>, <<0, 0, 0, 7>>, <<9, 9, 9, 9, 9>>}
Floats == {v \in Numerals({"", "-"}, Strings, Fractions \cup {<<9, 9, 9, 9, 9, 9, 9, 9, 9, 9>>}, {<<>>, <<-2>>, <<1>>}) : Usual(v)}
Decimals == Alone(Column("DECIMAL", 20, 0), Floats \cup {[kind |-> "object"]})
            \cup Alone(Column("DECIMAL", 2, 0), {v \in Floats : Len(v.int) <= 5 /\ v.exp = <<>>})
Fixed == UNION {Alone(Column(t, f, 0), {v \in Numerals({"", "+", "-"}, Strings, Fractions, {<<>>, <<2>>}) : Usual(v)}
                                       \cup {[kind |-> "object"]}) :
                  t \in DOMAIN Halves, f \in {0, 2}}

\* The signs and exponents of zero, no digits, an exponent that does not fit, mantissas that
\* end with zeros: for runs of their own.
SignedZeros == Alone(Column("FIXED8", 2, 0), Numerals({"-"}, {<<0>>}, {<<>>}, {<<>>}))
LargeZeros == Alone(Column("FIXED16", 2, 0), Numerals({""}, {<<0>>}, {<<>>}, {<<20>>}))
NoDigits == Alone(Column("DECIMAL", 20, 0), Numerals({"-"}, {<<>>}, {<<>>}, {<<>>}))
LargeExponents == Alone(Column("DECIMAL", 20, 0), Numerals({""}, {<<1>>}, {<<>>}, {<<9>>, <<12>>}))
Hundreds == Alone(Column("DECIMAL", 20, 0), Numerals({""}, {<<1, 0, 0>>}, {<<>>}, {<<>>}))

-----------------------------------------------------------------------------
Days == {[y |-> y, m |-> m, d |-> d] :
           y \in {1, 4, 100, 1582, 1583, 1600, 1700, 2000, 2024, 9999, 10000},
           m \in {0, 1, 2, 3, 10, 12, 13}, d \in {0, 1, 4, 15, 28, 29, 31, 32}}
        \cup {[y |-> 0, m |-> 0, d |-> 0]}
Skipped(v) == v.y = 1582 /\ v.m = 10 /\ v.d \in 5..14
JulianLeapDay(v) == v.y \in 1..1582 /\ v.y % 100 = 0 /\ v.y % 400 # 0 /\ v.m = 2 /\ v.d = 29
FewDays == {v \in Days : v.y \in {0, 1582, 2024} /\ v.m \in {0, 2, 10} /\ v.d \in {0, 4, 15, 28, 29, 31}}
Parts == {<<>>, <<0>>, <<5>>, <<0, 0, 9>>, <<9, 9, 9, 9>>}
Times == {[h |-> h, mi |-> mi, s |-> s, f |-> f] :
            h \in {0, HOURS - 1, HOURS}, mi \in {0, MINUTES - 1, MINUTES}, s \in {0, SECONDS - 1, SECONDS},
            f \in Parts}
FewTimes == {[h |-> 0, mi |-> 0, s |-> 0, f |-> f] : f \in Parts}
            \cup {[h |-> h, mi |-> MINUTES - 1, s |-> s, f |-> <<9, 9, 9, 9>>] :
                     h \in {1, HOURS}, s \in {SECONDS - 1, SECONDS}}
LongSeconds == {[h |-> 23, mi |-> 59, s |-> s, f |-> f] : s \in {59, 65, 66}, f \in Parts}
Kind(kind, values) == {[kind |-> kind] @@ v : v \in values}

Dates == Alone(Column("DAYDATE", 0, 0), Kind("date", {v \in Days : ~Skipped(v) /\ ~JulianLeapDay(v)}) \cup {[kind |-> "object"]})
         \cup Alone(Column("DATE", 0, 0), Kind("date", Days) \cup {[kind |-> "object"]})
         \cup Alone(Column("TIME", 0, 0), Kind("time", Times \cup LongSeconds) \cup {[kind |-> "object"]})
         \cup Alone(Column("SECONDTIME", 0, 0), Kind("time", {v \in Times : Len(v.f) <= 1}) \cup {[kind |-> "object"]})
         \cup Alone(Column("TIMESTAMP", 0, 0), {[kind |-> "timestamp"] @@ v @@ t : v \in {w \in FewDays : w.y = 2024}, t \in LongSeconds})
         \cup UNION {Alone(Column(t, 0, 0), {[kind |-> "timestamp"] @@ v @@ c : v \in FewDays, c \in FewTimes}) :
                       t \in {"SECONDDATE", "LONGDATE"}}
SkippedDays == Alone(Column("DAYDATE", 0, 0), Kind("date", {v \in Days \cup {[y |-> 1582, m |-> 10, d |-> 9]} : Skipped(v)}))
LeapDays == Alone(Column("DAYDATE", 0, 0), Kind("date", {v \in Days : JulianLeapDay(v)}))

-----------------------------------------------------------------------------
Lengths == {0, 1, 245, 246, 32767, 32768}
Of(kind, lengths) == {[kind |-> kind, length |-> n] : n \in lengths}
Bytes == UNION {Alone(Column(t, 0, 0), Of("string", Lengths) \cup Of("buffer", Lengths)) :
                  t \in {"STRING", "BINARY", "ST_GEOMETRY"}}
         \cup Alone([Column("ST_GEOMETRY", 0, 0) EXCEPT !.text = TRUE], Of("string", Lengths))
         \cup Alone(Column("ALPHANUM", 0, 12),
                    {[kind |-> "string", length |-> n, numeric |-> q, zeros |-> z] :
                       n \in {3, 12}, q \in BOOLEAN, z \in {0, 2}})
         \cup UNION {Alone(Column(t, 0, 0), Of("string", {0, 5}) \cup Of("stream", {5}) \cup {[kind |-> "number"]}) :
                       t \in {"BLOB", "CLOB", "NCLOB"}}
Floating == {[kind |-> k] : k \in {"double", "large", "infinite", "nan"}}
Flags == Alone(Column("BOOLEAN", 0, 0),
               {[kind |-> "text", text |-> t] : t \in {"TRUE", "1", "FALSE", "0", "UNKNOWN", "", "maybe"}}
               \cup {[kind |-> "number", n |-> n] : n \in {0, 1, -3}}
               \cup {[kind |-> "true"], [kind |-> "false"], [kind |-> "object"]})
         \cup Alone(Column("DOUBLE", 0, 0), Floating)
         \cup Alone(Column("REAL", 0, 0), Floating)
Vectors == UNION {Alone(Column("REAL_VECTOR", 0, n),
                        {[kind |-> "array", n |-> k] : k \in {0, 2, 3}}
                        \cup {[kind |-> "buffer", length |-> l, count |-> k] : l \in {3, 4, 10, 12, 16}, k \in {0, 2, 3}}) :
                    n \in {0, 3}}

-----------------------------------------------------------------------------
\* Rows of three columns of two tables; the names of tables and columns may hold the separator.
Modes == {[kind |-> "array"], [kind |-> "hash"], [kind |-> "nested"], [kind |-> "joined", sep |-> <<"_">>]}
Named == {[Column("SMALLINT", 0, 0) EXCEPT !.table = t, !.name = n] :
            t \in {<<"a">>, <<"a", "_", "b">>}, n \in {<<"c">>, <<"b", "_", "c">>}}
AllRows == {[cols |-> <<c, d, e>>,
             values |-> <<[kind |-> "int", n |-> 1], v, [kind |-> "int", n |-> 3]>>, mode |-> m] :
              c \in Named, d \in Named, e \in Named, m \in Modes, v \in {Null, [kind |-> "int", n |-> 2]}}
Interleaved(r) == r.mode.kind = "nested" /\ r.cols[1].table = r.cols[3].table /\ r.cols[2].table # r.cols[1].table
Rows == {r \in AllRows : ~Interleaved(r)}
InterleavedRows == {r \in AllRows : Interleaved(r)}

MCStatements == UNION {CASE k = "integers" -> Integers2 [] k = "decimals" -> Decimals [] k = "fixed" -> Fixed
                         [] k = "dates" -> Dates [] k = "bytes" -> Bytes [] k = "flags" -> Flags
                         [] k = "vectors" -> Vectors [] k = "rows" -> Rows
                         [] k = "signedZeros" -> SignedZeros [] k = "largeZeros" -> LargeZeros
                         [] k = "noDigits" -> NoDigits [] k = "largeExponents" -> LargeExponents
                         [] k = "hundreds" -> Hundreds [] k = "skippedDays" -> SkippedDays
                         [] k = "leapDays" -> LeapDays
                         [] k = "interleavedRows" -> InterleavedRows : k \in Kinds}
=============================================================================
