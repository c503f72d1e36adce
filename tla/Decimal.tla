-------------------------------- MODULE Decimal -------------------------------
(***************************************************************************)
(* DECIMAL and FIXED columns: how a string becomes a mantissa and an       *)
(* exponent (lib/protocol/Writer.js), how they are stored (Bignum), and    *)
(* the numeral that is read back (lib/util/bignum.js).  A numeral          *)
(*   [sign |-> "", "+" or "-", int |-> digits, frac |-> digits,            *)
(*    exp |-> <<an integer>>, or <<>>]                                        *)
(* is what the regular expression DECIMAL finds in the string.             *)
(***************************************************************************)
EXTENDS Bignum

CONSTANTS maxDecimalMantissaLen, maxFixedMantissaLen, MAX_DECIMAL_LENGTH   \* 34, 38, 38

ASSUME DecimalAssumption ==
  {maxDecimalMantissaLen, maxFixedMantissaLen, MAX_DECIMAL_LENGTH} \subseteq Nat \ {0}

REFUSED == [refused |-> TRUE]
Null == [kind |-> "null"]

\* zeropad.ZEROS[n]: it has no entry beyond MAX_DECIMAL_LENGTH.
Padding(n) == IF n <= MAX_DECIMAL_LENGTH THEN ZEROS(n) ELSE <<"undefined">>

trimTrailingZeroes(str) ==
  LET kept == {i \in DOMAIN str : str[i] # 0}
  IN  IF kept = {} THEN <<>> ELSE SubSeq(str, 1, Max(kept))
trimLeadingZeroes(str) == Reverse(trimTrailingZeroes(Reverse(str)))

\* '' and '.' match the expression, and are refused.
IsEmpty(v) == v.sign = "" /\ v.int = <<>> /\ v.frac = <<>> /\ v.exp = <<>>

Exponent(v) == IF v.exp = <<>> THEN 0 ELSE v.exp[1]

-----------------------------------------------------------------------------
(* Writing. *)

\* The first maxLen digits of m, one more in the last place: the nines at the end become zeros,
\* which go into the exponent.
RoundUp(m, maxLen) ==
  LET i == Max({0} \cup {n \in 1..maxLen : m[n] # 9})
  IN  IF i = 0 THEN [m |-> <<1>>, e |-> maxLen]
      ELSE [m |-> Append(SubSeq(m, 1, i - 1), m[i] + 1), e |-> maxLen - i]

CutOff(m, maxLen) == LET t == trimTrailingZeroes(SubSeq(m, 1, maxLen))
                     IN  [m |-> t, e |-> maxLen - Len(t)]

stringToDecimal(v, maxMantissaLen, fraction) ==
  LET frac == trimTrailingZeroes(v.frac)
      digits == trimLeadingZeroes(v.int \o frac)
      mantissa == IF digits = <<>> THEN <<0>> ELSE digits
      exp == Exponent(v) - Len(frac)
      fit == IF fraction > maxMantissaLen /\ mantissa[maxMantissaLen + 1] > 4
             THEN RoundUp(mantissa, maxMantissaLen) ELSE CutOff(mantissa, maxMantissaLen)
      s == IF v.sign = "-" THEN -1 ELSE 1
  IN  IF Len(mantissa) <= maxMantissaLen THEN [s |-> s, m |-> mantissa, e |-> exp]
      ELSE [s |-> s, m |-> fit.m, e |-> exp + (Len(mantissa) - maxMantissaLen) + fit.e]

truncateDecimalToExp(d, minExp) ==
  LET len == d.e + Len(d.m) - minExp
  IN  IF d.e >= minExp THEN d
      ELSE IF len <= 0 THEN [s |-> 1, m |-> <<0>>, e |-> minExp]
      ELSE [d EXCEPT !.m = SubSeq(@, 1, len), !.e = minExp]

\* The integer that stands for d in a column with fraction decimals.
Scaled(d, fraction) ==
  IF Len(d.m) + d.e + fraction > maxFixedMantissaLen THEN REFUSED
  ELSE [refused |-> FALSE, s |-> d.s, m |-> d.m \o ZEROS(fraction + d.e)]

toFixedDecimal(v, fraction) ==
  Scaled(truncateDecimalToExp(stringToDecimal(v, maxFixedMantissaLen, fraction), -fraction), fraction)

TopBit(half) == half >= INT_2_16 \div 2

\* Faulty variant: the highest bit of what is stored is not looked at.
IgnoresTopBit(s, ext, limit) == \A n \in limit + 1..8 : ext[n] = (IF s = -1 THEN INT_2_16 - 1 ELSE 0)

\* Half limit + 1 and those above it are nothing but the sign of what is below.
checkFixedOverflow(s, ext, limit) ==
  /\ \A n \in limit + 1..8 : ext[n] = (IF s = -1 THEN INT_2_16 - 1 ELSE 0)
  /\ TopBit(ext[limit]) = (s = -1)

CutTo(halves, s, ext) ==
  IF halves < 8 /\ ~checkFixedOverflow(s, ext, halves) THEN REFUSED
  ELSE [refused |-> FALSE, h |-> SubSeq(ext, 1, halves)]

Stored(d, halves) ==
  IF d.refused THEN REFUSED
  ELSE CutTo(halves, d.s, LET h == WriteUInt128(d.m) IN IF d.s = -1 THEN Negated(h) ELSE h)

\* FIXED8, FIXED12 and FIXED16 have 4, 6 and 8 halves.
WriteFixed(v, fraction, halves) ==
  IF IsEmpty(v) THEN REFUSED ELSE Stored(toFixedDecimal(v, fraction), halves)

WriteDecimal(v, fraction) ==
  IF IsEmpty(v) THEN REFUSED
  ELSE [refused |-> FALSE,
        b |-> WriteDec128(stringToDecimal(v, maxDecimalMantissaLen, fraction))]

-----------------------------------------------------------------------------
(* Reading: the parts of the numeral that is returned. *)

Pointed(sign, str, fraction) ==
  LET l == Len(str)
  IN  IF fraction = 0 THEN [sign |-> sign, int |-> str, frac |-> <<>>, exp |-> <<>>]
      ELSE IF l <= fraction
           THEN [sign |-> sign, int |-> <<0>>, frac |-> Padding(fraction - l) \o str, exp |-> <<>>]
      ELSE [sign |-> sign, int |-> SubSeq(str, 1, l - fraction),
            frac |-> SubSeq(str, l - fraction + 1, l), exp |-> <<>>]

ReadFixed(h, fraction) ==
  LET negative == TopBit(h[Len(h)])
      ext == (IF negative THEN Negated(h) ELSE h) \o ZEROS(8 - Len(h))
  IN  Pointed(IF negative THEN "-" ELSE "", ReadUInt128(ext).m, fraction)

readDecFloat(dec) ==
  LET l == Max({0} \cup {i \in DOMAIN dec.m : dec.m[i] # 0})
  IN  [sign |-> IF dec.s < 0 THEN "-" ELSE "",
       int |-> IF l > 1 THEN SubSeq(dec.m, 1, 1) ELSE dec.m,
       frac |-> SubSeq(dec.m, 2, l),
       exp |-> <<dec.e + Len(dec.m) - 1>>]

readDecFixed(dec, fraction) ==
  LET l == Len(dec.m)
      k == l + dec.e
      i == IF dec.e >= 0 THEN dec.m \o Padding(dec.e)
           ELSE IF k > 0 THEN SubSeq(dec.m, 1, k) ELSE <<0>>
      f == IF dec.e >= 0 THEN <<>>
           ELSE IF k > 0 THEN SubSeq(dec.m, k + 1, l) ELSE Padding(-k) \o dec.m
  IN  [sign |-> IF dec.s < 0 THEN "-" ELSE "", int |-> i,
       frac |-> IF Len(f) > fraction THEN SubSeq(f, 1, fraction) ELSE f \o Padding(fraction - Len(f)),
       exp |-> <<>>]

\* A column without a fixed scale has a fraction that is larger than any mantissa.
Formatted(dec, fraction) ==
  IF dec.null THEN Null
  ELSE IF fraction > maxDecimalMantissaLen THEN readDecFloat(dec)
  ELSE readDecFixed(dec, fraction)

ReadDecimal(b, fraction) == Formatted(ReadDec128(b), fraction)
=============================================================================
