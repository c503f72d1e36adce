-------------------------------- MODULE Bignum --------------------------------
(***************************************************************************)
(* The arithmetic of lib/util/bignum.js and the padding of                 *)
(* lib/util/zeropad.js: integers of 64 and 128 bits and decimals of 128    *)
(* bits are turned into decimal numerals, and back, with numbers that are  *)
(* exact up to 2^53 only.  Two bases meet: limbs of LimbDigits decimal     *)
(* digits and halves, the pieces of 16 bits.  A buffer is a sequence of    *)
(* halves, the least significant first; a numeral is a sequence of digits, *)
(* the most significant first.                                             *)
(***************************************************************************)
EXTENDS Integers, SequencesExt

CONSTANTS                                                    \* in the code
  LimbDigits, BASE,   \* digits of a limb, and its values         7, 10^7
  INT_2_16,           \* values of a half                         2^16
  INT_2_21,           \* INT_2_21 * INT_2_32 and all below it are exact
  NumberDigits,       \* strings up to this length are numbers    15
  ExpRange, EXP_BIAS  \* exponents of a decimal, and their bias   2^14, 6176

ASSUME BignumAssumption ==
  /\ {LimbDigits, INT_2_16, INT_2_21, NumberDigits, ExpRange, EXP_BIAS} \subseteq Nat \ {0}
  /\ BASE = 10 ^ LimbDigits /\ INT_2_16 % 2 = 0 /\ ExpRange % 8 = 0 /\ EXP_BIAS < ExpRange

INT_2_32 == INT_2_16 * INT_2_16
INT_2_32_0 == INT_2_32 % BASE
INT_2_32_1 == INT_2_32 \div BASE
INT_2_64_0 == (INT_2_32 * INT_2_32) % BASE
INT_2_64_1 == ((INT_2_32 * INT_2_32) \div BASE) % BASE
INT_2_64_2 == ((INT_2_32 * INT_2_32) \div BASE) \div BASE

\* s with the carries of each place moved to the next one; the last place keeps its own.
Carry(base, s) ==
  LET place[n \in 0..Len(s)] ==
        IF n = 0 THEN [out |-> <<>>, carry |-> 0]
        ELSE LET r == place[n-1]
                 sum == s[n] + r.carry
             IN  IF n = Len(s) THEN [out |-> Append(r.out, sum), carry |-> 0]
                 ELSE [out |-> Append(r.out, sum % base), carry |-> sum \div base]
  IN  place[Len(s)].out

\* BIN_10_7_0 .. BIN_10_35_7: the halves of BASE^0, BASE^1 .. BASE^5.
TimesBase(h) == Carry(INT_2_16, [n \in 1..8 |-> h[n] * BASE])
BIN == LET b0 == <<1, 0, 0, 0, 0, 0, 0, 0>>
           b1 == TimesBase(b0)  b2 == TimesBase(b1)  b3 == TimesBase(b2)  b4 == TimesBase(b3)
       IN  <<b0, b1, b2, b3, b4, TimesBase(b4)>>

\* A number is a double: beyond 2^53 (and up to 2^54) only the even integers are.
Double(n) == IF n <= INT_2_21 * INT_2_32 THEN n ELSE 2 * (n \div 2)

-----------------------------------------------------------------------------
(* Numerals. *)

Digits[n \in Nat] == IF n < 10 THEN <<n>> ELSE Append(Digits[n \div 10], n % 10)
NumberOf(str) == FoldLeft(LAMBDA n, d : 10 * n + d, 0, str)
ZEROS(n) == [i \in 1..n |-> 0]
lpad(width, n) == ZEROS(width - Len(Digits[n])) \o Digits[n]
lpad14(n) == lpad(2 * LimbDigits, n)

\* +value.substring(l - hi, l - lo): what the last hi digits are, without the last lo.
Group(str, hi, lo) ==
  NumberOf(SubSeq(str, (IF Len(str) > hi THEN Len(str) - hi ELSE 0) + 1, Len(str) - lo))

\* s <= t, for strings of the same length.
NotAfter(s, t) == s = t \/ \E i \in DOMAIN s : s[i] < t[i] /\ \A j \in 1..i-1 : s[j] = t[j]

isUInt64(str) == LET UInt64Max == Digits[INT_2_32 * INT_2_32 - 1]
                 IN  \/ Len(str) < Len(UInt64Max)
                     \/ Len(str) = Len(UInt64Max) /\ NotAfter(str, UInt64Max)

\* An integer that has been read: a number, or a string.
Number(s, n) == [kind |-> "number", s |-> s, m |-> Digits[Double(n)]]
String(s, str) == [kind |-> "string", s |-> s, m |-> str]

\* Faulty variant: the last safe integer is not where doubles end.
AlmostSafe(x, y) == y <= INT_2_21

IsSafe(x, y) == y < INT_2_21 \/ (y = INT_2_21 /\ x = 0)

-----------------------------------------------------------------------------
(* Reading. *)

\* The limbs of y * 2^32 + x.
Limbs(x, y) ==
  LET x0 == x % BASE  x1 == x \div BASE  y0 == y % BASE  y1 == y \div BASE
  IN  <<x0 + y0 * INT_2_32_0, x1 + y0 * INT_2_32_1 + y1 * INT_2_32_0, y1 * INT_2_32_1>>

\* h is four halves.
ReadInt64(h, unsigned) ==
  LET x == h[2] * INT_2_16 + h[1]
      y == h[4] * INT_2_16 + h[3]
      negative == ~unsigned /\ y >= INT_2_32 \div 2
      absX == IF negative /\ x # 0 THEN INT_2_32 - 1 - x + 1 ELSE x
      absY == IF ~negative THEN y ELSE INT_2_32 - 1 - y + (IF x = 0 THEN 1 ELSE 0)
      s == IF negative THEN -1 ELSE 1
      l == Carry(BASE, Limbs(absX, absY))
  IN  IF IsSafe(absX, absY) THEN Number(s, absY * INT_2_32 + absX)
      ELSE String(s, Digits[l[3]] \o lpad14(l[2] * BASE + l[1]))

\* The limbs of (l * 2^32 + k) * 2^64 + j * 2^32 + i.
WideLimbs(i, j, k, l) ==
  LET x == Limbs(i, j)
      y == Carry(BASE, Limbs(k, l))
  IN  Carry(BASE, <<x[1] + y[1] * INT_2_64_0,
                    x[2] + y[1] * INT_2_64_1 + y[2] * INT_2_64_0,
                    x[3] + y[1] * INT_2_64_2 + y[2] * INT_2_64_1 + y[3] * INT_2_64_0,
                    y[2] * INT_2_64_2 + y[3] * INT_2_64_1,
                    y[3] * INT_2_64_2>>)

\* The digits of five limbs.
WideDigits(x) ==
  (IF x[5] # 0 THEN Digits[x[5]] \o lpad14(x[4] * BASE + x[3]) ELSE Digits[x[4] * BASE + x[3]])
  \o lpad14(x[2] * BASE + x[1])

ReadWords(i, j, k, l) ==
  IF k = 0 /\ l = 0 /\ IsSafe(i, j) THEN Number(1, j * INT_2_32 + i)
  ELSE String(1, WideDigits(WideLimbs(i, j, k, l)))

\* h is eight halves.
ReadUInt128(h) ==
  ReadWords(h[2] * INT_2_16 + h[1], h[4] * INT_2_16 + h[3], h[6] * INT_2_16 + h[5], h[8] * INT_2_16 + h[7])

\* A decimal: seven halves and a bit of mantissa, the exponent, the sign.  The writer may put
\* any bits into the exponent; three of them mean NULL.
ReadDec128(b) ==
  IF b.exp >= 7 * (ExpRange \div 8) THEN [null |-> TRUE]
  ELSE [null |-> FALSE, s |-> IF b.negative THEN -1 ELSE 1,
        m |-> ReadUInt128(b.h \o <<b.top>>).m, e |-> b.exp - EXP_BIAS]

-----------------------------------------------------------------------------
(* Writing. *)

\* The two's complement of a buffer: the zeros at its beginning stay.
Negated(h) ==
  LET first == {n \in DOMAIN h : \A i \in 1..n : h[i] = 0}
  IN  [n \in DOMAIN h |-> IF n \in first THEN 0
                          ELSE INT_2_16 - 1 - h[n] + (IF n - 1 \in first \cup {0} THEN 1 ELSE 0)]

\* The halves of a sum of groups of digits, group k counting BASE^(k-1); the buffer keeps
\* what fits into its halves.
Sum(groups, n) ==
  LET hi(k) == IF k = 6 THEN 0 ELSE groups[k] \div INT_2_16
      lo(k) == groups[k] % INT_2_16
      z == [i \in 1..n |-> FoldLeft(+, 0, [k \in 1..Len(groups) |->
              lo(k) * BIN[k][i] + (IF i = 1 THEN 0 ELSE hi(k) * BIN[k][i-1])])]
      c == Carry(INT_2_16, z)
  IN  [i \in 1..n |-> c[i] % INT_2_16]

HalvesOf(n) == LET x0 == n % INT_2_32  x1 == (n \div INT_2_32) % INT_2_32
               IN  <<x0 % INT_2_16, x0 \div INT_2_16, x1 % INT_2_16, x1 \div INT_2_16>>

\* str is the value without its sign.  The sign counts as a character of the string.
WriteInt64(s, str, unsigned) ==
  LET l == Len(str) + (IF s < 0 THEN 1 ELSE 0)
      h == IF l > NumberDigits
           THEN Sum(<<Group(str, LimbDigits, 0), Group(str, 2 * LimbDigits, LimbDigits),
                      Group(str, Len(str), 2 * LimbDigits)>>, 4)
           ELSE HalvesOf(Double(NumberOf(str)))
  IN  IF s < 0 /\ ~unsigned THEN Negated(h) ELSE h

WriteUInt128(str) ==
  Sum([k \in 1..6 |-> IF Len(str) <= (k - 1) * LimbDigits THEN 0
                      ELSE Group(str, IF k = 6 THEN Len(str) ELSE k * LimbDigits, (k - 1) * LimbDigits)], 8)

Packed(h, e, negative) ==
  [h |-> SubSeq(h, 1, 7), top |-> h[8] % 2, exp |-> e % ExpRange,
   negative |-> negative \/ (e \div ExpRange) % 2 = 1]

WriteDec128(d) ==
  Packed(IF isUInt64(d.m) THEN WriteInt64(1, d.m, TRUE) \o <<0, 0, 0, 0>> ELSE WriteUInt128(d.m),
         EXP_BIAS + d.e, d.s < 0)
=============================================================================
