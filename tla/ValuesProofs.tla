----------------------------- MODULE ValuesProofs -----------------------------
(***************************************************************************)
(* Proofs about values: the calendar (days and their numbers), the columns *)
(* that hold days and times, and what the Writer refuses.  Leaves name     *)
(* their prover: Zenon writes numbers out, and those of days are large;    *)
(* SMT does not take a CASE of many types apart.                           *)
(***************************************************************************)
EXTENDS Values, TLAPS

-----------------------------------------------------------------------------
(* The calendar. *)

\* The days that the calendar leaves out; those that are days of its Julian part only.
Skipped(day, month, year) == year = 1582 /\ month = 10 /\ day \in 5..14
JulianLeapDay(day, month, year) ==
  /\ year \in Nat /\ 1 <= year /\ year <= 1581 /\ month = 2 /\ day = 29
  /\ year % 100 = 0 /\ year % 400 # 0
IsDay(day, month, year) ==
  /\ isValidDay(day, month, year) \/ JulianLeapDay(day, month, year)
  /\ ~Skipped(day, month, year)

\* Membership in a range whose end is a large number.
LEMMA InRange ==
  ASSUME NEW a \in Int, NEW n
  PROVE  n \in 1..a <=> n \in Int /\ 1 <= n /\ n <= a
BY SMT

\* The years of the calendar.
LEMMA Years ==
  ASSUME NEW y
  PROVE  y \in 1..LastYear <=> y \in Nat /\ 1 <= y /\ y <= 9999
<1>1. LastYear = 9999
  BY SMT DEF LastYear
<1>2. LastYear \in Int
  BY <1>1, SMT
<1>3. y \in 1..LastYear <=> y \in Int /\ 1 <= y /\ y <= LastYear
  BY <1>2, InRange, SMT
<1> QED BY <1>1, <1>3, SMT

\* isValidDay in these words.
LEMMA ValidDay ==
  ASSUME NEW d, NEW m, NEW y
  PROVE  isValidDay(d, m, y) <=>
           /\ y \in Nat /\ 1 <= y /\ y <= 9999 /\ m \in 1..12 /\ d \in 1..31
           /\ \/ d <= daysInMonth[m]
              \/ ((y % 4 = 0 /\ y % 100 # 0) \/ y % 400 = 0) /\ m = 2 /\ d = 29
<1> DEFINE r == y \in 1..LastYear
           s == m \in 1..12 /\ d \in 1..31
           t == \/ d <= daysInMonth[m]
                \/ ((y % 4 = 0 /\ y % 100 # 0) \/ y % 400 = 0) /\ m = 2 /\ d = 29
<1>1. isValidDay(d, m, y) <=> r /\ s /\ t
  BY SMTT(30) DEF isValidDay
<1> HIDE DEF s, t
<1>2. r <=> y \in Nat /\ 1 <= y /\ y <= 9999
  BY Years, SMT
<1>3. isValidDay(d, m, y) <=> (y \in Nat /\ 1 <= y /\ y <= 9999) /\ s /\ t
  BY <1>1, <1>2, SMT
<1> QED BY <1>3, SMT DEF s, t

\* 30.6001 * month: the days before a month, counted from March.
DaysBefore(k) == (306001 * k) \div 10000
InMonth(k) == 1..(IF k = 15 THEN 29 ELSE DaysBefore(k + 1) - DaysBefore(k))

\* Years begin in March: the month that DAYDATE computes with, and back.
LateMonth(m) == IF m > 2 THEN m + 1 ELSE m + 13
LateYear(m, y) == IF m > 2 THEN y ELSE y - 1

\* The last day is a number, large as it is.
LEMMA LastDayInt == LastDay \in Int
BY SMT DEF LastDay

\* The last day's number, counted from the beginning of the Julian days.
LEMMA LastNumber == TURN_OF_ERAS - 1 + LastDay = 5373484
BY SMT DEF TURN_OF_ERAS, LastDay

\* The days before each month: the quotient 30.6001 makes months of 31 and 30 days in the right order.
LEMMA MonthDays ==
  /\ DaysBefore(4) = 122 /\ DaysBefore(5) = 153 /\ DaysBefore(6) = 183 /\ DaysBefore(7) = 214
  /\ DaysBefore(8) = 244 /\ DaysBefore(9) = 275 /\ DaysBefore(10) = 306 /\ DaysBefore(11) = 336
  /\ DaysBefore(12) = 367 /\ DaysBefore(13) = 397 /\ DaysBefore(14) = 428 /\ DaysBefore(15) = 459
BY SMT DEF DaysBefore

MonthAfter(g) == (g * 10000) \div 306001

\* The month that DATE finds in what is left of a year is the one that the day was in.
LEMMA MonthOf ==
  ASSUME NEW k \in 4..15, NEW d \in InMonth(k)
  PROVE  MonthAfter(DaysBefore(k) + d) = k /\ d \in 1..31 /\ DaysBefore(k) + d \in 123..488
BY MonthDays, SMT DEF InMonth, MonthAfter

\* The year that DATE finds is the one whose days were counted, also on its last day if that is a leap day.
LEMMA YearOf ==
  ASSUME NEW c \in Nat, NEW g \in 123..488, g = 488 => c % 4 = 3
  PROVE  (20 * ((1461 * c) \div 4 + g) - 2442) \div 7305 = c
BY SMT

\* The second half of DATE, from B on.
DateOf(B) ==
  LET C == (20 * B - 2442) \div 7305
      D == (1461 * C) \div 4
      E == MonthAfter(B - D)
      month == IF E - 1 > 12 THEN E - 13 ELSE E - 1
  IN  [y |-> IF month < 3 THEN C - 4715 ELSE C - 4716,
       m |-> month,
       d |-> B - D - DaysBefore(E)]

Shifted(Z) == IF Z >= GREGORIAN
              THEN LET W == (4 * Z - 7468865) \div 146097 IN Z + 1 + W - (W \div 4) ELSE Z

\* DATE, in two halves: the Gregorian correction is undone, then year, month and day are taken apart.
LEMMA DateForm ==
  ASSUME NEW n \in Int
  PROVE  DATE(n) = DateOf(Shifted(n - 1 + TURN_OF_ERAS) + 1524)
BY SMT DEF DATE, DateOf, Shifted, DaysBefore, MonthAfter

\* A day, counted from March: month k of year j.  Years of the Julian calendar have their leap days.
MarchDay(j, k, d) ==
  /\ j \in Nat /\ j <= 9999 /\ k \in 4..15 /\ d \in InMonth(k)
  /\ k = 15 /\ d = 29 => j % 4 = 3 /\ (j >= 1582 /\ j % 100 = 99 => j % 400 = 399)
  /\ ~(j = 1582 /\ k = 11 /\ d \in 5..14)
Late(j, k, d) == j > 1582 \/ (j = 1582 /\ (k > 11 \/ (k = 11 /\ d >= 15)))
NumberOfDay(j, k, d) ==
  (1461 * j) \div 4 + DaysBefore(k) + d + 1720995
    + (IF Late(j, k, d) THEN 2 - (j \div 100) + ((j \div 100) \div 4) ELSE 0)

\* What the proofs use of a day that is counted from March.
LEMMA DayFacts ==
  ASSUME NEW j, NEW k, NEW d, MarchDay(j, k, d)
  PROVE  /\ j \in Nat /\ j <= 9999 /\ k \in 4..15 /\ d \in 1..31 /\ DaysBefore(k) \in Int
         /\ MonthAfter(DaysBefore(k) + d) = k /\ DaysBefore(k) + d \in 123..488
         /\ DaysBefore(k) + d = 488 => /\ j % 4 = 3
                                       /\ Late(j, k, d) => (j % 100 = 99 => j % 400 = 399)
<1>1. j \in Nat /\ j <= 9999 /\ k \in 4..15 /\ d \in InMonth(k)
  BY SMT DEF MarchDay
<1>2. DaysBefore(k) \in Int
  BY <1>1, MonthDays, SMT
<1>3. DaysBefore(k) + d = 488 => k = 15 /\ d = 29
  BY <1>1, MonthDays, SMT DEF InMonth
<1>4. Late(j, k, d) => j >= 1582
  BY <1>1, SMT DEF Late
<1>5. MonthAfter(DaysBefore(k) + d) = k /\ d \in 1..31 /\ DaysBefore(k) + d \in 123..488
  BY <1>1, MonthOf, SMT
<1> QED BY <1>1, <1>2, <1>3, <1>4, <1>5, SMT DEF MarchDay

\* The days from 1582-10-15 on have the numbers from GREGORIAN on.
LEMMA ErasAgree ==
  ASSUME NEW j, NEW k, NEW d, MarchDay(j, k, d)
  PROVE  NumberOfDay(j, k, d) \in Int /\ (Late(j, k, d) <=> NumberOfDay(j, k, d) >= GREGORIAN)
<1>1. /\ j \in Nat /\ j <= 9999 /\ k \in 4..15 /\ d \in 1..31 /\ DaysBefore(k) \in Int
      /\ DaysBefore(k) + d \in 123..488
  BY DayFacts, SMT
<1>2. CASE Late(j, k, d)
  <2>1. j >= 1582 /\ (j = 1582 => DaysBefore(k) + d >= 351)
    BY <1>1, <1>2, MonthDays, SMT DEF Late
  <2> QED BY <1>1, <1>2, <2>1, SMT DEF NumberOfDay, GREGORIAN
<1>3. CASE ~Late(j, k, d)
  <2>1. j <= 1582 /\ (j = 1582 => DaysBefore(k) + d <= 340)
    BY <1>1, <1>3, MonthDays, SMT DEF Late, MarchDay, InMonth
  <2> QED BY <1>1, <1>3, <2>1, SMT DEF NumberOfDay, GREGORIAN
<1> QED BY <1>2, <1>3, SMT

GregorianNumber(j, g) == (1461 * j) \div 4 + g + 1720997 - (j \div 100) + ((j \div 100) \div 4)
JulianNumber(j, g) == (1461 * j) \div 4 + g + 1720995

\* The century that DATE finds is that of the year.
LEMMA Centuries ==
  ASSUME NEW j \in Nat, NEW g \in 123..488, g = 488 => j % 4 = 3 /\ (j % 100 = 99 => j % 400 = 399),
         GregorianNumber(j, g) >= GREGORIAN
  PROVE  Shifted(GregorianNumber(j, g)) = JulianNumber(j, g)
<1> DEFINE Z == GregorianNumber(j, g)  a == j \div 100  W == (4 * Z - 7468865) \div 146097
<1>1. PICK k \in Nat, s \in 0..3, b \in 0..99 : j = 400 * k + 100 * s + b
  <2>1. j = 400 * (j \div 400) + 100 * ((j % 400) \div 100) + (j % 100)
    BY SMT
  <2>2. j \div 400 \in Nat /\ (j % 400) \div 100 \in 0..3 /\ j % 100 \in 0..99
    BY SMT
  <2> QED BY <2>1, <2>2, SMT
<1>2. a = 4 * k + s /\ a \div 4 = k
  BY <1>1, SMT
<1>3. (1461 * j) \div 4 = 146100 * k + 36525 * s + ((1461 * b) \div 4)
  BY <1>1, SMT
<1>4. g = 488 => b % 4 = 3 /\ (b = 99 => s = 3)
  BY <1>1, SMT
<1>5. W = a - 4
  BY <1>1, <1>2, <1>3, <1>4, SMT DEF GregorianNumber
<1>6. W \div 4 = (a \div 4) - 1
  BY <1>2, <1>5, SMT
<1> QED BY <1>1, <1>2, <1>5, <1>6, SMT DEF Shifted, GregorianNumber, JulianNumber

\* Undoing the correction leaves the Julian number of the day.
LEMMA ShiftedNumber ==
  ASSUME NEW j, NEW k, NEW d, MarchDay(j, k, d)
  PROVE  Shifted(NumberOfDay(j, k, d)) = (1461 * j) \div 4 + DaysBefore(k) + d + 1720995
<1> DEFINE g == DaysBefore(k) + d  Z == NumberOfDay(j, k, d)
<1>1. /\ j \in Nat /\ d \in Int /\ DaysBefore(k) \in Int /\ g \in 123..488
      /\ g = 488 => j % 4 = 3 /\ (Late(j, k, d) => (j % 100 = 99 => j % 400 = 399))
  <2>1. j \in Nat /\ j <= 9999 /\ d \in 1..31 /\ DaysBefore(k) \in Int /\ g \in 123..488
    BY DayFacts, SMT
  <2>2. g = 488 => j % 4 = 3 /\ (Late(j, k, d) => (j % 100 = 99 => j % 400 = 399))
    BY DayFacts, SMT
  <2> QED BY <2>1, <2>2, SMT
<1>2. Z \in Int /\ (Late(j, k, d) <=> Z >= GREGORIAN)
  BY ErasAgree, SMT
<1>3. CASE Late(j, k, d)
  <2>1. Z = GregorianNumber(j, g)
    BY <1>1, <1>3, SMT DEF NumberOfDay, GregorianNumber
  <2> HIDE DEF g, Z
  <2>2. g = 488 => j % 4 = 3 /\ (j % 100 = 99 => j % 400 = 399)
    BY <1>1, <1>3, SMT
  <2>3. j \in Nat /\ g \in 123..488 /\ Z \in Int /\ Z >= GREGORIAN
    BY <1>1, <1>2, <1>3, SMT
  <2>4. Shifted(Z) = JulianNumber(j, g)
    BY <2>1, <2>2, <2>3, Centuries, Zenon
  <2> QED BY <1>1, <2>4, SMT DEF g, Z, JulianNumber
<1>4. CASE ~Late(j, k, d)
  <2>1. Z = (1461 * j) \div 4 + DaysBefore(k) + d + 1720995
    BY <1>1, <1>4, SMT DEF NumberOfDay
  <2>2. Shifted(Z) = Z
    BY <1>2, <1>4, SMT DEF Shifted
  <2> QED BY <2>1, <2>2, SMT
<1> QED BY <1>3, <1>4, SMT

\* The second half of DATE finds month k and day d of year j.
LEMMA DateOfNumber ==
  ASSUME NEW j, NEW k, NEW d, MarchDay(j, k, d)
  PROVE  DateOf(Shifted(NumberOfDay(j, k, d)) + 1524)
           = [y |-> IF k > 13 THEN j + 1 ELSE j, m |-> IF k > 13 THEN k - 13 ELSE k - 1, d |-> d]
<1> DEFINE c == j + 4716  g == DaysBefore(k) + d  B == Shifted(NumberOfDay(j, k, d)) + 1524
<1>1. /\ j \in Nat /\ j <= 9999 /\ k \in 4..15 /\ d \in 1..31 /\ DaysBefore(k) \in Int /\ g \in 123..488
      /\ MonthAfter(g) = k /\ (g = 488 => j % 4 = 3)
  BY DayFacts, SMT
<1>2. B = (1461 * c) \div 4 + g
  BY <1>1, ShiftedNumber, SMT
<1>3. c \in Nat /\ (g = 488 => c % 4 = 3)
  BY <1>1, SMT
<1> HIDE DEF g
<1>4. (20 * ((1461 * c) \div 4 + g) - 2442) \div 7305 = c
  <2> HIDE DEF c
  <2> QED BY <1>1, <1>3, YearOf, SMT
<1>5. ((1461 * c) \div 4 + g) - ((1461 * c) \div 4) = g /\ g - DaysBefore(k) = d
  BY <1>1, SMT DEF g
<1>6. DateOf((1461 * c) \div 4 + g)
        = [y |-> IF k > 13 THEN c - 4715 ELSE c - 4716, m |-> IF k > 13 THEN k - 13 ELSE k - 1, d |-> d]
  <2> HIDE DEF c
  <2>1. DateOf((1461 * c) \div 4 + g)
          = LET month == IF k - 1 > 12 THEN k - 13 ELSE k - 1
            IN  [y |-> IF month < 3 THEN c - 4715 ELSE c - 4716, m |-> month, d |-> d]
    BY <1>1, <1>4, <1>5, SMT DEF DateOf
  <2> QED BY <1>1, <2>1, SMT
<1>7. c - 4715 = j + 1 /\ c - 4716 = j
  BY <1>1, SMT
<1> HIDE DEF c, B
<1> QED BY <1>2, <1>6, <1>7, SMT DEF B

\* The month and the day of what is left of a year.
HasMonth(g) == \E k, d : k \in 4..15 /\ d \in InMonth(k) /\ g = DaysBefore(k) + d

\* Each day that is left of a year is in a month.
LEMMA InSomeMonth ==
  ASSUME NEW g, g \in 123..488
  PROVE  HasMonth(g)
<1>1. \E k \in 4..15 : DaysBefore(k) < g /\ g <= (IF k = 15 THEN 488 ELSE DaysBefore(k + 1))
  BY MonthDays, SMTT(30)
<1>2. PICK k \in 4..15 : DaysBefore(k) < g /\ g <= (IF k = 15 THEN 488 ELSE DaysBefore(k + 1))
  BY <1>1, Zenon
<1>3. DaysBefore(k) \in Int /\ (k # 15 => DaysBefore(k + 1) \in Int)
  BY MonthDays, SMT
<1>4. g - DaysBefore(k) \in InMonth(k) /\ g = DaysBefore(k) + (g - DaysBefore(k))
  BY <1>2, <1>3, MonthDays, SMT DEF InMonth
<1>5. HasMonth(g)
  BY <1>4, SMT DEF HasMonth
<1> QED BY <1>5, SMT

DayOfYear(j, g) ==
  /\ j \in Nat /\ j <= 9999 /\ g \in 123..488 /\ (j # 1582 \/ g < 341 \/ g > 350)
  /\ g = 488 => j % 4 = 3 /\ (j >= 1582 /\ j % 100 = 99 => j % 400 = 399)
Exists(j, g) ==
  \E k, d : /\ MarchDay(j, k, d) /\ g = DaysBefore(k) + d /\ d \in Int /\ DaysBefore(k) \in Int
            /\ Late(j, k, d) <=> j > 1582 \/ (j = 1582 /\ g >= 351)

\* The day that is the g-th of year j, unless it is one of those that are skipped.
LEMMA InSomeYear ==
  ASSUME NEW j, NEW g, DayOfYear(j, g)
  PROVE  Exists(j, g)
<1> USE DEF DayOfYear
<1>1. PICK k, d : k \in 4..15 /\ d \in InMonth(k) /\ g = DaysBefore(k) + d
  <2>1. HasMonth(g)
    BY InSomeMonth, SMT
  <2> QED BY <2>1, SMT DEF HasMonth
<1>2. DaysBefore(k) \in Int /\ d \in 1..31
  BY <1>1, MonthDays, SMT DEF InMonth
<1>3. (k = 15 /\ d = 29 => g = 488) /\ (k = 11 /\ d \in 5..14 => g \in 341..350)
  BY <1>1, MonthDays, SMT
<1>4. MarchDay(j, k, d)
  BY <1>1, <1>3, SMT DEF MarchDay
<1>5. Late(j, k, d) <=> j > 1582 \/ (j = 1582 /\ g >= 351)
  <2>1. k > 11 \/ (k = 11 /\ d >= 15) <=> g >= 351
    BY <1>1, <1>2, MonthDays, SMT DEF InMonth
  <2> QED BY <2>1, SMT DEF Late
<1> QED BY <1>1, <1>2, <1>4, <1>5, SMT DEF Exists

\* Each number of the Julian calendar is that of a day.
LEMMA JulianDayExists ==
  ASSUME NEW Z \in Int, Z > TURN_OF_ERAS - 1, Z < GREGORIAN
  PROVE  \E j, k, d : MarchDay(j, k, d) /\ NumberOfDay(j, k, d) = Z
<1> DEFINE c == (20 * (Z + 1524) - 2442) \div 7305  g == Z + 1524 - ((1461 * c) \div 4)  j == c - 4716
<1>1. c \in Nat /\ 4716 <= c /\ c <= 6298 /\ g \in 123..488 /\ (g = 488 => c % 4 = 3) /\ (c = 6298 => g <= 340)
  BY SMTT(30) DEF TURN_OF_ERAS, GREGORIAN
<1>2. JulianNumber(j, g) = Z
  BY <1>1, SMT DEF JulianNumber
<1>3. /\ j \in Nat /\ j <= 9999 /\ j <= 1582 /\ (j = 1582 => g < 341)
      /\ g = 488 => j % 4 = 3 /\ (j >= 1582 /\ j % 100 = 99 => j % 400 = 399)
  <2>1. j \in Nat /\ j <= 1582 /\ (j = 1582 => g < 341)
    <3> HIDE DEF c, g
    <3> QED BY <1>1, SMT
  <2>2. g = 488 => j % 4 = 3
    <3> HIDE DEF c, g
    <3> QED BY <1>1, SMT
  <2>3. j \in Nat /\ j <= 9999 /\ j <= 1582 /\ (g = 488 => j < 1582)
    <3> HIDE DEF g, j
    <3> QED BY <1>1, <2>1, SMT
  <2> HIDE DEF c, g, j
  <2> QED BY <2>1, <2>2, <2>3, SMT
<1> HIDE DEF c, g, j
<1>4. PICK k, d : /\ MarchDay(j, k, d) /\ g = DaysBefore(k) + d /\ d \in Int /\ DaysBefore(k) \in Int
                  /\ Late(j, k, d) <=> j > 1582 \/ (j = 1582 /\ g >= 351)
  <2>1. DayOfYear(j, g)
    BY <1>1, <1>3, SMT DEF DayOfYear
  <2>2. Exists(j, g)
    BY <2>1, InSomeYear, SMT
  <2> QED BY <2>2, SMT DEF Exists
<1>5. ~Late(j, k, d)
  BY <1>1, <1>3, <1>4, SMT
<1>6. NumberOfDay(j, k, d) = JulianNumber(j, g)
  BY <1>3, <1>4, <1>5, SMT DEF NumberOfDay, JulianNumber
<1> QED BY <1>2, <1>4, <1>6, SMT

\* The same for the Gregorian calendar: the century is found first, then the year and what is left of it.
LEMMA GregorianDayExists ==
  ASSUME NEW Z \in Int, Z >= GREGORIAN, Z <= TURN_OF_ERAS - 1 + LastDay
  PROVE  \E j, k, d : MarchDay(j, k, d) /\ NumberOfDay(j, k, d) = Z
<1> DEFINE W == (4 * Z - 7468865) \div 146097  A == Z + 1 + W - (W \div 4)
           c == (20 * (A + 1524) - 2442) \div 7305  g == A + 1524 - ((1461 * c) \div 4)
           j == c - 4716  a == W + 4
<1>1. W \in 11..95 /\ A \in Int
  BY SMTT(30) DEF GREGORIAN, TURN_OF_ERAS, LastDay
<1>2. g \in 123..488 /\ (g = 488 => c % 4 = 3) /\ c \in Int
  BY <1>1, SMTT(30)
<1>3. PICK q \in Nat, s \in 0..3 : W = 4 * q + s /\ W \div 4 = q
  <2>1. W = 4 * (W \div 4) + (W % 4) /\ W \div 4 \in Nat /\ W % 4 \in 0..3
    BY <1>1, SMT
  <2> QED BY <2>1, SMT
<1>4. 100 * a <= j /\ j < 100 * a + 100
  BY <1>1, <1>2, <1>3, SMTT(60)
<1>5. g = 488 /\ j = 100 * a + 99 => s = 3
  BY <1>1, <1>2, <1>3, <1>4, SMTT(60)
<1>6. j \in Nat /\ 1582 <= j /\ j <= 9999 /\ (j = 1582 => g >= 351)
  BY <1>1, <1>2, <1>3, <1>4, SMTT(60) DEF GREGORIAN, TURN_OF_ERAS, LastDay
<1>7. j \div 100 = a /\ (j \div 100) \div 4 = (W \div 4) + 1
  BY <1>1, <1>2, <1>3, <1>4, SMTT(30)
<1>8. GregorianNumber(j, g) = Z
  BY <1>1, <1>2, <1>7, SMTT(30) DEF GregorianNumber
<1>9. g = 488 => j % 4 = 3 /\ (j >= 1582 /\ j % 100 = 99 => j % 400 = 399)
  <2>1. g = 488 => j % 4 = 3
    BY <1>2, SMT
  <2>2. g = 488 /\ j % 100 = 99 => j % 400 = 399
    BY <1>1, <1>2, <1>3, <1>4, <1>5, SMT
  <2> QED BY <2>1, <2>2, SMT
<1>10. j \in Nat /\ j <= 9999
  <2> HIDE DEF W, A, c, g, j
  <2> QED BY <1>6, SMT
<1> HIDE DEF W, A, c, g, j, a
<1>11. PICK k, d : /\ MarchDay(j, k, d) /\ g = DaysBefore(k) + d /\ d \in Int /\ DaysBefore(k) \in Int
                   /\ Late(j, k, d) <=> j > 1582 \/ (j = 1582 /\ g >= 351)
  <2>1. DayOfYear(j, g)
    BY <1>2, <1>6, <1>9, <1>10, SMT DEF DayOfYear
  <2>2. Exists(j, g)
    BY <2>1, InSomeYear, SMT
  <2> QED BY <2>2, SMT DEF Exists
<1>12. Late(j, k, d)
  BY <1>2, <1>6, <1>10, <1>11, SMT
<1>13. NumberOfDay(j, k, d) = GregorianNumber(j, g)
  BY <1>10, <1>11, <1>12, SMT DEF NumberOfDay, GregorianNumber
<1> QED BY <1>8, <1>11, <1>13, SMT

\* Leap years, and the years before them.
LEMMA LeapYears ==
  ASSUME NEW y \in Nat
  PROVE  /\ y % 4 \in 0..3 /\ y % 100 \in 0..99 /\ y % 400 \in 0..399
         /\ y % 100 = 0 \/ y % 400 = 0 => y % 4 = 0
         /\ y % 400 = 0 => y % 100 = 0
         /\ y >= 1582 /\ y < 1600 => y % 100 # 0
BY SMT

\* A leap year in March's count is the year before.
LEMMA YearBefore ==
  ASSUME NEW j \in Nat
  PROVE  /\ j % 4 = 3 <=> (j + 1) % 4 = 0
         /\ j % 100 = 99 <=> (j + 1) % 100 = 0
         /\ j % 400 = 399 <=> (j + 1) % 400 = 0
BY SMT

YearOfDay(j, k) == IF k > 13 THEN j + 1 ELSE j
MonthOfDay(k) == IF k > 13 THEN k - 13 ELSE k - 1

\* Days by month and year, and counted from March.
LEMMA DaysAgree ==
  ASSUME NEW y, NEW m, NEW d, IsDay(d, m, y)
  PROVE  /\ MarchDay(LateYear(m, y), LateMonth(m), d)
         /\ YearOfDay(LateYear(m, y), LateMonth(m)) = y /\ MonthOfDay(LateMonth(m)) = m
         /\ DAYDATE(y, m, d) - 1 + TURN_OF_ERAS = NumberOfDay(LateYear(m, y), LateMonth(m), d)
         /\ y \in Nat /\ 1 <= y /\ y <= 9999 /\ m \in 1..12 /\ d \in 1..31 /\ DAYDATE(y, m, d) \in Int
<1>1. y \in Nat /\ 1 <= y /\ y <= 9999 /\ m \in 1..12 /\ d \in 1..31
  BY ValidDay, SMT DEF IsDay, JulianLeapDay
<1>2. \/ d <= daysInMonth[m]
      \/ m = 2 /\ d = 29 /\ y % 4 = 0 /\ (y > 1581 /\ y % 100 = 0 => y % 400 = 0)
  <2>1. y % 100 = 0 \/ y % 400 = 0 => y % 4 = 0
    <3>1. y \in Nat
      BY <1>1, SMT
    <3> QED BY <3>1, LeapYears, SMT
  <2>2. CASE isValidDay(d, m, y)
    BY <2>1, <2>2, ValidDay, SMT
  <2>3. CASE JulianLeapDay(d, m, y)
    BY <2>1, <2>3, SMT DEF JulianLeapDay
  <2> QED BY <2>2, <2>3, SMT DEF IsDay
<1>3. d \in InMonth(LateMonth(m))
  BY <1>1, <1>2, MonthDays, SMT DEF InMonth, LateMonth, daysInMonth
<1>4. m = 2 => daysInMonth[m] = 28
  BY SMT DEF daysInMonth
<1>5. LateYear(m, y) \in Nat /\ LateYear(m, y) <= 9999 /\ LateMonth(m) \in 4..15 /\ (LateMonth(m) = 15 => m = 2)
  BY <1>1, SMT DEF LateYear, LateMonth
<1>6. m = 2 /\ d = 29 => /\ LateYear(m, y) % 4 = 3
                         /\ LateYear(m, y) >= 1582 /\ LateYear(m, y) % 100 = 99 => LateYear(m, y) % 400 = 399
  <2> DEFINE j == y - 1
  <2>1. j \in Nat /\ j + 1 = y
    BY <1>1, SMT
  <2>2. y > 1581 /\ y % 100 = 0 => y >= 1583
    BY <1>1, LeapYears, SMT
  <2>3. m = 2 /\ d = 29 => y % 4 = 0 /\ (y > 1581 /\ y % 100 = 0 => y % 400 = 0)
    BY <1>2, <1>4, SMT
  <2>4. m = 2 => LateYear(m, y) = j
    BY SMT DEF LateYear
  <2> HIDE DEF j
  <2>5. /\ j % 4 = 3 <=> y % 4 = 0
        /\ j % 100 = 99 <=> y % 100 = 0
        /\ j % 400 = 399 <=> y % 400 = 0
    BY <2>1, YearBefore, SMT
  <2>6. j >= 1582 => y > 1581
    BY <2>1, SMT
  <2> QED BY <2>3, <2>4, <2>5, <2>6, SMT
<1>7. ~(LateYear(m, y) = 1582 /\ LateMonth(m) = 11 /\ d \in 5..14)
  BY <1>1, SMT DEF LateYear, LateMonth, IsDay, Skipped
<1>8. MarchDay(LateYear(m, y), LateMonth(m), d)
  BY <1>3, <1>5, <1>6, <1>7, SMTT(30) DEF MarchDay
<1>9. Late(LateYear(m, y), LateMonth(m), d) <=> mustConvertToGregorian(y, m, d)
  BY <1>1, SMT DEF Late, LateYear, LateMonth, mustConvertToGregorian
<1>10. DaysBefore(LateMonth(m)) \in Int
  BY <1>5, MonthDays, SMT
<1>11. DAYDATE(y, m, d) - 1 + TURN_OF_ERAS = NumberOfDay(LateYear(m, y), LateMonth(m), d)
  <2>1. CASE mustConvertToGregorian(y, m, d)
    <3>1. NumberOfDay(LateYear(m, y), LateMonth(m), d)
            = (1461 * LateYear(m, y)) \div 4 + DaysBefore(LateMonth(m)) + d + 1720995
              + (2 - (LateYear(m, y) \div 100) + ((LateYear(m, y) \div 100) \div 4))
      BY <2>1, <1>9, SMT DEF NumberOfDay
    <3> QED BY <1>1, <2>1, <3>1, SMT DEF DAYDATE, DaysBefore, LateYear, LateMonth, TURN_OF_ERAS
  <2>2. CASE ~mustConvertToGregorian(y, m, d)
    <3>1. NumberOfDay(LateYear(m, y), LateMonth(m), d)
            = (1461 * LateYear(m, y)) \div 4 + DaysBefore(LateMonth(m)) + d + 1720995 + 0
      BY <2>2, <1>9, SMT DEF NumberOfDay
    <3> QED BY <1>1, <2>2, <3>1, SMT DEF DAYDATE, DaysBefore, LateYear, LateMonth, TURN_OF_ERAS
  <2> QED BY <2>1, <2>2, SMT
<1>12. DAYDATE(y, m, d) \in Int
  BY <1>1, SMT DEF DAYDATE, TURN_OF_ERAS
<1>13. YearOfDay(LateYear(m, y), LateMonth(m)) = y /\ MonthOfDay(LateMonth(m)) = m
  BY <1>1, SMT DEF YearOfDay, MonthOfDay, LateYear, LateMonth
<1> QED BY <1>1, <1>8, <1>11, <1>12, <1>13, SMT

\* A day that is counted from March, by month and year.
LEMMA DaysAgreeBack ==
  ASSUME NEW j, NEW k, NEW d, MarchDay(j, k, d), YearOfDay(j, k) \in Nat /\ 1 <= YearOfDay(j, k) /\ YearOfDay(j, k) <= 9999
  PROVE  /\ IsDay(d, MonthOfDay(k), YearOfDay(j, k))
         /\ LateYear(MonthOfDay(k), YearOfDay(j, k)) = j /\ LateMonth(MonthOfDay(k)) = k
<1> DEFINE y == YearOfDay(j, k)  m == MonthOfDay(k)
<1>1. j \in Nat /\ j <= 9999 /\ k \in 4..15 /\ d \in InMonth(k)
  BY SMT DEF MarchDay
<1>2. d \in 1..31
  BY <1>1, MonthOf, SMT
<1>3. y = (IF k > 13 THEN j + 1 ELSE j) /\ m = (IF k > 13 THEN k - 13 ELSE k - 1)
  BY SMT DEF YearOfDay, MonthOfDay
<1>4. LateYear(m, y) = j /\ LateMonth(m) = k
  <2> HIDE DEF y, m
  <2> QED BY <1>1, <1>3, SMT DEF LateYear, LateMonth
<1>5. m \in 1..12 /\ (m = 2 <=> k = 15) /\ (k = 15 => y = j + 1) /\ (m = 10 => k = 11 /\ y = j)
  <2> HIDE DEF y, m
  <2> QED BY <1>1, <1>3, SMT
<1>6. y \in Nat /\ 1 <= y /\ y <= 9999
  BY SMT
<1>7. d <= daysInMonth[m] \/ (m = 2 /\ d = 29)
  <2> HIDE DEF y, m
  <2>1. m = IF k > 13 THEN k - 13 ELSE k - 1
    BY <1>3, SMT
  <2> QED BY <1>1, <2>1, MonthDays, SMT DEF InMonth, daysInMonth
<1> HIDE DEF y, m
<1>8. ~Skipped(d, m, y)
  <2>1. ~(j = 1582 /\ k = 11 /\ d \in 5..14)
    BY SMT DEF MarchDay
  <2> QED BY <1>5, <2>1, SMT DEF Skipped
<1>9. IsDay(d, m, y)
  <2>1. CASE d <= daysInMonth[m]
    <3>1. isValidDay(d, m, y)
      BY <1>2, <1>5, <1>6, <2>1, ValidDay, SMT
    <3> QED BY <1>8, <3>1, SMT DEF IsDay
  <2>2. CASE m = 2 /\ d = 29
    <3>1. j \in Nat /\ y = j + 1 /\ y \in Nat
      BY <1>1, <1>5, <1>6, <2>2, SMT
    <3>2. j % 4 = 3 /\ (j >= 1582 /\ j % 100 = 99 => j % 400 = 399)
      BY <1>5, <2>2, SMT DEF MarchDay
    <3>3. /\ j % 4 = 3 <=> y % 4 = 0
          /\ j % 100 = 99 <=> y % 100 = 0
          /\ j % 400 = 399 <=> y % 400 = 0
      BY <3>1, YearBefore, SMT
    <3>4. CASE y % 100 # 0 \/ y % 400 = 0
      <4>1. isValidDay(d, m, y)
        BY <1>6, <2>2, <3>2, <3>3, <3>4, ValidDay, SMT
      <4> QED BY <1>8, <4>1, SMT DEF IsDay
    <3>5. CASE y % 100 = 0 /\ y % 400 # 0
      <4>1. y < 1583
        BY <3>1, <3>2, <3>3, <3>5, SMT
      <4>2. y % 100 = 0 /\ y < 1583 => y <= 1581
        BY <3>1, LeapYears, SMT
      <4>3. y \in Nat /\ 1 <= y /\ y <= 1581
        BY <1>6, <3>1, <3>5, <4>1, <4>2, SMT
      <4> QED BY <1>8, <2>2, <3>5, <4>3, SMT DEF JulianLeapDay, IsDay
    <3> QED BY <3>4, <3>5, SMT
  <2> QED BY <1>7, <2>1, <2>2, SMT
<1> QED BY <1>4, <1>9, SMT DEF y, m

\* DATE finds the day that DAYDATE has counted.
THEOREM DaysComeBack ==
  ASSUME NEW y, NEW m, NEW d, IsDay(d, m, y)
  PROVE  DATE(DAYDATE(y, m, d)) = [y |-> y, m |-> m, d |-> d]
<1> DEFINE j == LateYear(m, y)  k == LateMonth(m)
<1>1. /\ MarchDay(j, k, d) /\ YearOfDay(j, k) = y /\ MonthOfDay(k) = m
      /\ DAYDATE(y, m, d) - 1 + TURN_OF_ERAS = NumberOfDay(j, k, d) /\ DAYDATE(y, m, d) \in Int
  BY DaysAgree, SMT
<1> HIDE DEF j, k
<1>2. DATE(DAYDATE(y, m, d)) = DateOf(Shifted(NumberOfDay(j, k, d)) + 1524)
  BY <1>1, DateForm, SMT
<1>3. DateOf(Shifted(NumberOfDay(j, k, d)) + 1524) = [y |-> YearOfDay(j, k), m |-> MonthOfDay(k), d |-> d]
  BY <1>1, DateOfNumber, SMT DEF YearOfDay, MonthOfDay
<1> QED BY <1>1, <1>2, <1>3, SMT

\* The numbers of days.
THEOREM DaysInRange ==
  ASSUME NEW y, NEW m, NEW d, IsDay(d, m, y)
  PROVE  DAYDATE(y, m, d) \in 1..LastDay
<1> DEFINE j == LateYear(m, y)  k == LateMonth(m)  g == DaysBefore(k) + d
<1>1. /\ MarchDay(j, k, d) /\ YearOfDay(j, k) = y /\ y \in Nat /\ 1 <= y /\ y <= 9999
      /\ DAYDATE(y, m, d) - 1 + TURN_OF_ERAS = NumberOfDay(j, k, d) /\ DAYDATE(y, m, d) \in Int
  BY DaysAgree, SMT
<1> HIDE DEF j, k
<1>2. j \in Nat /\ j <= 9999 /\ k \in 4..15 /\ d \in 1..31 /\ DaysBefore(k) \in Int /\ g \in 123..488
  BY <1>1, DayFacts, SMTT(30)
<1>3. (j = 0 => g >= 429) /\ (j = 9999 => g <= 428)
  <2>1. (j = 0 => k > 13) /\ (j = 9999 => k <= 13)
    <3>1. y \in Nat /\ 1 <= y /\ y <= 9999 /\ YearOfDay(j, k) = y
      BY <1>1, SMT
    <3>2. y = IF k > 13 THEN j + 1 ELSE j
      BY <3>1, SMT DEF YearOfDay
    <3> QED BY <1>2, <3>1, <3>2, SMTT(30)
  <2>2. k > 13 => DaysBefore(k) >= 428
    BY <1>2, MonthDays, SMT
  <2>3. k <= 13 => DaysBefore(k) + d <= 428
    <3>1. d \in InMonth(k)
      BY <1>1, SMT DEF MarchDay
    <3> QED BY <1>2, <3>1, MonthDays, SMT DEF InMonth
  <2> QED BY <1>2, <2>1, <2>2, <2>3, SMT
<1>4. (j >= 1583 => Late(j, k, d)) /\ (j < 1582 => ~Late(j, k, d))
  BY <1>2, SMT DEF Late
<1> HIDE DEF g
<1>5. NumberOfDay(j, k, d) = IF Late(j, k, d) THEN GregorianNumber(j, g) ELSE JulianNumber(j, g)
  BY <1>2, SMT DEF NumberOfDay, GregorianNumber, JulianNumber, g
<1>6. NumberOfDay(j, k, d) >= TURN_OF_ERAS /\ NumberOfDay(j, k, d) <= TURN_OF_ERAS - 1 + LastDay
  <2>1. CASE Late(j, k, d)
    <3>1. j \in Nat /\ 1582 <= j /\ j <= 9999 /\ g \in 123..488 /\ (j = 9999 => g <= 428)
      BY <1>2, <1>3, <1>4, <2>1, SMT
    <3>2. GregorianNumber(j, g) >= 1721424 /\ GregorianNumber(j, g) <= 5373484
      BY <3>1, SMT DEF GregorianNumber
    <3>3. NumberOfDay(j, k, d) >= 1721424 /\ NumberOfDay(j, k, d) <= 5373484
      BY <1>5, <2>1, <3>2, SMT
    <3> QED BY <3>3, LastNumber, SMT DEF TURN_OF_ERAS
  <2>2. CASE ~Late(j, k, d)
    <3>1. j \in Nat /\ j <= 1582 /\ g \in 123..488 /\ (j = 0 => g >= 429)
      BY <1>2, <1>3, <1>4, <2>2, SMT
    <3>2. JulianNumber(j, g) >= 1721424 /\ JulianNumber(j, g) <= 5373484
      BY <3>1, SMT DEF JulianNumber
    <3>3. NumberOfDay(j, k, d) >= 1721424 /\ NumberOfDay(j, k, d) <= 5373484
      BY <1>5, <2>2, <3>2, SMT
    <3> QED BY <3>3, LastNumber, SMT DEF TURN_OF_ERAS
  <2> QED BY <2>1, <2>2, SMT
<1>7. DAYDATE(y, m, d) - 1 + TURN_OF_ERAS >= TURN_OF_ERAS
      /\ DAYDATE(y, m, d) - 1 + TURN_OF_ERAS <= TURN_OF_ERAS - 1 + LastDay
  BY <1>1, <1>6, SMT
<1>8. 1 <= DAYDATE(y, m, d) /\ DAYDATE(y, m, d) <= LastDay
  BY <1>1, <1>7, LastDayInt, SMT DEF TURN_OF_ERAS
<1> QED BY <1>1, <1>8, LastDayInt, InRange, SMT

\* Each number is read as a day, and is the number of this day.
THEOREM NumbersComeBack ==
  ASSUME NEW n \in 1..LastDay
  PROVE  LET r == DATE(n) IN IsDay(r.d, r.m, r.y) /\ DAYDATE(r.y, r.m, r.d) = n
<1> DEFINE Z == n - 1 + TURN_OF_ERAS
<1>1. Z \in Int /\ n \in Int /\ Z > TURN_OF_ERAS - 1 /\ Z <= TURN_OF_ERAS - 1 + LastDay
  <2>1. n \in Int /\ 1 <= n /\ n <= LastDay
    BY LastDayInt, InRange, SMT
  <2> QED BY <2>1, LastDayInt, SMT DEF TURN_OF_ERAS
<1>2. PICK j, k, d : MarchDay(j, k, d) /\ NumberOfDay(j, k, d) = Z
  <2> HIDE DEF Z
  <2>1. Z < GREGORIAN \/ Z >= GREGORIAN
    BY <1>1, SMT DEF GREGORIAN
  <2> QED BY <1>1, <2>1, JulianDayExists, GregorianDayExists, SMT
<1> DEFINE y == YearOfDay(j, k)  m == MonthOfDay(k)
<1>3. j \in Nat /\ j <= 9999 /\ k \in 4..15 /\ d \in 1..31 /\ DaysBefore(k) \in Int /\ DaysBefore(k) + d \in 123..488
  BY <1>2, DayFacts, SMT
<1>4. y \in Nat /\ 1 <= y /\ y <= 9999
  <2> DEFINE g == DaysBefore(k) + d
  <2>1. Z = IF Late(j, k, d) THEN GregorianNumber(j, g) ELSE JulianNumber(j, g)
    BY <1>2, <1>3, SMT DEF NumberOfDay, GregorianNumber, JulianNumber
  <2>2. (j >= 1583 => Late(j, k, d)) /\ (j < 1582 => ~Late(j, k, d))
    BY <1>3, SMT DEF Late
  <2>3. k <= 13 => g <= 428
    <3>1. d \in InMonth(k)
      BY <1>2, SMT DEF MarchDay
    <3> QED BY <1>3, <3>1, MonthDays, SMT DEF InMonth
  <2>4. k > 13 => g >= 429
    BY <1>3, MonthDays, SMT
  <2>5. g \in 123..488
    BY <1>3, SMT
  <2> HIDE DEF g, Z
  <2>6. j = 0 => k > 13
    <3>1. CASE j = 0
      <4>1. Z = g + 1720995
        BY <2>1, <2>2, <2>5, <3>1, SMT DEF JulianNumber
      <4>2. g >= 429
        BY <1>1, <2>5, <4>1, SMT DEF TURN_OF_ERAS
      <4> QED BY <1>3, <2>3, <2>5, <4>2, SMT
    <3> QED BY <3>1, SMT
  <2>7. j = 9999 => k <= 13
    <3>1. CASE j = 9999
      <4>1. Z = GregorianNumber(9999, g)
        BY <2>1, <2>2, <2>5, <3>1, SMT
      <4>2. g <= 428
        <5>1. (1461 * 9999) \div 4 = 3652134 /\ 9999 \div 100 = 99 /\ 99 \div 4 = 24
          BY SMT
        <5>2. Z = 3652134 + g + 1720997 - 99 + 24
          BY <4>1, <5>1, SMT DEF GregorianNumber
        <5>3. Z <= 5373484
          BY <1>1, LastNumber, SMT
        <5> QED BY <2>5, <5>2, <5>3, SMT
      <4> QED BY <1>3, <2>4, <2>5, <4>2, SMT
    <3> QED BY <3>1, SMT
  <2> QED BY <1>3, <2>6, <2>7, SMTT(30) DEF YearOfDay
<1>5. IsDay(d, m, y) /\ LateYear(m, y) = j /\ LateMonth(m) = k
  BY <1>2, <1>4, DaysAgreeBack, SMTT(30)
<1>6. DATE(n) = [y |-> y, m |-> m, d |-> d]
  <2>1. DATE(n) = DateOf(Shifted(NumberOfDay(j, k, d)) + 1524)
    BY <1>1, <1>2, DateForm, SMT
  <2> QED BY <1>2, <2>1, DateOfNumber, SMT DEF YearOfDay, MonthOfDay
<1>7. DAYDATE(y, m, d) - 1 + TURN_OF_ERAS = Z /\ DAYDATE(y, m, d) \in Int
  BY <1>2, <1>5, DaysAgree, SMT
<1>8. DAYDATE(y, m, d) = n
  BY <1>1, <1>7, SMT DEF TURN_OF_ERAS
<1> HIDE DEF y, m
<1> QED BY <1>5, <1>6, <1>8, SMT
-----------------------------------------------------------------------------
(* Columns of days and times. *)

\* Dividing takes a sum apart.
LEMMA Quotient ==
  ASSUME NEW n \in Nat, n # 0, NEW q \in Nat, NEW r \in Nat, r < n
  PROVE  (q * n + r) \div n = q /\ (q * n + r) % n = r
BY SMTT(30)

\* r units of n, and how many there can be.
LEMMA Below ==
  ASSUME NEW n \in Nat, NEW k \in Nat, NEW q \in Nat, NEW r \in Nat, r < n, q < k
  PROVE  q * n + r \in Nat /\ q * n + r < k * n
<1>1. q * n + r \in Nat /\ (q + 1) * n = q * n + n
  BY SMT
<1>2. (q + 1) * n <= k * n
  BY SMT
<1> QED BY <1>1, <1>2, SMT

\* The parts of a day are positive numbers.
LEMMA Clocks ==
  /\ HOURS \in Nat /\ MINUTES \in Nat /\ SECONDS \in Nat /\ TICKS \in Nat
  /\ HOURS # 0 /\ MINUTES # 0 /\ SECONDS # 0 /\ TICKS # 0
BY ClockAssumption, SMT

\* The seconds of a day, and the time that they are.
LEMMA TimesOfDay ==
  ASSUME NEW v, isValidTime(v)
  PROVE  /\ SecondsOf(v) \in Nat /\ DaySeconds \in Nat /\ DaySeconds # 0 /\ SecondsOf(v) < DaySeconds
         /\ Clock(SecondsOf(v)) = Time(v)
<1> DEFINE h == v.h  mi == v.mi  s == v.s  minutes == h * MINUTES + mi
<1>1. h \in Nat /\ h < HOURS /\ mi \in Nat /\ mi < MINUTES /\ s \in Nat /\ s < SECONDS
  BY Clocks, SMT DEF isValidTime
<1> HIDE DEF h, mi, s
<1>2. minutes \in Nat /\ minutes < HOURS * MINUTES /\ HOURS * MINUTES \in Nat
  BY <1>1, Clocks, Below, SMT
<1>3. minutes \div MINUTES = h /\ minutes % MINUTES = mi
  BY <1>1, Clocks, Quotient, SMT
<1> HIDE DEF minutes
<1>4. minutes * SECONDS + s \in Nat /\ minutes * SECONDS + s < (HOURS * MINUTES) * SECONDS
  BY <1>1, <1>2, Clocks, Below, SMT
<1>5. (minutes * SECONDS + s) \div SECONDS = minutes /\ (minutes * SECONDS + s) % SECONDS = s
  BY <1>1, <1>2, Clocks, Quotient, SMT
<1>6. SecondsOf(v) = minutes * SECONDS + s
  BY Zenon DEF SecondsOf, minutes, h, mi, s
<1>7. DaySeconds = (HOURS * MINUTES) * SECONDS
  BY Zenon DEF DaySeconds
<1>8. DaySeconds \in Nat /\ DaySeconds # 0
  BY <1>2, <1>4, <1>7, Clocks, SMT
<1>9. Clock(minutes * SECONDS + s) = [h |-> h, mi |-> mi, s |-> s]
  BY <1>3, <1>5, SMT DEF Clock
<1>10. Clock(SecondsOf(v)) = Time(v)
  BY <1>6, <1>9, SMT DEF Time, h, mi, s
<1> QED BY <1>4, <1>6, <1>7, <1>8, <1>10, SMT

\* A day that is valid is not the zero day, and one that has a number.
LEMMA DayNumbers ==
  ASSUME NEW y, NEW m, NEW d, isValidDay(d, m, y), ~Skipped(d, m, y)
  PROVE  /\ DAYDATE(y, m, d) \in Int /\ 1 <= DAYDATE(y, m, d) /\ DAYDATE(y, m, d) <= LastDay
         /\ DATE(DAYDATE(y, m, d)) = [y |-> y, m |-> m, d |-> d] /\ ~isZeroDay(d, m, y)
<1>1. IsDay(d, m, y)
  BY SMT DEF IsDay
<1>2. DAYDATE(y, m, d) \in 1..LastDay
  BY <1>1, DaysInRange, SMT
<1>3. ~isZeroDay(d, m, y)
  BY ValidDay, SMT DEF isZeroDay
<1> QED BY <1>1, <1>2, <1>3, DaysComeBack, LastDayInt, InRange, SMT

\* Writer and Reader, DAYDATE: whatever the day, it is written, none is taken for NULL, and what is
\* read from the column is the day again.
THEOREM DayDatesKept ==
  ASSUME NEW v, v.kind = "date", isValidDay(v.d, v.m, v.y), ~Skipped(v.d, v.m, v.y),
         NEW bytes, NEW off, Take(bytes, off, 4) = WriteDayDate(v).cells[1].v
  PROVE  ~WriteDayDate(v).refused /\ readDayDate(bytes, off) = Got(Day(v), off + 4)
<1> DEFINE n == DAYDATE(v.y, v.m, v.d)
<1>1. /\ n \in Int /\ 1 <= n /\ n <= LastDay /\ LastDay \in Int
      /\ DATE(n) = Day(v) /\ ~isZeroDay(v.d, v.m, v.y)
  BY DayNumbers, LastDayInt, SMT DEF Day
<1> HIDE DEF n
<1>2. WriteDayDate(v) = Field("DAYDATE", <<Cell(4, Num(n))>>)
  BY <1>1, SMT DEF WriteDayDate, n
<1>3. Take(bytes, off, 4).int = n
  BY <1>2, SMT DEF Field, Cell, Num
<1>4. n \notin {LastDay + 1, 0}
  BY <1>1, SMT
<1> QED BY <1>1, <1>2, <1>3, <1>4, SMT DEF readDayDate, Field

\* SECONDTIME: the same of times.
THEOREM SecondTimesKept ==
  ASSUME NEW v, v.kind = "time", isValidTime(v),
         NEW bytes, NEW off, Take(bytes, off, 4) = WriteSecondTime(v).cells[1].v
  PROVE  ~WriteSecondTime(v).refused /\ readSecondTime(bytes, off) = Got(Time(v), off + 4)
<1> DEFINE n == SecondsOf(v)
<1>1. n \in Nat /\ DaySeconds \in Nat /\ n < DaySeconds /\ Clock(n) = Time(v)
  BY TimesOfDay, SMT
<1> HIDE DEF n
<1>2. WriteSecondTime(v) = Field("SECONDTIME", <<Cell(4, Num(n + 1))>>)
  BY SMT DEF WriteSecondTime, n
<1>3. Take(bytes, off, 4).int = n + 1
  BY <1>2, SMT DEF Field, Cell, Num
<1>4. n + 1 \notin {DaySeconds + 2, 0} /\ (n + 1) - 1 = n
  BY <1>1, SMT
<1> QED BY <1>1, <1>2, <1>3, <1>4, SMT DEF readSecondTime, Field

\* SECONDDATE: the same of a day with a time.
THEOREM SecondDatesKept ==
  ASSUME NEW v, v.kind = "timestamp", isValidDay(v.d, v.m, v.y), ~Skipped(v.d, v.m, v.y), isValidTime(v),
         NEW bytes, NEW off, Take(bytes, off, 8) = WriteMoment("SECONDDATE", v).cells[1].v
  PROVE  /\ ~WriteMoment("SECONDDATE", v).refused
         /\ readSecondDate(bytes, off) = Got(Day(v) @@ Time(v), off + 8)
<1> DEFINE n == DAYDATE(v.y, v.m, v.d)  q == n - 1  t == SecondsOf(v)  x == q * DaySeconds + t
<1>1. /\ n \in Int /\ q \in Nat /\ q < LastDay /\ LastDay \in Nat
      /\ DATE(n) = Day(v) /\ ~isZeroDay(v.d, v.m, v.y)
  BY DayNumbers, LastDayInt, SMT DEF Day
<1>2. t \in Nat /\ DaySeconds \in Nat /\ DaySeconds # 0 /\ t < DaySeconds /\ Clock(t) = Time(v)
  BY TimesOfDay, SMT
<1>3. q + 1 = n
  BY <1>1, SMT
<1> HIDE DEF n, q, t
<1>4. WriteMoment("SECONDDATE", v) = Field("SECONDDATE", <<Cell(8, Num(x + 1))>>)
  BY <1>1, SMT DEF WriteMoment, n, q, t
<1>5. x \in Nat /\ x < LastDay * DaySeconds /\ LastDay * DaySeconds \in Nat
  BY <1>1, <1>2, Below, SMT
<1>6. x \div DaySeconds = q /\ x % DaySeconds = t
  <2>1. q \in Nat /\ t \in Nat /\ DaySeconds \in Nat /\ DaySeconds # 0 /\ t < DaySeconds
    BY <1>1, <1>2, SMT
  <2> QED BY <2>1, Quotient, SMT
<1> HIDE DEF x
<1>7. Take(bytes, off, 8).int = x + 1
  BY <1>4, SMT DEF Field, Cell, Num
<1>8. x + 1 \notin {LastDay * DaySeconds + 1, 0} /\ (x + 1) - 1 = x
  BY <1>5, SMT
<1> QED BY <1>1, <1>2, <1>3, <1>4, <1>6, <1>7, <1>8, SMT DEF readSecondDate, Field

\* LONGDATE: the same with the parts of a second, which are fewer than TICKS.
THEOREM LongDatesKept ==
  ASSUME NEW v, v.kind = "timestamp", isValidDay(v.d, v.m, v.y), ~Skipped(v.d, v.m, v.y), isValidTime(v),
         TicksOf(v) \in 0..TICKS - 1,
         NEW bytes, NEW off, Take(bytes, off, 8) = WriteMoment("LONGDATE", v).cells[1].v
  PROVE  /\ ~WriteMoment("LONGDATE", v).refused
         /\ readLongDate(bytes, off) = Got(Day(v) @@ Time(v) @@ [ticks |-> TicksOf(v)], off + 8)
<1> DEFINE n == DAYDATE(v.y, v.m, v.d)  q == n - 1  t == SecondsOf(v)  x == q * DaySeconds + t
           f == TicksOf(v)  z == x * TICKS + f + 1
           part == z % TICKS
           secondDate == IF part = 0 THEN z \div TICKS - 1 ELSE z \div TICKS
           fraction == IF part = 0 THEN TICKS - 1 ELSE part - 1
<1>1. /\ n \in Int /\ q \in Nat /\ q < LastDay /\ LastDay \in Nat
      /\ DATE(n) = Day(v) /\ ~isZeroDay(v.d, v.m, v.y)
  BY DayNumbers, LastDayInt, SMT DEF Day
<1>2. t \in Nat /\ DaySeconds \in Nat /\ DaySeconds # 0 /\ t < DaySeconds /\ Clock(t) = Time(v)
  BY TimesOfDay, SMT
<1>3. q + 1 = n
  BY <1>1, SMT
<1>4. f \in Nat /\ f < TICKS
  BY Clocks, SMT
<1> HIDE DEF n, q, t, f
<1>5. x \in Nat /\ x < LastDay * DaySeconds /\ LastDay * DaySeconds \in Nat
  BY <1>1, <1>2, Below, SMT
<1>6. x \div DaySeconds = q /\ x % DaySeconds = t
  <2>1. q \in Nat /\ t \in Nat /\ DaySeconds \in Nat /\ DaySeconds # 0 /\ t < DaySeconds
    BY <1>1, <1>2, SMT
  <2> QED BY <2>1, Quotient, SMT
<1>7. WriteMoment("LONGDATE", v) = Field("LONGDATE", <<Cell(8, Num(z))>>)
  <2>1. WriteMoment("LONGDATE", v)
          = Field("LONGDATE", <<Cell(8, Num(q * (DaySeconds * TICKS) + (t * TICKS + f) + 1))>>)
    BY <1>1, SMT DEF WriteMoment, n, q, t, f
  <2>2. q * (DaySeconds * TICKS) + (t * TICKS + f) + 1 = z
    BY <1>1, <1>2, <1>4, Clocks, SMT
  <2> QED BY <2>1, <2>2, SMT
<1> HIDE DEF x
<1>8. x * TICKS + f \in Nat /\ x * TICKS + f < (LastDay * DaySeconds) * TICKS
  BY <1>4, <1>5, Clocks, Below, SMT
<1>9. z \notin {LastDay * DaySeconds * TICKS + 1, 0}
  <2> DEFINE w == x * TICKS + f  last == LastDay * DaySeconds * TICKS
  <2>1. w \in Nat /\ last \in Nat /\ w < last
    BY <1>5, <1>8, Clocks, SMT
  <2>2. z = w + 1
    BY SMT
  <2> HIDE DEF w, last, z
  <2>3. z \notin {last + 1, 0}
    BY <2>1, <2>2, SMT
  <2> QED BY <2>3, SMT DEF last
<1>10. secondDate = x /\ fraction = f
  <2>1. CASE f + 1 < TICKS
    <3> DEFINE r == f + 1
    <3>1. r \in Nat /\ r < TICKS /\ r # 0 /\ r - 1 = f /\ z = x * TICKS + r
      BY <1>4, <1>5, <2>1, Clocks, SMT
    <3> HIDE DEF r, z
    <3>2. (x * TICKS + r) \div TICKS = x /\ (x * TICKS + r) % TICKS = r
      <4>1. x \in Nat /\ r \in Nat /\ r < TICKS /\ TICKS \in Nat /\ TICKS # 0
        BY <1>5, <3>1, Clocks, SMT
      <4> QED BY <4>1, Quotient, Zenon
    <3>3. z \div TICKS = x /\ z % TICKS = r
      BY <3>1, <3>2, SMT
    <3> QED BY <3>1, <3>3, SMT
  <2>2. CASE f + 1 = TICKS
    <3>1. z = (x + 1) * TICKS + 0
      BY <1>4, <1>5, <2>2, Clocks, SMT
    <3>2. ((x + 1) * TICKS + 0) \div TICKS = x + 1 /\ ((x + 1) * TICKS + 0) % TICKS = 0
      <4>1. x + 1 \in Nat /\ 0 < TICKS
        BY <1>5, Clocks, SMT
      <4> QED BY <4>1, Clocks, Quotient, SMT
    <3> HIDE DEF z
    <3>3. z \div TICKS = x + 1 /\ z % TICKS = 0
      BY <3>1, <3>2, SMT
    <3> QED BY <1>4, <1>5, <2>2, <3>3, SMT
  <2> QED BY <1>4, <2>1, <2>2, Clocks, SMT
<1>11. Take(bytes, off, 8).int = z
  <2> HIDE DEF z
  <2> QED BY <1>7, SMT DEF Field, Cell, Num
<1>12. DATE(x \div DaySeconds + 1) = Day(v) /\ Clock(x % DaySeconds) = Time(v)
  BY <1>1, <1>2, <1>3, <1>6, SMT
<1> HIDE DEF z
<1>13. readLongDate(bytes, off)
         = Got(DATE(secondDate \div DaySeconds + 1) @@ Clock(secondDate % DaySeconds) @@ [ticks |-> fraction], off + 8)
  BY <1>9, <1>11, SMT DEF readLongDate
<1> HIDE DEF secondDate, fraction
<1> QED BY <1>7, <1>10, <1>12, <1>13, SMT DEF Field, f

-----------------------------------------------------------------------------
(* What the Writer refuses. *)

Types == {"TINYINT", "SMALLINT", "INT", "BIGINT", "REAL", "DOUBLE", "FIXED8", "FIXED12", "FIXED16", "DECIMAL",
          "STRING", "ALPHANUM", "BINARY", "ST_GEOMETRY", "DATE", "TIME", "TIMESTAMP", "DAYDATE", "SECONDTIME",
          "SECONDDATE", "LONGDATE", "BOOLEAN", "REAL_VECTOR", "BLOB", "CLOB", "NCLOB"}

\* The parts of a second are none.
NoFraction(v) == strToNumLen(v.f, Len(Digits[TICKS]) - 1 + 2) = 0

\* A value as a column gets it: what is to be an integer has been converted (nan: it was none),
\* times and lengths are what the regular expressions and buffers give.  Days are those about which
\* the calendar and the check of a day agree (calendar.js:24-62, 101-130): neither one of the ten
\* days that the calendar left out, nor a leap day that only the Julian calendar had.  What the
\* recursive functions compute is left to TLC: there are no DECIMAL and FIXED columns, a fraction
\* of a second has at most 999 milliseconds, and is none when all its digits are zero.
Expected(col, v) ==
  /\ col.type \in Types \ {"FIXED8", "FIXED12", "FIXED16", "DECIMAL"}
  /\ col.type \in DOMAIN Bounds => v.kind \in {"null", "nan", "int"}
  /\ col.type = "BIGINT" => v.kind \in {"null", "nan", "big"}
  /\ col.type \in {"DAYDATE", "SECONDDATE", "LONGDATE"} /\ v.kind \in {"date", "timestamp"} =>
       ~Skipped(v.d, v.m, v.y) /\ ~JulianLeapDay(v.d, v.m, v.y)
  /\ v.kind \in {"time", "timestamp"} => v.s \in Nat /\ strToNumLen(v.f, 3) \in 0..999
  /\ v.kind = "timestamp" => (NoFraction(v) <=> \A i \in DOMAIN v.f : v.f[i] = 0)
  /\ v.kind = "array" => v.n \in Nat
  /\ col.type = "REAL_VECTOR" /\ v.kind = "buffer" => v.length \in Nat /\ v.count \in Nat

StatementsExpected ==
  \A s \in Statements :
    /\ Len(s.cols) \in Nat /\ Len(s.cols) # 0
    /\ \A i \in 1..Len(s.cols) : Expected(s.cols[i], s.values[i])

\* The types whose bounds or sizes are tables.
LEMMA Tabled == /\ DOMAIN Bounds = {"TINYINT", "SMALLINT", "INT"}
                /\ DOMAIN Halves = {"FIXED8", "FIXED12", "FIXED16"}
<1>1. DOMAIN Bounds = {"TINYINT", "SMALLINT", "INT"}
  BY SMT DEF Bounds
<1>2. DOMAIN Halves = {"FIXED8", "FIXED12", "FIXED16"}
  BY SMT DEF Halves
<1> QED BY <1>1, <1>2, SMT

\* What is refused says so, and a field that is pushed says that it is not.
LEMMA Refusals == REFUSED.refused /\ \A code, cells : ~Field(code, cells).refused
BY SMT DEF REFUSED, Field

\* Integers: what Node refuses is what the bytes cannot hold.
LEMMA IntegersRefused ==
  ASSUME NEW col, NEW v, Expected(col, v), v.kind # "null", col.type \in DOMAIN Bounds
  PROVE  Write(col, v).refused <=> ~Fits(col, v)
<1>1. Write(col, v) = WriteInteger(col.type, v)
  BY Tabled, SMT DEF Write
<1>2. Fits(col, v) <=> v.kind = "int" /\ v.n \in Bounds[col.type]
  BY Tabled, Zenon DEF Fits
<1>3. v.kind \in {"nan", "int"}
  BY SMT DEF Expected
<1> QED BY <1>1, <1>2, <1>3, Refusals, SMT DEF WriteInteger

\* BIGINT, REAL and DOUBLE: what is refused is no number, and no column can hold it.
LEMMA NumbersRefused ==
  ASSUME NEW col, NEW v, Expected(col, v), v.kind # "null",
         col.type \in {"BIGINT", "REAL", "DOUBLE"}, Write(col, v).refused
  PROVE  ~Fits(col, v)
<1>1. col.type \notin DOMAIN Bounds /\ col.type \notin DOMAIN Halves
  BY Tabled, SMT
<1>2. CASE col.type = "BIGINT"
  <2>1. Write(col, v) = WriteBigInt(v)
    BY <1>1, <1>2, SMT DEF Write
  <2>2. Fits(col, v) => v.kind = "big"
    BY <1>1, <1>2, Zenon DEF Fits
  <2> QED BY <2>1, <2>2, Refusals, SMT DEF WriteBigInt
<1>3. CASE col.type \in {"REAL", "DOUBLE"}
  <2>0. col.type # "BIGINT"
    BY <1>3, SMT
  <2>1. Write(col, v) = WriteReal(col.type, v)
    BY <1>1, <1>3, <2>0, Zenon DEF Write
  <2>2. Fits(col, v) => v.kind \in {"double", "large"}
    <3>1. CASE col.type = "REAL"
      <4>1. Fits(col, v) <=> v.kind = "double"
        BY <1>1, <3>1, Zenon DEF Fits
      <4> QED BY <4>1, SMT
    <3>2. CASE col.type = "DOUBLE"
      <4>1. Fits(col, v) <=> v.kind \in {"double", "large"}
        BY <1>1, <3>2, Zenon DEF Fits
      <4> QED BY <4>1
    <3> QED BY <1>3, <3>1, <3>2, SMT
  <2> QED BY <2>1, <2>2, Refusals, SMT DEF WriteReal
<1> QED BY <1>2, <1>3, SMT

\* Strings, binaries, geometries and LOBs: what counts is what was passed.
LEMMA BytesRefused ==
  ASSUME NEW col, NEW v, v.kind # "null",
         col.type \in {"STRING", "ALPHANUM", "BINARY", "ST_GEOMETRY", "BLOB", "CLOB", "NCLOB"}
  PROVE  Write(col, v).refused <=> ~Fits(col, v)
<1>1. col.type \notin DOMAIN Bounds /\ col.type \notin DOMAIN Halves
  BY Tabled, SMT
<1>2. ASSUME col.type \in {"STRING", "ALPHANUM"}
      PROVE  Write(col, v).refused <=> ~Fits(col, v)
  <2>1. Write(col, v) = WriteBytes(col, v)
    BY <1>1, <1>2, Zenon DEF Write
  <2>2. Fits(col, v) <=> v.kind = "string"
    BY <1>1, <1>2, Zenon DEF Fits
  <2>3. v.kind = "string" => WriteBytes(col, v) = createBinaryOutBuffer("STRING", v)
    BY <1>2, Zenon DEF WriteBytes
  <2>4. v.kind # "string" => WriteBytes(col, v) = REFUSED
    BY <1>2, Zenon DEF WriteBytes
  <2> QED BY <2>1, <2>2, <2>3, <2>4, Refusals, Zenon DEF createBinaryOutBuffer
<1>3. ASSUME col.type = "BINARY"
      PROVE  Write(col, v).refused <=> ~Fits(col, v)
  <2>1. Write(col, v) = WriteBytes(col, v)
    BY <1>1, <1>3, Zenon DEF Write
  <2>2. Fits(col, v) <=> v.kind = "buffer"
    BY <1>1, <1>3, Zenon DEF Fits
  <2>3. v.kind = "buffer" => WriteBytes(col, v) = createBinaryOutBuffer("BINARY", v)
    BY <1>3, Zenon DEF WriteBytes
  <2>4. v.kind # "buffer" => WriteBytes(col, v) = REFUSED
    BY <1>3, Zenon DEF WriteBytes
  <2> QED BY <2>1, <2>2, <2>3, <2>4, Refusals, Zenon DEF createBinaryOutBuffer
<1>4. ASSUME col.type = "ST_GEOMETRY"
      PROVE  Write(col, v).refused <=> ~Fits(col, v)
  <2>1. Write(col, v) = WriteBytes(col, v)
    BY <1>1, <1>4, Zenon DEF Write
  <2>2. Fits(col, v) <=> v.kind \in {"buffer", "string"}
    BY <1>1, <1>4, Zenon DEF Fits
  <2>3. v.kind = "buffer" => WriteBytes(col, v) = createBinaryOutBuffer("BINARY", v)
    BY <1>4, Zenon DEF WriteBytes
  <2>4. v.kind = "string" =>
          \E code, b : WriteBytes(col, v) = createBinaryOutBuffer(code, b)
    BY <1>4, Zenon DEF WriteBytes
  <2>5. v.kind \notin {"buffer", "string"} => WriteBytes(col, v) = REFUSED
    BY <1>4, Zenon DEF WriteBytes
  <2> QED BY <2>1, <2>2, <2>3, <2>4, <2>5, Refusals, Zenon DEF createBinaryOutBuffer
<1>5. ASSUME col.type \in {"BLOB", "CLOB", "NCLOB"}
      PROVE  Write(col, v).refused <=> ~Fits(col, v)
  <2>1. Write(col, v) = WriteLob(col.type, v)
    BY <1>1, <1>5, Zenon DEF Write
  <2>2. Fits(col, v) <=> v.kind \in {"string", "buffer", "stream"}
    BY <1>1, <1>5, Zenon DEF Fits
  <2> QED BY <2>1, <2>2, Refusals, SMT DEF WriteLob
<1> QED BY <1>2, <1>3, <1>4, <1>5, SMT

\* BOOLEAN: only some texts are truth values.
LEMMA BooleansRefused ==
  ASSUME NEW col, NEW v, v.kind # "null", col.type = "BOOLEAN"
  PROVE  Write(col, v).refused <=> ~Fits(col, v)
<1> DEFINE words == {"TRUE", "1", "FALSE", "0", "UNKNOWN", ""}
           truth == v.kind \in {"true", "false", "number"} \/ (v.kind = "text" /\ v.text \in words)
<1>1. col.type \notin DOMAIN Bounds /\ col.type \notin DOMAIN Halves
  BY Tabled, SMT
<1>2. Write(col, v) = WriteBoolean(v)
  BY <1>1, Zenon DEF Write
<1>3. Fits(col, v) <=> truth
  BY <1>1, Zenon DEF Fits
<1> DEFINE text == CASE v.text \in {"TRUE", "1"} -> 2
                     [] v.text \in {"FALSE", "0"} -> 0
                     [] v.text \in {"UNKNOWN", ""} -> 1
                     [] OTHER -> 3
           code == CASE v.kind = "true" -> 2
                     [] v.kind = "false" -> 0
                     [] v.kind = "number" -> IF v.n = 0 THEN 0 ELSE 2
                     [] v.kind = "text" -> text
                     [] OTHER -> 3
<1>4. WriteBoolean(v) = IF code = 3 THEN REFUSED ELSE Field("BOOLEAN", <<Cell(1, Num(code))>>)
  BY Zenon DEF WriteBoolean
<1>5. /\ v.text \in {"TRUE", "1"} => text = 2
      /\ v.text \in {"FALSE", "0"} => text = 0
      /\ v.text \in {"UNKNOWN", ""} => text = 1
      /\ v.text \notin {"TRUE", "1", "FALSE", "0", "UNKNOWN", ""} => text = 3
  BY Zenon
<1> HIDE DEF text
<1>6. /\ v.kind = "true" => code = 2
      /\ v.kind = "false" => code = 0
      /\ v.kind = "number" => code = 0 \/ code = 2
      /\ v.kind = "text" => code = text
      /\ v.kind \notin {"true", "false", "number", "text"} => code = 3
  BY Zenon
<1> HIDE DEF code
<1>7. code = 3 <=> ~truth
  <2>1. 0 # 3 /\ 1 # 3 /\ 2 # 3
    BY SMT
  <2>2. CASE v.kind \in {"true", "false", "number"}
    BY <1>6, <2>1, <2>2, Zenon
  <2>3. CASE v.kind = "text" /\ v.text \in words
    <3>1. text = 2 \/ text = 0 \/ text = 1
      BY <1>5, <2>3, Zenon
    <3> QED BY <1>6, <2>1, <2>3, <3>1, Zenon
  <2>4. CASE v.kind = "text" /\ v.text \notin words
    BY <1>5, <1>6, <2>4, Zenon
  <2>5. CASE v.kind \notin {"true", "false", "number", "text"}
    BY <1>6, <2>5, Zenon
  <2> QED BY <2>2, <2>3, <2>4, <2>5, Zenon
<1>8. code = 3 <=> WriteBoolean(v).refused
  BY <1>4, Refusals, Zenon
<1> HIDE DEF truth
<1> QED BY <1>2, <1>3, <1>7, <1>8, Zenon

\* REAL_VECTOR: a vector has an element, its column's length, and as many elements as it says.
LEMMA VectorsRefused ==
  ASSUME NEW col, NEW v, Expected(col, v), v.kind # "null", col.type = "REAL_VECTOR"
  PROVE  Write(col, v).refused <=> ~Fits(col, v)
<1>1. col.type \notin DOMAIN Bounds /\ col.type \notin DOMAIN Halves
  BY Tabled, SMT
<1>2. Write(col, v) = WriteVector(col, v)
  BY <1>1, Zenon DEF Write
<1>3. Fits(col, v) <=> IF v.kind = "array" THEN v.n > 0 /\ col.length \in {0, v.n}
                       ELSE v.kind = "buffer" /\ v.length = 4 + 4 * v.count /\ v.count > 0
                            /\ col.length \in {0, v.count}
  BY <1>1, Zenon DEF Fits
<1>4. /\ v.kind = "array" => v.n \in Nat
      /\ v.kind = "buffer" => v.length \in Nat /\ v.count \in Nat
  BY SMT DEF Expected
<1>5. CASE v.kind = "array"
  <2>1. WriteVector(col, v).refused <=> v.n = 0 \/ (col.length # 0 /\ v.n # col.length)
    BY <1>5, Refusals, SMT DEF WriteVector
  <2> QED BY <1>2, <1>3, <1>4, <1>5, <2>1, SMT
<1>6. CASE v.kind = "buffer"
  <2>1. WriteVector(col, v).refused <=> \/ ~(v.length >= 4 /\ v.count # 0 /\ v.length - 4 = 4 * v.count)
                                        \/ (col.length # 0 /\ v.count # col.length)
    BY <1>6, Refusals, SMT DEF WriteVector
  <2> QED BY <1>2, <1>3, <1>4, <1>6, <2>1, SMT
<1>7. CASE v.kind \notin {"array", "buffer"}
  <2>1. WriteVector(col, v).refused
    BY <1>7, Refusals, SMT DEF WriteVector
  <2> QED BY <1>2, <1>3, <1>7, <2>1, SMT
<1> QED BY <1>5, <1>6, <1>7, SMT

\* What is below a product is divided to what is below its factor.
LEMMA DividedBelow ==
  ASSUME NEW n \in Nat, NEW k \in Nat, NEW m \in Nat, m # 0, n < k * m
  PROVE  n \div m \in Nat /\ n \div m < k
<1> DEFINE q == n \div m
<1>1. q \in Nat /\ q * m <= n
  BY SMT
<1> HIDE DEF q
<1>2. q >= k => q * m >= k * m
  BY <1>1, SMT
<1>3. q < k
  BY <1>1, <1>2, SMT
<1> QED BY <1>1, <1>3, SMT DEF q

\* A time is valid when some second of the day has it.
LEMMA ValidTimes ==
  ASSUME NEW v
  PROVE  isValidTime(v) <=> HasTime(v)
<1>1. ASSUME isValidTime(v) PROVE HasTime(v)
  <2>1. /\ SecondsOf(v) \in Nat /\ DaySeconds \in Nat /\ SecondsOf(v) < DaySeconds
        /\ Clock(SecondsOf(v)) = Time(v)
    BY <1>1, TimesOfDay, Zenon
  <2>2. SecondsOf(v) \in 0..DaySeconds-1
    BY <2>1, SMT
  <2> QED BY <2>1, <2>2, Zenon DEF HasTime
<1>2. ASSUME HasTime(v) PROVE isValidTime(v)
  <2>1. PICK n : n \in 0..DaySeconds-1 /\ Clock(n) = Time(v)
    BY <1>2, Zenon DEF HasTime
  <2>2. v.h = (n \div SECONDS) \div MINUTES /\ v.mi = (n \div SECONDS) % MINUTES /\ v.s = n % SECONDS
    BY <2>1, SMT DEF Clock, Time
  <2>3. DaySeconds = (HOURS * MINUTES) * SECONDS /\ HOURS * MINUTES \in Nat
    BY Clocks, SMT DEF DaySeconds
  <2>4. n \in Nat /\ n < (HOURS * MINUTES) * SECONDS
    BY <2>1, <2>3, Clocks, SMT
  <2>5. n \div SECONDS \in Nat /\ n \div SECONDS < HOURS * MINUTES
    BY <2>3, <2>4, Clocks, DividedBelow, SMT
  <2>6. (n \div SECONDS) \div MINUTES \in Nat /\ (n \div SECONDS) \div MINUTES < HOURS
    BY <2>5, Clocks, DividedBelow, SMT
  <2>7. (n \div SECONDS) % MINUTES \in 0..MINUTES-1
    BY <2>5, Clocks, SMT
  <2>8. n % SECONDS \in 0..SECONDS-1
    BY <2>4, Clocks, SMT
  <2>9. (n \div SECONDS) \div MINUTES \in 0..HOURS-1
    BY <2>6, Clocks, SMT
  <2> QED BY <2>2, <2>7, <2>8, <2>9, Zenon DEF isValidTime
<1> QED BY <1>1, <1>2

\* A day is valid when some number of a day has it.
LEMMA ValidDays ==
  ASSUME NEW v, ~Skipped(v.d, v.m, v.y), ~JulianLeapDay(v.d, v.m, v.y)
  PROVE  isValidDay(v.d, v.m, v.y) <=> HasDay(v)
<1> DEFINE n == DAYDATE(v.y, v.m, v.d)
<1>1. ASSUME isValidDay(v.d, v.m, v.y) PROVE HasDay(v)
  <2>1. n \in Int /\ 1 <= n /\ n <= LastDay /\ DATE(n) = [y |-> v.y, m |-> v.m, d |-> v.d]
    BY <1>1, DayNumbers, SMT
  <2> HIDE DEF n
  <2>2. n \in 1..LastDay
    BY <2>1, LastDayInt, InRange, SMT
  <2> QED BY <2>1, <2>2, Zenon DEF HasDay, Day, n
<1>2. ASSUME HasDay(v) PROVE isValidDay(v.d, v.m, v.y)
  <2>1. n \in 1..LastDay /\ DATE(n) = Day(v)
    BY <1>2, Zenon DEF HasDay
  <2> HIDE DEF n
  <2>2. IsDay(DATE(n).d, DATE(n).m, DATE(n).y)
    BY <2>1, NumbersComeBack, Zenon
  <2>3. DATE(n).d = v.d /\ DATE(n).m = v.m /\ DATE(n).y = v.y
    BY <2>1, SMT DEF Day
  <2>4. IsDay(v.d, v.m, v.y)
    BY <2>2, <2>3, Zenon
  <2> QED BY <2>4, Zenon DEF IsDay
<1> QED BY <1>1, <1>2

\* DATE, TIME and TIMESTAMP: what is refused is none, or has more than 59 seconds.
LEMMA OldDatesRefused ==
  ASSUME NEW col, NEW v, Expected(col, v), v.kind # "null",
         col.type \in {"DATE", "TIME", "TIMESTAMP"}, Write(col, v).refused
  PROVE  ~Fits(col, v)
<1>1. col.type \notin DOMAIN Bounds /\ col.type \notin DOMAIN Halves
  BY Tabled, SMT
<1>2. v.kind \in {"time", "timestamp"} /\ OnClock(v) => FitsUInt16(v)
  <2>1. v.kind \in {"time", "timestamp"} => v.s \in Nat /\ strToNumLen(v.f, 3) \in 0..999
    BY Zenon DEF Expected
  <2> QED BY <2>1, SMT DEF OnClock, FitsUInt16
<1>3. ASSUME col.type = "DATE"
      PROVE  ~Fits(col, v)
  <2>1. Write(col, v) = WriteDate(v)
    BY <1>1, <1>3, Zenon DEF Write
  <2>2. Fits(col, v) => v.kind = "date"
    BY <1>1, <1>3, Zenon DEF Fits
  <2> QED BY <2>1, <2>2, Refusals, Zenon DEF WriteDate
<1>4. ASSUME col.type = "TIME"
      PROVE  ~Fits(col, v)
  <2>1. Write(col, v) = WriteTime(v)
    BY <1>1, <1>4, Zenon DEF Write
  <2>2. Fits(col, v) => v.kind = "time" /\ OnClock(v)
    BY <1>1, <1>4, Zenon DEF Fits
  <2> QED BY <1>2, <2>1, <2>2, Refusals, Zenon DEF WriteTime
<1>5. ASSUME col.type = "TIMESTAMP"
      PROVE  ~Fits(col, v)
  <2>1. Write(col, v) = WriteTimestamp(v)
    BY <1>1, <1>5, Zenon DEF Write
  <2>2. Fits(col, v) => v.kind = "timestamp" /\ OnClock(v)
    BY <1>1, <1>5, Zenon DEF Fits
  <2> QED BY <1>2, <2>1, <2>2, Refusals, Zenon DEF WriteTimestamp
<1> QED BY <1>3, <1>4, <1>5, SMT

\* DAYDATE and SECONDTIME: what counts is that there is such a day, or time.
LEMMA DaysAndTimesRefused ==
  ASSUME NEW col, NEW v, Expected(col, v), v.kind # "null", col.type \in {"DAYDATE", "SECONDTIME"}
  PROVE  Write(col, v).refused <=> ~Fits(col, v)
<1>1. col.type \notin DOMAIN Bounds /\ col.type \notin DOMAIN Halves
  BY Tabled, SMT
<1>2. ASSUME col.type = "DAYDATE"
      PROVE  Write(col, v).refused <=> ~Fits(col, v)
  <2>1. Write(col, v) = WriteDayDate(v)
    BY <1>1, <1>2, Zenon DEF Write
  <2>2. Fits(col, v) <=> v.kind = "date" /\ (HasDay(v) \/ IsZero(col, v))
    BY <1>1, <1>2, Zenon DEF Fits
  <2>3. IsZero(col, v) <=> isZeroDay(v.d, v.m, v.y)
    BY <1>2, SMT DEF IsZero, isZeroDay
  <2>4. v.kind = "date" => (isValidDay(v.d, v.m, v.y) <=> HasDay(v))
    <3>1. v.kind = "date" => ~Skipped(v.d, v.m, v.y) /\ ~JulianLeapDay(v.d, v.m, v.y)
      BY <1>2, SMT DEF Expected
    <3> QED BY <3>1, ValidDays, Zenon
  <2> QED BY <2>1, <2>2, <2>3, <2>4, Refusals, Zenon DEF WriteDayDate
<1>3. ASSUME col.type = "SECONDTIME"
      PROVE  Write(col, v).refused <=> ~Fits(col, v)
  <2>1. Write(col, v) = WriteSecondTime(v)
    BY <1>1, <1>3, Zenon DEF Write
  <2>2. Fits(col, v) <=> v.kind = "time" /\ HasTime(v)
    BY <1>1, <1>3, Zenon DEF Fits
  <2> QED BY <2>1, <2>2, ValidTimes, Refusals, Zenon DEF WriteSecondTime
<1> QED BY <1>2, <1>3, SMT

\* SECONDDATE and LONGDATE: the day and the time are valid, or there is neither.
LEMMA MomentsRefused ==
  ASSUME NEW col, NEW v, Expected(col, v), v.kind # "null", col.type \in {"SECONDDATE", "LONGDATE"}
  PROVE  Write(col, v).refused <=> ~Fits(col, v)
<1> DEFINE zero == /\ isZeroDay(v.d, v.m, v.y) /\ isZeroTime(v)
                   /\ col.type = "LONGDATE" => NoFraction(v)
<1>1. col.type \notin DOMAIN Bounds /\ col.type \notin DOMAIN Halves
  BY Tabled, SMT
<1>2. Write(col, v) = WriteMoment(col.type, v)
  BY <1>1, Zenon DEF Write
<1>3. Fits(col, v) <=> v.kind = "timestamp" /\ ((HasDay(v) /\ HasTime(v)) \/ IsZero(col, v))
  BY <1>1, Zenon DEF Fits
<1>4. WriteMoment(col.type, v).refused <=>
        v.kind # "timestamp" \/ (~zero /\ (~isValidDay(v.d, v.m, v.y) \/ ~isValidTime(v)))
  BY Refusals, Zenon DEF WriteMoment, NoFraction
<1>5. v.kind = "timestamp" => (isValidDay(v.d, v.m, v.y) <=> HasDay(v)) /\ (zero <=> IsZero(col, v))
  <2>1. SUFFICES ASSUME v.kind = "timestamp"
                 PROVE  (isValidDay(v.d, v.m, v.y) <=> HasDay(v)) /\ (zero <=> IsZero(col, v))
    OBVIOUS
  <2>2. /\ NoFraction(v) <=> \A i \in DOMAIN v.f : v.f[i] = 0
        /\ ~Skipped(v.d, v.m, v.y) /\ ~JulianLeapDay(v.d, v.m, v.y)
    BY <2>1, SMT DEF Expected
  <2>3. isValidDay(v.d, v.m, v.y) <=> HasDay(v)
    BY <2>2, ValidDays, Zenon
  <2>4. zero <=> IsZero(col, v)
    BY <2>2, Zenon DEF IsZero, isZeroDay, isZeroTime
  <2> QED BY <2>3, <2>4
<1> HIDE DEF zero
<1> QED BY <1>2, <1>3, <1>4, <1>5, ValidTimes, Zenon

\* The Writer refuses only what the column cannot hold, and all of that unless it leaves the range
\* to the server.
Justly(col, v) ==
  /\ Write(col, v).refused => ~Fits(col, v)
  /\ ~Write(col, v).refused => Fits(col, v) \/ col.type \in Unchecked

LEMMA RefusesJustly ==
  ASSUME NEW col, NEW v, Expected(col, v)
  PROVE  Justly(col, v)
<1>1. CASE v.kind = "null"
  <2>1. Write(col, v) = Field(NullCode(col.type), <<>>)
    BY <1>1, Zenon DEF Write
  <2>2. Fits(col, v)
    BY <1>1, Zenon DEF Fits
  <2> QED BY <2>1, <2>2, Refusals, Zenon DEF Justly
<1>2. CASE v.kind # "null"
  <2>1. col.type \in Types \ {"FIXED8", "FIXED12", "FIXED16", "DECIMAL"}
    BY Zenon DEF Expected
  <2>2. CASE col.type \in Unchecked
    <3>1. col.type \in {"BIGINT", "REAL", "DOUBLE"} \/ col.type \in {"DATE", "TIME", "TIMESTAMP"}
      BY <2>2, SMT DEF Unchecked
    <3>2. Write(col, v).refused => ~Fits(col, v)
      BY <1>2, <3>1, NumbersRefused, OldDatesRefused, Zenon
    <3> QED BY <2>2, <3>2, Zenon DEF Justly
  <2>3. CASE col.type \notin Unchecked
    <3>1. \/ col.type \in DOMAIN Bounds
          \/ col.type \in {"STRING", "ALPHANUM", "BINARY", "ST_GEOMETRY", "BLOB", "CLOB", "NCLOB"}
          \/ col.type = "BOOLEAN" \/ col.type = "REAL_VECTOR"
          \/ col.type \in {"DAYDATE", "SECONDTIME"}
          \/ col.type \in {"SECONDDATE", "LONGDATE"}
      BY <2>1, <2>3, Tabled, SMT DEF Unchecked, Types
    <3>2. Write(col, v).refused <=> ~Fits(col, v)
      BY <1>2, <3>1, IntegersRefused, BytesRefused, BooleansRefused, VectorsRefused,
         DaysAndTimesRefused, MomentsRefused, Zenon
    <3> QED BY <3>2, Zenon DEF Justly
  <2> QED BY <2>2, <2>3
<1> QED BY <1>1, <1>2

\* What is pushed for the values of the statements
Pushed == {Write(s.cols[i], s.values[i]) : s \in Statements, i \in Nat}

\* While values are written there is one left, and so there is the one that was refused.
ValuesInv ==
  /\ stmt \in Statements
  /\ fields \in Seq(Pushed)
  /\ phase \in {"writing", "refused"} => Len(fields) < Len(stmt.cols)
  /\ RefusesMisfits

\* The value that is next belongs to the statement, and is a value as columns get it.
LEMMA NextExpected ==
  ASSUME StatementsExpected, ValuesInv, phase = "writing"
  PROVE  LET n == Len(fields) + 1 IN
         /\ n \in Nat /\ n <= Len(stmt.cols) /\ Len(stmt.cols) \in Nat
         /\ Write(stmt.cols[n], stmt.values[n]) \in Pushed
         /\ Justly(stmt.cols[n], stmt.values[n])
<1> DEFINE n == Len(fields) + 1
<1>1. stmt \in Statements /\ Len(fields) \in Nat /\ Len(fields) < Len(stmt.cols)
  BY SMT DEF ValuesInv
<1>2. Len(stmt.cols) \in Nat /\ \A i \in 1..Len(stmt.cols) : Expected(stmt.cols[i], stmt.values[i])
  BY <1>1, Zenon DEF StatementsExpected
<1>3. n \in Nat /\ n \in 1..Len(stmt.cols) /\ n <= Len(stmt.cols)
  BY <1>1, <1>2, SMT
<1> HIDE DEF n
<1>4. Expected(stmt.cols[n], stmt.values[n])
  BY <1>2, <1>3, Zenon
<1>5. Write(stmt.cols[n], stmt.values[n]) \in Pushed
  BY <1>1, <1>3, SMT DEF Pushed
<1> QED BY <1>2, <1>3, <1>4, <1>5, RefusesJustly, Zenon DEF n

\* Writing the next value.
LEMMA AddKeeps ==
  ASSUME StatementsExpected, ValuesInv, Add
  PROVE  ValuesInv'
<1> DEFINE n == Len(fields) + 1
           f == Write(stmt.cols[n], stmt.values[n])
<1>1. phase = "writing" /\ stmt' = stmt
  BY SMT DEF Add
<1>2. /\ n \in Nat /\ n <= Len(stmt.cols) /\ Len(stmt.cols) \in Nat
      /\ f \in Pushed /\ (f.refused => ~Fits(stmt.cols[n], stmt.values[n]))
      /\ ~f.refused => Fits(stmt.cols[n], stmt.values[n]) \/ stmt.cols[n].type \in Unchecked
  BY <1>1, NextExpected, Zenon DEF Justly
<1>3. /\ f.refused => phase' = "refused" /\ fields' = fields
      /\ ~f.refused => /\ fields' = Append(fields, f)
                       /\ phase' = IF Len(fields') = Len(stmt.cols) THEN "stored" ELSE "writing"
  BY Zenon DEF Add
<1>4. /\ stmt \in Statements /\ fields \in Seq(Pushed) /\ Len(fields) \in Nat
      /\ \A i \in DOMAIN fields : Fits(stmt.cols[i], stmt.values[i]) \/ stmt.cols[i].type \in Unchecked
  BY SMT DEF ValuesInv, RefusesMisfits
<1>5. CASE f.refused
  <2>1. fields' = fields /\ phase' = "refused" /\ ~Fits(stmt.cols[n], stmt.values[n])
    BY <1>2, <1>3, <1>5, Zenon
  <2>2. Len(fields) < Len(stmt.cols)
    BY <1>2, <1>4, SMT
  <2>3. RefusesMisfits'
    BY <1>1, <1>4, <2>1, Zenon DEF RefusesMisfits
  <2> QED BY <1>1, <1>4, <2>1, <2>2, <2>3, Zenon DEF ValuesInv
<1>6. CASE ~f.refused
  <2>1. /\ fields' = Append(fields, f)
        /\ Fits(stmt.cols[n], stmt.values[n]) \/ stmt.cols[n].type \in Unchecked
        /\ phase' = IF Len(fields') = Len(stmt.cols) THEN "stored" ELSE "writing"
    BY <1>2, <1>3, <1>6, Zenon
  <2> HIDE DEF f
  <2>2. fields' \in Seq(Pushed) /\ Len(fields') = n /\ DOMAIN fields' = DOMAIN fields \cup {n}
    BY <1>2, <1>4, <2>1, SMT
  <2>3. phase' # "refused" /\ (phase' = "writing" => Len(fields') < Len(stmt.cols))
    BY <1>2, <2>1, <2>2, SMT
  <2> HIDE DEF n
  <2>4. RefusesMisfits'
    BY <1>1, <1>4, <2>1, <2>2, <2>3, Zenon DEF RefusesMisfits
  <2> QED BY <1>1, <1>4, <2>2, <2>3, <2>4, Zenon DEF ValuesInv
<1> QED BY <1>5, <1>6, Zenon

\* Storing and reading change nothing that was written.
LEMMA OthersKeep ==
  ASSUME ValuesInv, Store \/ ReadColumn \/ UNCHANGED vars
  PROVE  ValuesInv'
<1>1. Store => stmt' = stmt /\ fields' = fields /\ phase' = "reading"
  BY Zenon DEF Store
<1>2. ReadColumn => stmt' = stmt /\ fields' = fields /\ phase' \in {"reading", "read"}
  BY Zenon DEF ReadColumn
<1>3. UNCHANGED vars => stmt' = stmt /\ fields' = fields /\ phase' = phase
  BY Zenon DEF vars
<1> QED BY <1>1, <1>2, <1>3, Zenon DEF ValuesInv, RefusesMisfits

\* Whatever the columns and the values of a statement are, the Writer refuses no value that the
\* type of its column can hold, and pushes none that it cannot hold, except into the columns whose
\* range it leaves to the server (Writer.js:495-1005): an integer beyond its bytes, a day that no
\* number stands for, a time beyond the day, a vector of another length never get into a row.
THEOREM MisfitsRefused ==
  ASSUME StatementsExpected
  PROVE  ValuesSpec => []RefusesMisfits
<1>1. ValuesInit => ValuesInv
  <2> SUFFICES ASSUME ValuesInit PROVE ValuesInv
    OBVIOUS
  <2>1. stmt \in Statements /\ fields = <<>> /\ phase = "writing"
    BY Zenon DEF ValuesInit
  <2>2. Len(stmt.cols) \in Nat /\ Len(stmt.cols) # 0
    BY <2>1, Zenon DEF StatementsExpected
  <2>3. fields \in Seq(Pushed) /\ Len(fields) < Len(stmt.cols) /\ DOMAIN fields = {}
    BY <2>1, <2>2, SMT
  <2> QED BY <2>1, <2>3, Zenon DEF ValuesInv, RefusesMisfits
<1>2. ValuesInv /\ [ValuesNext]_vars => ValuesInv'
  BY AddKeeps, OthersKeep, Zenon DEF ValuesNext
<1>3. ValuesInv => RefusesMisfits
  BY Zenon DEF ValuesInv
<1> QED BY <1>1, <1>2, <1>3, PTL DEF ValuesSpec
===============================================================================
