------------------------------- MODULE Calendar -------------------------------
(***************************************************************************)
(* The calendar of lib/util/calendar.js: days are counted from 0001-01-01, *)
(* by the Julian calendar until 1582-10-04 and by the Gregorian one from   *)
(* 1582-10-15 on.  The code computes with doubles and truncates (~~); the  *)
(* quotients are written here with integers.                               *)
(***************************************************************************)
EXTENDS Integers

TURN_OF_ERAS == 1721424
GREGORIAN == 2299161

mustConvertToGregorian(year, month, day) ==
  day + 31 * (month + 12 * year) >= 15 + 31 * (10 + 12 * 1582)

DAYDATE(year, month, day) ==
  LET late == month > 2
      julienMonth == IF late THEN month + 1 ELSE month + 13
      julienYear == IF late THEN year ELSE year - 1
      a == julienYear \div 100
      julienDayNumber == (1461 * julienYear) \div 4              \* 365.25
                         + (306001 * julienMonth) \div 10000     \* 30.6001
                         + day + 1720995
      gregorian == IF mustConvertToGregorian(year, month, day) THEN 2 - a + a \div 4 ELSE 0
  IN  julienDayNumber + gregorian - TURN_OF_ERAS + 1

DATE(daydate) ==
  LET Z == daydate - 1 + TURN_OF_ERAS
      W == (4 * Z - 7468865) \div 146097                          \* (Z - 1867216.25) / 36524.25
      B == (IF Z >= GREGORIAN THEN Z + 1 + W - W \div 4 ELSE Z) + 1524
      C == (20 * B - 2442) \div 7305                              \* (B - 122.1) / 365.25
      D == (1461 * C) \div 4
      E == ((B - D) * 10000) \div 306001
      month == IF E - 1 > 12 THEN E - 13 ELSE E - 1
  IN  [y |-> IF month < 3 THEN C - 4715 ELSE C - 4716,
       m |-> month,
       d |-> B - D - (306001 * E) \div 10000]

isZeroDay(day, month, year) == year = 0 /\ month = 0 /\ day = 0

LastYear == 9999
daysInMonth == <<31, 28, 31, 30, 31, 30, 31, 31, 30, 31, 30, 31>>

isValidDay(day, month, year) ==
  /\ year \in 1..LastYear /\ month \in 1..12 /\ day \in 1..31
  /\ \/ day <= daysInMonth[month]
     \/ /\ (year % 4 = 0 /\ year % 100 # 0) \/ year % 400 = 0
        /\ month = 2 /\ day = 29
=============================================================================
