------------------------------- MODULE Calendar -------------------------------
(***************************************************************************)
(* The proleptic Gregorian calendar of Python's datetime, as far as        *)
(* dateutil uses it, and dateutil's Easter (easter.py).  A day is its      *)
(* ordinal, a date a record, a weekday a number from 0, Monday, to 6.      *)
(***************************************************************************)
EXTENDS Integers

IsLeap(y)  == y % 4 = 0 /\ (y % 100 # 0 \/ y % 400 = 0)
YearLen(y) == IF IsLeap(y) THEN 366 ELSE 365

(* MRange(y)[m] days of the year are before month m. *)
MRange(y) ==
  IF IsLeap(y) THEN <<0, 31, 60, 91, 121, 152, 182, 213, 244, 274, 305, 335, 366>>
  ELSE <<0, 31, 59, 90, 120, 151, 181, 212, 243, 273, 304, 334, 365>>
MonthLen(y, m) == MRange(y)[m + 1] - MRange(y)[m]

NewYear(y)   == (y - 1) * 365 + (y - 1) \div 4 - (y - 1) \div 100 + (y - 1) \div 400 + 1
Day(y, m, d) == NewYear(y) + MRange(y)[m] + d - 1
Weekday(day) == (day + 6) % 7

(* Of the days up to the year 9999. *)
YearOf(day) ==
  LET guess == day \div 366 IN
  CHOOSE y \in guess .. guess + 28 : NewYear(y) <= day /\ day < NewYear(y + 1)
MonthOf(y, i)      == CHOOSE m \in 1..12 : MRange(y)[m] <= i /\ i < MRange(y)[m + 1]
DateIn(y, m, i)    == [y |-> y, m |-> m, d |-> i - MRange(y)[m] + 1]
DateOfYear(y, i)   == DateIn(y, MonthOf(y, i), i)
Date(day)          == LET y == YearOf(day) IN DateOfYear(y, day - NewYear(y))

(* easter(year): methods 1 and 2 in the Julian calendar, with the difference
   between the calendars for 2; 3 in the Gregorian calendar. *)
EasterDate(y, method) ==
  LET g == y % 19
      c == y \div 100
      e == IF method # 2 THEN 0
           ELSE 10 + IF y > 1600 THEN c - 16 - (c - 16) \div 4 ELSE 0
      h == (c - c \div 4 - (8 * c + 13) \div 25 + 19 * g + 15) % 30
      i == IF method < 3 THEN (19 * g + 15) % 30
           ELSE h - (h \div 28) * (1 - (h \div 28) * (29 \div (h + 1)) * ((21 - g) \div 11))
      j == IF method < 3 THEN (y + y \div 4 + i) % 7
           ELSE (y + y \div 4 + i + 2 - c + c \div 4) % 7
      p == i - j + e IN
  [y |-> y, m |-> 3 + (p + 26) \div 30, d |-> 1 + ((p + 27 + (p + 6) \div 40) % 31)]
DayOfDate(t) == Day(t.y, t.m, t.d)
Easter(y)    == DayOfDate(EasterDate(y, 3))
=============================================================================
