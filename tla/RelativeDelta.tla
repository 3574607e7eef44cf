----------------------------- MODULE RelativeDelta -----------------------------
(***************************************************************************)
(* dateutil's relativedelta (dateutil/relativedelta.py): differences of    *)
(* two dates in years, months, days and time, that are added to dates,     *)
(* combined and scaled.                                                    *)
(*                                                                         *)
(* A datetime is the ordinal of its day and the second of the day; the     *)
(* fraction of a second is left out.  Of the absolute fields there are     *)
(* year, month, day and hour, {} where the code has None.  A weekday is    *)
(* <<number, n>>, n = 0 where it was not given.  An operation that raises,  *)
(* because its result is before or after what datetime has, changes        *)
(* nothing.                                                                *)
(***************************************************************************)
EXTENDS Calendar, FiniteSetsExt

CONSTANTS Moments,     \* datetimes <<y, m, d, second>>
          Deltas,      \* keyword arguments of relativedelta
          YearDays,    \* days of a year, without the 366th
          Factors,     \* integers that a delta is multiplied with
          MaxOps       \* bound: operations one after the other

VARIABLES first,       \* two datetimes
          second,
          delta,       \* the relativedelta that was computed last
          meant,       \* months and seconds that it stands for
          ops          \* how many operations led to it

deltaVars == <<first, second, delta, meant, ops>>

LastYear == 9999     \* datetime.MAXYEAR
LastDay  == Day(LastYear, 12, 31)
LastSecond == 86399
Datetimes == [day : 1..LastDay, sec : 0..LastSecond]

-----------------------------------------------------------------------------
Sign(x)    == IF x < 0 THEN -1 ELSE 1
Mag(x)     == x * Sign(x)
Rest(x, n) == (Mag(x) % n) * Sign(x)
Over(x, n) == (Mag(x) \div n) * Sign(x)
Given(S, x) == IF S = {} THEN x ELSE CHOOSE y \in S : TRUE

FixForward(r) ==  \* faulty: what is too much is carried without its sign
  LET minutes == r.minutes + (Mag(r.seconds) \div 60)
      hours   == r.hours + Over(minutes, 60) IN
  [r EXCEPT !.seconds = Rest(@, 60), !.minutes = Rest(minutes, 60), !.hours = Rest(hours, 24),
            !.days = @ + Over(hours, 24), !.months = Rest(@, 12), !.years = @ + Over(r.months, 12)]

(* _fix: what is too much for a field goes to the next, each with its own sign. *)
Fix(r) ==
  LET minutes == r.minutes + Over(r.seconds, 60)
      hours   == r.hours + Over(minutes, 60) IN
  [r EXCEPT !.seconds = Rest(@, 60), !.minutes = Rest(minutes, 60), !.hours = Rest(hours, 24),
            !.days = @ + Over(hours, 24), !.months = Rest(@, 12), !.years = @ + Over(r.months, 12)]

Relative == [years |-> 0, months |-> 0, days |-> 0, leapdays |-> 0,
             hours |-> 0, minutes |-> 0, seconds |-> 0,
             year |-> {}, month |-> {}, day |-> {}, hour |-> {}, weekday |-> {}]

Relatives ==
  [ years : Int, months : Int, days : Int, leapdays : Int, hours : Int, minutes : Int, seconds : Int,
    year : SUBSET (1..LastYear), month : SUBSET (1..12), day : SUBSET (1..31), hour : SUBSET (0..23),
    weekday : SUBSET ((0..6) \X Int) ]

FromKeywords(k) == [f \in DOMAIN Relative |-> IF f \in DOMAIN k THEN k[f] ELSE Relative[f]]

ASSUME DeltaAssumption ==
  /\ \A x \in Moments : /\ x \in (1..LastYear) \X (1..12) \X (1..31) \X (0..LastSecond)
                        /\ x[3] <= MonthLen(x[1], x[2])
  /\ \A k \in Deltas : FromKeywords(k) \in Relatives
  /\ YearDays \subseteq 1..365 /\ Factors \subseteq Int /\ MaxOps \in Nat \ {0}

(* yearday and nlyearday become a month, a day and, after the 59th, leapdays. *)
YearDayIndex == <<31, 59, 90, 120, 151, 181, 212, 243, 273, 304, 334, 366>>
OnYearDay(r, n, leap) ==
  LET k == CHOOSE i \in 1..12 : n <= YearDayIndex[i] /\ (i = 1 \/ YearDayIndex[i - 1] < n) IN
  [r EXCEPT !.month = {k}, !.day = {IF k = 1 THEN n ELSE n - YearDayIndex[k - 1]},
            !.leapdays = IF leap /\ n > 59 THEN -1 ELSE @]

(* A datetime and a number of seconds. *)
Advanced(t, s)  == [day |-> t.day + ((t.sec + s) \div 86400), sec |-> (t.sec + s) % 86400]
Before(t, u) == t.day < u.day \/ (t.day = u.day /\ t.sec < u.sec)
Seconds(t, u) == (t.day - u.day) * 86400 + t.sec - u.sec

JumpDays(weekday, day) ==
  LET n    == IF weekday[2] = 0 THEN 1 ELSE weekday[2]
      full == (Mag(n) - 1) * 7 IN
  IF n > 0 THEN full + ((7 - Weekday(day) + weekday[1]) % 7)
  ELSE -(full + ((Weekday(day) - weekday[1]) % 7))

(* datetime + relativedelta; the day is cut to the month before days are added. *)
Carried(year, month) ==
  CASE month > 12 -> [y |-> year + 1, m |-> month - 12]
    [] month < 1  -> [y |-> year - 1, m |-> month + 12]
    [] OTHER      -> [y |-> year, m |-> month]
MonthAfter(t, r) ==
  Carried(Given(r.year, Date(t.day).y) + r.years, Given(r.month, Date(t.day).m) + r.months)
Replaced(t, r, to) ==
  [day |-> Day(to.y, to.m, Min({MonthLen(to.y, to.m), Given(r.day, Date(t.day).d)})),
   sec |-> IF r.hour = {} THEN t.sec ELSE Given(r.hour, 0) * 3600 + (t.sec % 3600)]
Shifted(t, r, to) ==
  LET leap == IF to.m > 2 /\ IsLeap(to.y) THEN r.leapdays ELSE 0 IN
  Advanced(Replaced(t, r, to), (r.days + leap) * 86400 + r.hours * 3600 + r.minutes * 60 + r.seconds)
Jumped(at, r) ==
  IF r.weekday = {} THEN at
  ELSE [at EXCEPT !.day = @ + JumpDays(Given(r.weekday, 0), at.day)]
Plus(t, r) == Jumped(Shifted(t, r, MonthAfter(t, r)), r)
(* replace() and both additions stay within the datetimes there are. *)
CanAdd(t, r) ==
  \E to \in {MonthAfter(t, r)} : /\ to.y \in 1..LastYear
                                /\ {Shifted(t, r, to), Plus(t, r)} \subseteq Datetimes

(* relativedelta(dt1, dt2): whole months first, less those that go too far. *)
OfMonths(n) == [Relative EXCEPT !.months = Rest(n, 12), !.years = Over(n, 12)]
MonthsApart(t, u) == (Date(t.day).y - Date(u.day).y) * 12 + Date(t.day).m - Date(u.day).m
TooFarToDate(t, u, n) ==  \* faulty: the time of day is not compared
  LET at == Plus(u, OfMonths(n)) IN IF Before(t, u) THEN at.day < t.day ELSE t.day < at.day
TooFar(t, u, n) ==
  LET at == Plus(u, OfMonths(n)) IN IF Before(t, u) THEN Before(at, t) ELSE Before(t, at)
MonthsBetween(t, u) ==
  LET step == IF Before(t, u) THEN 1 ELSE -1
      apart == MonthsApart(t, u) IN
  apart + step * (CHOOSE k \in 0..2 : ~TooFar(t, u, apart + step * k)
                                      /\ \A j \in 0 .. k - 1 : TooFar(t, u, apart + step * j))
Difference(t, u) ==
  LET r == OfMonths(MonthsBetween(t, u)) IN Fix([r EXCEPT !.seconds = Seconds(t, Plus(u, r))])

(* The operators; absolute fields are those of the second operand where it has them. *)
Either(S, T) == IF S # {} THEN S ELSE T
Mixed(r, o, sign, abs, other) ==
  Fix([ years |-> r.years + sign * o.years, months |-> r.months + sign * o.months,
        days |-> r.days + sign * o.days, hours |-> r.hours + sign * o.hours,
        minutes |-> r.minutes + sign * o.minutes, seconds |-> r.seconds + sign * o.seconds,
        leapdays |-> IF abs.leapdays # 0 THEN abs.leapdays ELSE other.leapdays,
        year |-> Either(abs.year, other.year), month |-> Either(abs.month, other.month),
        day |-> Either(abs.day, other.day), hour |-> Either(abs.hour, other.hour),
        weekday |-> Either(abs.weekday, other.weekday) ])
Sum(r, o)    == Mixed(r, o, 1, o, r)
Minus(r, o)  == Mixed(r, o, -1, r, o)
(* The code multiplies by a float, which is exact below 2^53. *)
Times(r, n)  ==
  Fix([r EXCEPT !.years = n * @, !.months = n * @, !.days = n * @, !.hours = n * @,
                !.minutes = n * @, !.seconds = n * @])
Negated(r)   == Times(r, -1)
Positive(r)  == [f \in DOMAIN r |->
                   IF f \in {"years", "months", "days", "hours", "minutes", "seconds"} THEN Mag(r[f])
                   ELSE r[f]]

-----------------------------------------------------------------------------
Moment(x) == [day |-> Day(x[1], x[2], x[3]), sec |-> x[4]]
MonthsOf(r)  == 12 * r.years + r.months
SecondsOf(r) == r.days * 86400 + r.hours * 3600 + r.minutes * 60 + r.seconds
Meaning(r)   == [months |-> MonthsOf(r), seconds |-> SecondsOf(r)]

DeltaInit ==
  /\ first \in {Moment(x) : x \in Moments}
  /\ second \in {Moment(x) : x \in Moments}
  /\ delta = Relative
  /\ meant = Meaning(Relative)
  /\ ops = 0

Computed(r, m) == delta' = r /\ meant' = m /\ ops' = ops + 1 /\ UNCHANGED <<first, second>>

Subtract ==
  /\ ops = 0
  /\ Computed(Difference(first, second),
              [months |-> MonthsBetween(first, second),
               seconds |-> Seconds(first, Plus(second, OfMonths(MonthsBetween(first, second))))])
Construct(r) == ops = 0 /\ Computed(Fix(r), Meaning(r))
Add(r) ==
  /\ ops \in 1 .. MaxOps - 1
  /\ Computed(Sum(delta, r), [months |-> meant.months + MonthsOf(r),
                              seconds |-> meant.seconds + SecondsOf(r)])
Less(r) ==
  /\ ops \in 1 .. MaxOps - 1
  /\ Computed(Minus(delta, r), [months |-> meant.months - MonthsOf(r),
                                seconds |-> meant.seconds - SecondsOf(r)])
Scale(n) ==
  /\ ops \in 1 .. MaxOps - 1
  /\ Computed(Times(delta, n), [months |-> n * meant.months, seconds |-> n * meant.seconds])
Absolute == ops \in 1 .. MaxOps - 1 /\ Computed(Positive(delta), Meaning(Positive(delta)))
(* first = second + delta, or second - delta *)
Move ==
  /\ ops \in 1 .. MaxOps - 1
  /\ \E r \in {delta, Negated(delta)} : CanAdd(second, r) /\ first' = Plus(second, r)
  /\ ops' = ops + 1
  /\ UNCHANGED <<second, delta, meant>>

DeltaNext ==
  \/ Subtract
  \/ \E r \in {FromKeywords(k) : k \in Deltas} : Construct(r) \/ Add(Fix(r)) \/ Less(Fix(r))
  \/ \E n \in Factors : Scale(n)
  \/ Absolute
  \/ Move
DeltaSpec == DeltaInit /\ [][DeltaNext]_deltaVars

-----------------------------------------------------------------------------
(* Every field of a delta is within its range. *)
Normal ==
  /\ {delta.years, delta.days, delta.leapdays} \subseteq Int /\ ops \in 0..MaxOps
  /\ delta.month \subseteq 1..12 /\ delta.day \subseteq 1..31 /\ delta.hour \subseteq 0..23
  /\ Mag(delta.months) < 12 /\ Mag(delta.hours) < 24
  /\ Mag(delta.minutes) < 60 /\ Mag(delta.seconds) < 60

(* However a delta was computed, no field is beyond its range, and nothing is lost or
   counted twice when fields overflow into each other. *)
NothingIsLost == Normal /\ Meaning(delta) = meant

(* The difference of two datetimes leads from the second to the first, and none of
   its fields goes the other way: whatever the lengths of the months between them. *)
DifferenceLeadsBack ==
  LET d == Difference(first, second) IN
  /\ Plus(second, d) = first
  /\ \A f \in {"years", "months", "days", "hours", "minutes", "seconds"} :
       IF Before(first, second) THEN d[f] <= 0 ELSE d[f] >= 0

(* Moreover yearday=n gives the n-th day of the year, nlyearday=n the day that is the n-th of
   a year without a leap day: in every year, but for the 366th. *)
Year == Date(first.day).y
OnDay(n, leap) == Plus(first, OnYearDay(Relative, n, leap))
NthDay(n)      == [first EXCEPT !.day = NewYear(Year) + n - 1]
YearDaysAreRight ==
  ops = 0 => \A n \in YearDays :
    /\ OnDay(n, TRUE) = NthDay(n)
    /\ OnDay(n, FALSE) = NthDay(IF IsLeap(Year) /\ n > 59 THEN n + 1 ELSE n)
DeltasLeadRight == DifferenceLeadsBack /\ YearDaysAreRight
=============================================================================
