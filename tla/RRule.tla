-------------------------------- MODULE RRule --------------------------------
(***************************************************************************)
(* dateutil's rrule (dateutil/rrule.py): what its constructor makes of the *)
(* arguments, and its generator _iter.  A generator is a record; Fill is   *)
(* its loop, which goes through period after period (a year, month, week,  *)
(* day, hour, minute or second) until one has an occurrence.               *)
(*                                                                         *)
(* A part of a rule is a set.  An argument that is {} is None, unless it   *)
(* is in `empty`: the constructor tells an empty list from None, the       *)
(* generator does not.  A time is a number of seconds, 0 at midnight of    *)
(* Epoch; the masks of _iterinfo are predicates and sets of days i of a    *)
(* year, from 0, that run seven days into the next one.                    *)
(***************************************************************************)
EXTENDS Calendar, Sequences, FiniteSetsExt, SequencesExt

CONSTANT MaxYear     \* datetime.MAXYEAR

YEARLY   == 0
MONTHLY  == 1
WEEKLY   == 2
DAILY    == 3
HOURLY   == 4
MINUTELY == 5
SECONDLY == 6

Epoch == 730120      \* 1 January 2000
Time(day, sec) == (day - Epoch) * 86400 + sec
DayOf(t) == Epoch + t \div 86400
SecOf(t) == t % 86400
Ascending(set) ==
  [k \in 1 .. Cardinality(set) |-> CHOOSE t \in set : Cardinality({u \in set : u <= t}) = k]
Gcd(a, b) == Max({k \in 1..a : a % k = 0 /\ b % k = 0})

-----------------------------------------------------------------------------
(* rrule.__init__.  `a` has the arguments: dtstart a time, count and until sets
   that hold a number or nothing, byweekday pairs of a weekday and its n or 0, and
   empty the names of the parts that are given as an empty list.             *)

IsGiven(a, part) == a[part] # {} \/ part \in a.empty

(* __construct_byset: what can be reached from start. *)
Reachable(a, start, by, base) == {num \in by : (num - start) % Gcd(a.interval, base) = 0}

(* A part of the time of day: given, else that of dtstart if it is finer than the
   frequency. *)
TimePart(a, part, at, start, base) ==
  IF IsGiven(a, part) THEN (IF a.freq = at THEN Reachable(a, start, a[part], base) ELSE a[part])
  ELSE IF a.freq < at THEN {start} ELSE {}

NewRule(a) ==
  LET day   == DayOf(a.dtstart)
      sec   == SecOf(a.dtstart)
      date  == Date(day)
      plain == \A part \in {"byweekno", "byyearday", "bymonthday", "byweekday", "byeaster"} :
                 ~IsGiven(a, part)
      bymonth    == IF plain /\ a.freq = YEARLY /\ ~IsGiven(a, "bymonth") THEN {date.m} ELSE a.bymonth
      bymonthday == IF plain /\ a.freq <= MONTHLY THEN {date.d} ELSE a.bymonthday
      byweekday  == IF plain /\ a.freq = WEEKLY THEN {<<Weekday(day), 0>>} ELSE a.byweekday
      numbered   == {w \in byweekday : w[2] # 0 /\ a.freq <= MONTHLY} IN
  [ freq |-> a.freq, dtstart |-> a.dtstart, interval |-> a.interval, wkst |-> a.wkst,
    count |-> a.count, until |-> a.until, bysetpos |-> a.bysetpos,
    bymonth |-> bymonth, byyearday |-> a.byyearday, byeaster |-> a.byeaster,
    byweekno |-> a.byweekno, bymonthday |-> bymonthday,
    byweekday |-> {w[1] : w \in byweekday \ numbered}, bynweekday |-> numbered,
    byhour   |-> TimePart(a, "byhour", HOURLY, sec \div 3600, 24),
    byminute |-> TimePart(a, "byminute", MINUTELY, (sec \div 60) % 60, 60),
    bysecond |-> TimePart(a, "bysecond", SECONDLY, sec % 60, 60) ]

(* The constructor refuses a rule with a byset that cannot be reached. *)
Refused(a) ==
  \E p \in {<<"byhour", HOURLY>>, <<"byminute", MINUTELY>>, <<"bysecond", SECONDLY>>} :
    a.freq = p[2] /\ IsGiven(a, p[1]) /\ NewRule(a)[p[1]] = {}

-----------------------------------------------------------------------------
(* _iterinfo: the masks.                                                    *)

MMask(y, i)  == IF i >= YearLen(y) THEN 1
                ELSE MonthOf(y, i)
MDay(y, i)   == IF i >= YearLen(y) THEN i - YearLen(y) + 1 ELSE i - MRange(y)[MMask(y, i)] + 1
NMDay(y, i)  == MDay(y, i) - MonthLen(y, MMask(y, i)) - 1
WDay(y, i)   == (Weekday(NewYear(y)) + i) % 7

(* From i up to the next day on which a week starts. *)
RestOfWeek(y, wkst, i) == {i + j : j \in {k \in 0..6 : \A n \in 1..k : WDay(y, i + n) # wkst}}

(* wnomask: the first week of a year is the first with four days of it. *)
WnoMask(r, y) ==
  LET yearweekday == Weekday(NewYear(y))
      firstwkst == (7 - yearweekday + r.wkst) % 7
      no1wkst   == IF firstwkst >= 4 THEN 0 ELSE firstwkst
      wyearlen  == IF firstwkst >= 4 THEN YearLen(y) + ((yearweekday - r.wkst) % 7)
                   ELSE YearLen(y) - no1wkst
      numweeks  == wyearlen \div 7 + (wyearlen % 7) \div 4
      start(n)  == IF n = 1 THEN no1wkst
                   ELSE no1wkst + (n - 1) * 7 - IF no1wkst # firstwkst THEN 7 - firstwkst ELSE 0
      weeks     == {IF n < 0 THEN n + numweeks + 1 ELSE n : n \in r.byweekno} \cap 1..numweeks
      next      == start(numweeks + 1)
      lyearweekday == Weekday(NewYear(y - 1))
      lno1wkst  == (7 - lyearweekday + r.wkst) % 7
      lnumweeks == IF -1 \in r.byweekno THEN -1
                   ELSE IF lno1wkst >= 4
                   THEN 52 + ((YearLen(y - 1) + ((lyearweekday - r.wkst) % 7)) % 7) \div 4
                   ELSE 52 + ((YearLen(y) - no1wkst) % 7) \div 4 IN
  UNION {RestOfWeek(y, r.wkst, start(n)) : n \in weeks}
  \cup (IF 1 \in r.byweekno /\ next < YearLen(y) THEN RestOfWeek(y, r.wkst, next) ELSE {})
  \cup (IF lnumweeks \in r.byweekno THEN 0 .. no1wkst - 1 ELSE {})

(* nwdaymask: the n-th or n-th last weekdays of a year, of months, of a month. *)
NwdayMask(r, y, m) ==
  LET range(k) == <<MRange(y)[k], MRange(y)[k + 1] - 1>>
      ranges == IF r.freq = MONTHLY THEN {range(m)}
                ELSE IF r.bymonth # {} THEN {range(k) : k \in r.bymonth}
                ELSE {<<0, YearLen(y) - 1>>}
      nth(f, l, w) == IF w[2] < 0
                      THEN LET i == l + (w[2] + 1) * 7 IN i - ((WDay(y, i) - w[1]) % 7)
                      ELSE LET i == f + (w[2] - 1) * 7 IN i + ((7 - WDay(y, i) + w[1]) % 7) IN
  {i \in {nth(p[1], p[2], w) : p \in ranges, w \in r.bynweekday} :
     \E p \in ranges, w \in r.bynweekday : i = nth(p[1], p[2], w) /\ p[1] <= i /\ i <= p[2]}

(* eastermask, a list that a negative index enters from its end, and that an index
   beyond either end does not enter: IndexError. *)
EasterDays(r, y) == {Easter(y) - NewYear(y) + offset : offset \in r.byeaster}
EasterFails(r, y) ==
  \E i \in EasterDays(r, y) : i \notin -(YearLen(y) + 7) .. YearLen(y) + 6
EasterMask(r, y) ==
  {IF i < 0 THEN i + YearLen(y) + 7 ELSE i : i \in EasterDays(r, y)}

(* ydayset, mdayset, wdayset, ddayset *)
DaySet(r, y, m, d) ==
  LET i == Day(y, m, d) - NewYear(y)
      from(first, length) == [k \in 1..length |-> first + k - 1] IN
  CASE r.freq = YEARLY  -> from(0, YearLen(y))
    [] r.freq = MONTHLY -> from(MRange(y)[m], MonthLen(y, m))
    [] r.freq = WEEKLY  -> from(i, Cardinality(RestOfWeek(y, r.wkst, i)))
    [] OTHER            -> <<i>>

(* htimeset, mtimeset, stimeset, and the timeset of the coarser frequencies. *)
TimeSet(r, h, mi, s) ==
  Ascending({hh * 3600 + mm * 60 + ss :
     hh \in IF r.freq < HOURLY THEN r.byhour ELSE {h},
     mm \in IF r.freq < MINUTELY THEN r.byminute ELSE {mi},
     ss \in IF r.freq < SECONDLY THEN r.bysecond ELSE {s}})

-----------------------------------------------------------------------------
(* rrule._iter                                                              *)

In(x, by) == by = {} \/ x \in by

NewGenerator(r) ==
  LET date == Date(DayOf(r.dtstart))
      sec  == SecOf(r.dtstart)
      h == sec \div 3600   mi == (sec \div 60) % 60   s == sec % 60 IN
  [ rule |-> r, y |-> date.y, m |-> date.m, d |-> date.d, h |-> h, mi |-> mi, s |-> s,
    weekday |-> Weekday(DayOf(r.dtstart)),
    times |-> IF \/ r.freq >= HOURLY /\ ~In(h, r.byhour)
                 \/ r.freq >= MINUTELY /\ ~In(mi, r.byminute)
                 \/ r.freq >= SECONDLY /\ ~In(s, r.bysecond)
              THEN <<>> ELSE TimeSet(r, h, mi, s),
    pending |-> <<>>, total |-> 0, done |-> FALSE, raised |-> FALSE ]

(* The days of the period that no part of the rule excludes. *)
Kept(g) ==
  LET r == g.rule
      y == g.y
      len == YearLen(y)
      wno == IF r.byweekno = {} THEN {} ELSE WnoMask(r, y)
      nwday == IF r.bynweekday = {} THEN {} ELSE NwdayMask(r, y, g.m)
      easter == IF r.byeaster = {} THEN {} ELSE EasterMask(r, y)
      keeps(i) ==
     /\ In(MMask(y, i), r.bymonth)
     /\ r.byweekno # {} => i \in wno
     /\ In(WDay(y, i), r.byweekday)
     /\ r.bynweekday # {} => i \in nwday
     /\ r.byeaster # {} => i \in easter
     /\ r.bymonthday # {} => MDay(y, i) \in r.bymonthday \/ NMDay(y, i) \in r.bymonthday
     /\ r.byyearday # {} =>
          IF i < len THEN i + 1 \in r.byyearday \/ i - len \in r.byyearday
          ELSE i + 1 - len \in r.byyearday \/ i - len - YearLen(y + 1) \in r.byyearday IN
  SelectSeq(DaySet(r, y, g.m, g.d), keeps)

(* What a position selects from days and times, for a position from either end. *)
AtPos(days, times, pos) ==
  LET n == IF pos < 0 THEN pos ELSE pos - 1
      k == n \div Len(times) + IF pos < 0 THEN Len(days) + 1 ELSE 1 IN
  {<<days[j], times[(n % Len(times)) + 1]>> : j \in {k} \cap DOMAIN days}

(* The occurrences of the period, in order. *)
ResultsOf(g, days) ==
  LET r == g.rule
      n == Len(g.times)
      at(day, sec) == Time(NewYear(g.y) + day, sec) IN
  IF r.bysetpos # {} /\ n > 0
  THEN Ascending({at(p[1], p[2]) : p \in UNION {AtPos(days, g.times, k) : k \in r.bysetpos}})
  ELSE [k \in 1 .. Len(days) * n |-> at(days[(k - 1) \div n + 1], g.times[((k - 1) % n) + 1])]

Results(g) == ResultsOf(g, Kept(g))

(* Those before dtstart are passed over; until and count end the generator. *)
EmitOf(g, all) ==
  LET r == g.rule
      due  == SelectSeq(all, LAMBDA t : t >= r.dtstart /\ \A u \in r.until : t <= u)
      room == IF r.count = {} THEN Len(due) ELSE Max(r.count) - g.total
      some == IF Len(due) <= room THEN due ELSE SubSeq(due, 1, room) IN
  [g EXCEPT !.pending = some, !.total = @ + Len(some),
            !.done = \/ all # <<>> /\ \E u \in r.until : Last(all) > u
                     \/ Len(due) > room]
Emit(g) == EmitOf(g, Results(g))

(* A day number beyond the month is carried into the months after it. *)
GoTo(g, date) ==
  IF date.y > MaxYear THEN [g EXCEPT !.done = TRUE]
  ELSE [g EXCEPT !.y = date.y, !.m = date.m, !.d = date.d]
Carry(g) == GoTo(g, Date(Day(g.y, g.m, 1) + g.d - 1))

NextYear(g) ==
  IF g.y + g.rule.interval > MaxYear THEN [g EXCEPT !.done = TRUE]
  ELSE [g EXCEPT !.y = @ + g.rule.interval]

NextMonth(g) ==
  LET k == g.m + g.rule.interval - 1
      y == g.y + k \div 12 IN
  IF y > MaxYear THEN [g EXCEPT !.done = TRUE]
  ELSE [g EXCEPT !.m = (k % 12) + 1, !.y = y]

NextWeekOfStart(g) ==  \* faulty: not back to the start of the week
  Carry([g EXCEPT !.d = @ + g.rule.interval * 7])
NextWeek(g) ==
  Carry([g EXCEPT !.d = @ - ((g.weekday - g.rule.wkst) % 7) + g.rule.interval * 7,
                  !.weekday = g.rule.wkst])

NextDay(g) == Carry([g EXCEPT !.d = @ + g.rule.interval])

(* The finer frequencies go from `now`, counted in hours, minutes or seconds of
   the day, by as many intervals as lead to the next time that the by-sets have
   (__mod_distance and the loops around it) - from the last period of the day
   where the day was excluded. *)
Filtered(g) == Kept(g) # DaySet(g.rule, g.y, g.m, g.d)
LaterThan(from, i, length, ok(_)) ==
  LET found(k) == ok(from + k * i) IN
  IF \E k \in 1..length : found(k)
  THEN {from + i * CHOOSE k \in 1..length : found(k) /\ \A j \in 1..k - 1 : ~found(j)}
  ELSE {}
Later(g, now, length, ok(_)) ==
  LET i == g.rule.interval IN
  LaterThan(IF Filtered(g) THEN now + ((length - 1 - now) \div i) * i ELSE now, i, length, ok)

(* A rule that has no such time raises. *)
AtTime(g, later, length, hour(_), minute(_), second(_)) ==
  IF later = {} THEN [g EXCEPT !.done = TRUE, !.raised = TRUE]
  ELSE LET t == Max(later) IN
       Carry([g EXCEPT !.d = @ + t \div length, !.h = hour(t), !.mi = minute(t), !.s = second(t),
                       !.times = TimeSet(g.rule, hour(t), minute(t), second(t))])

NextHour(g) ==
  LET hour(x) == x % 24 IN
  AtTime(g, Later(g, g.h, 24, LAMBDA x : In(hour(x), g.rule.byhour)), 24,
         hour, LAMBDA x : g.mi, LAMBDA x : g.s)

NextMinute(g) ==
  LET hour(x) == (x \div 60) % 24
      minute(x) == x % 60
      ok(x) == In(minute(x), g.rule.byminute) /\ In(hour(x), g.rule.byhour) IN
  AtTime(g, Later(g, g.h * 60 + g.mi, 1440, ok), 1440, hour, minute, LAMBDA x : g.s)

NextSecond(g) ==
  LET hour(x) == (x \div 3600) % 24
      minute(x) == (x \div 60) % 60
      second(x) == x % 60
      ok(x) == /\ In(second(x), g.rule.bysecond)
               /\ In(minute(x), g.rule.byminute) /\ In(hour(x), g.rule.byhour) IN
  AtTime(g, Later(g, g.h * 3600 + g.mi * 60 + g.s, 86400, ok), 86400, hour, minute, second)

NextPeriod(g) ==
  CASE g.rule.freq = YEARLY   -> NextYear(g)
    [] g.rule.freq = MONTHLY  -> NextMonth(g)
    [] g.rule.freq = WEEKLY   -> NextWeek(g)
    [] g.rule.freq = DAILY    -> NextDay(g)
    [] g.rule.freq = HOURLY   -> NextHour(g)
    [] g.rule.freq = MINUTELY -> NextMinute(g)
    [] g.rule.freq = SECONDLY -> NextSecond(g)

(* The loop of _iter, once; next() goes round until something is pending or done.
   The masks of a new year are built before anything of it is looked for. *)
Continue(g) == IF g.done THEN g ELSE NextPeriod(g)
Fill(g) ==
  IF EasterFails(g.rule, g.y) THEN [g EXCEPT !.done = TRUE, !.raised = TRUE]
  ELSE Continue(Emit(g))
=============================================================================
