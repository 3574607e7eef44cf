---------------------------- MODULE RRuleReference ----------------------------
(***************************************************************************)
(* What RFC 5545 (3.3.10) says a recurrence rule means, for the same       *)
(* arguments as NewRule takes: a set of times, defined by counting days    *)
(* and without a generator.  Where dateutil documents a difference, its    *)
(* word is taken: dtstart is an occurrence only if the rule has it, a      *)
(* week number may limit any frequency, and Easter is its addition.        *)
(***************************************************************************)
EXTENDS RRule

SpanOf(a, t) ==
  LET day == DayOf(t)
      date == Date(day) IN
  CASE a.freq = YEARLY   -> date.y
    [] a.freq = MONTHLY  -> date.y * 12 + date.m
    [] a.freq = WEEKLY   -> (day + 6 - a.wkst) \div 7
    [] a.freq = DAILY    -> day
    [] a.freq = HOURLY   -> t \div 3600
    [] a.freq = MINUTELY -> t \div 60
    [] a.freq = SECONDLY -> t

(* The week of a day belongs to the year that has the week's fourth day. *)
WeekNumbers(day, wkst) ==
  LET fourth(d) == d - ((d + 6 - wkst) % 7) + 3
      y     == YearOf(fourth(day))
      week(d) == (fourth(d) - NewYear(y)) \div 7 + 1
      weeks == IF YearOf(fourth(NewYear(y + 1) - 1)) = y THEN week(NewYear(y + 1) - 1)
               ELSE week(NewYear(y + 1) - 8) IN
  {week(day), week(day) - weeks - 1}

(* w[2] counts the weekdays of the year or of the month, from either end. *)
IsNth(a, day, w) ==
  LET date  == Date(day)
      whole == a.freq = YEARLY /\ a.bymonth = {}
      first == IF whole THEN NewYear(date.y) ELSE Day(date.y, date.m, 1)
      last  == first - 1 + IF whole THEN YearLen(date.y) ELSE MonthLen(date.y, date.m) IN
  \/ w[2] = 0 \/ a.freq > MONTHLY
  \/ w[2] = (day - first) \div 7 + 1
  \/ w[2] = -((last - day) \div 7 + 1)

DayMatches(a, day) ==
  LET date  == Date(day)
      start == Date(DayOf(a.dtstart))
      i     == day - NewYear(date.y)
      free  == a.byweekno \cup a.byyearday \cup a.bymonthday \cup a.byeaster = {}
               /\ a.byweekday = {} IN
  /\ In(date.m, IF free /\ a.freq = YEARLY /\ a.bymonth = {} THEN {start.m} ELSE a.bymonth)
  /\ a.byweekno # {} => WeekNumbers(day, a.wkst) \cap a.byweekno # {}
  /\ a.byyearday # {} => {i + 1, i - YearLen(date.y)} \cap a.byyearday # {}
  /\ a.bymonthday # {} => {date.d, date.d - MonthLen(date.y, date.m) - 1} \cap a.bymonthday # {}
  /\ free /\ a.freq <= MONTHLY => date.d = start.d
  /\ free /\ a.freq = WEEKLY => Weekday(day) = Weekday(DayOf(a.dtstart))
  /\ a.byweekday # {} => \E w \in a.byweekday : Weekday(day) = w[1] /\ IsNth(a, day, w)
  /\ a.byeaster # {} => \E y \in date.y - 1 .. date.y + 1 : day - Easter(y) \in a.byeaster

(* Parts of the time that are finer than the frequency are those of dtstart. *)
Part(a, by, at, now) == IF by # {} THEN by ELSE IF a.freq < at THEN {now} ELSE {}
TimeMatches(a, sec) ==
  LET now == SecOf(a.dtstart) IN
  /\ In(sec \div 3600, Part(a, a.byhour, HOURLY, now \div 3600))
  /\ In((sec \div 60) % 60, Part(a, a.byminute, MINUTELY, (now \div 60) % 60))
  /\ In(sec % 60, Part(a, a.bysecond, SECONDLY, now % 60))

(* Times whose spans are due, over whole spans at either end. *)
Candidates(a, until) ==
  LET back == CASE a.bysetpos = {} -> 0 [] a.freq = YEARLY -> 366 [] a.freq = MONTHLY -> 31 [] a.freq = WEEKLY -> 7
                [] OTHER -> 0
      unit == CASE a.freq = HOURLY -> 3600 [] a.freq = MINUTELY -> 60 [] OTHER -> 1
      now(k) == (SecOf(a.dtstart) \div k) % IF k = 3600 THEN 24 ELSE 60
      parts(by, k) == IF by = {} THEN {now(k)} ELSE by
      fine == {h * 3600 + m * 60 + s : h \in parts(a.byhour, 3600),
                 m \in parts(a.byminute, 60), s \in parts(a.bysecond, 1)}
      due(t) == (SpanOf(a, t) - SpanOf(a, a.dtstart)) % a.interval = 0 IN
  IF a.freq < HOURLY
  THEN {Time(d, s) : s \in fine,
          d \in {e \in DayOf(a.dtstart) - back .. DayOf(until) + back :
                  due(Time(e, 0)) /\ DayMatches(a, e)}}
  ELSE {t \in {k * unit + (s % unit) : s \in fine,
               k \in {n \in a.dtstart \div unit .. until \div unit : due(n * unit)}} :
          TimeMatches(a, SecOf(t)) /\ DayMatches(a, DayOf(t))}

(* The times at the positions that bysetpos counts from either end of their span. *)
AtPositions(a, all) ==
  LET span(k) == {t \in all : SpanOf(a, t) = k}
      place(t, times) == {Cardinality({u \in times : u <= t}), -Cardinality({u \in times : u >= t})} IN
  IF a.bysetpos = {} THEN all
  ELSE UNION {{t \in times : place(t, times) \cap a.bysetpos # {}} :
                times \in {span(SpanOf(a, t)) : t \in all}}
AtMost(counts, times) ==
  {t \in times : \A n \in counts : Cardinality({u \in times : u <= t}) <= n}

(* The occurrences up to `until`, and the first so many where there is a count. *)
Recurrences(a, until) ==
  AtMost(a.count, {t \in AtPositions(a, Candidates(a, until)) : a.dtstart <= t /\ t <= until})
=============================================================================
