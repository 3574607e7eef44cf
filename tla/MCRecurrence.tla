----------------------------- MODULE MCRecurrence -----------------------------
(* Rules of every frequency with the parts that select days and times, read by
   one iterator, and small sets that two iterators read while dates are added. *)
EXTENDS Recurrence
CONSTANTS r1, r2
MCReaders == {r1, r2}

At(y, m, d, h) == Time(Day(y, m, d), h * 3600 + 600)
Rule(freq, dtstart, until) ==
  [freq |-> freq, dtstart |-> dtstart, until |-> {until}, interval |-> 1, wkst |-> 0,
   count |-> {}, bysetpos |-> {}, bymonth |-> {}, bymonthday |-> {}, byyearday |-> {},
   byeaster |-> {}, byweekno |-> {}, byweekday |-> {}, byhour |-> {}, byminute |-> {},
   bysecond |-> {}, empty |-> {}]

(* How the days of the coarse frequencies are selected. *)
DayParts(a) ==
  { a, [a EXCEPT !.bymonth = {1, 2}], [a EXCEPT !.bymonthday = {-1, 29, 13}],
    [a EXCEPT !.byyearday = {1, 60, -1, -306}], [a EXCEPT !.byeaster = {-47, 39}],
    [a EXCEPT !.byweekno = {1, 9, -1}], [a EXCEPT !.byweekno = {53}],
    [a EXCEPT !.byweekday = {<<4, 0>>}, !.bymonthday = {13}],
    [a EXCEPT !.byweekday = {<<0, 1>>, <<6, -1>>, <<1, 5>>}],
    [a EXCEPT !.byweekday = {<<0, 1>>, <<6, -1>>, <<1, 5>>}, !.bymonth = {2, 12}],
    [a EXCEPT !.byweekday = {<<0, 1>>, <<2, 0>>}],
    [a EXCEPT !.byweekday = {<<1, 0>>, <<4, 0>>}, !.byhour = {9, 18}, !.bysetpos = {2, -1}] }

Coarse ==
  UNION {DayParts([a EXCEPT !.interval = n, !.wkst = w]) : n \in {1, 3}, w \in {0, 6},
    a \in { Rule(YEARLY, At(2003, 12, 29, 9), At(2007, 12, 31, 9)),
            Rule(MONTHLY, At(2003, 12, 30, 9), At(2005, 3, 5, 9)),
            Rule(WEEKLY, At(2003, 12, 3, 9), At(2004, 4, 20, 9)),
            Rule(DAILY, At(2003, 12, 20, 9), At(2004, 1, 20, 9)) }}

(* The fine frequencies, with parts that are coarser and finer than themselves. *)
TimeParts(a) ==
  { a, [a EXCEPT !.byhour = {9, 23}], [a EXCEPT !.byminute = {0, 30}],
    [a EXCEPT !.bysecond = {0, 20}], [a EXCEPT !.byhour = {1}, !.byminute = {10, 40}],
    [a EXCEPT !.bymonthday = {1}, !.byhour = {0, 2}], [a EXCEPT !.byminute = {7}] }
Fine ==
  UNION {TimeParts(a) :
    a \in { [Rule(HOURLY, At(2003, 12, 30, 9), At(2004, 1, 2, 9)) EXCEPT !.interval = 5],
            [Rule(MINUTELY, At(2003, 12, 31, 9), At(2004, 1, 1, 9)) EXCEPT !.interval = 90],
            [Rule(SECONDLY, At(2003, 12, 31, 22), At(2004, 1, 1, 3)) EXCEPT !.interval = 1190] }}

(* An Easter day beyond the masks; parts that are given and empty. *)
Odd == { [Rule(YEARLY, At(2004, 2, 27, 9), At(2005, 3, 10, 9)) EXCEPT !.byeaster = {300}],
         [Rule(MONTHLY, At(2003, 12, 30, 9), At(2004, 1, 9, 9)) EXCEPT !.empty = {"bymonthday"}],
         [Rule(DAILY, At(2007, 12, 27, 9), At(2007, 12, 30, 9)) EXCEPT !.empty = {"byhour"}] }
Counted == { [Rule(DAILY, At(2004, 2, 27, 9), At(2004, 3, 10, 9)) EXCEPT !.count = {3}],
             [Rule(MONTHLY, At(2007, 5, 31, 9), 0) EXCEPT !.until = {}] }

Single == {[isset |-> FALSE, cached |-> FALSE, readers |-> {r1}, rules |-> <<a>>, exrules |-> <<>>,
            rdate |-> <<>>, exdate |-> <<>>, additions |-> {}] : a \in {b \in Coarse \cup Fine \cup Odd : ~Refused(b)} \cup Counted}

Daily  == [Rule(DAILY, At(2004, 2, 27, 9), At(2004, 3, 10, 9)) EXCEPT !.count = {3}]
Second == [Daily EXCEPT !.interval = 2, !.count = {2}]
Shared == {[isset |-> FALSE, cached |-> TRUE, readers |-> MCReaders, rules |-> <<Daily>>, exrules |-> <<>>,
            rdate |-> <<>>, exdate |-> <<>>, additions |-> {}]}
Twice  == [Daily EXCEPT !.count = {2}]
Extra  == At(2004, 2, 21, 9)
Set == [isset |-> TRUE, cached |-> FALSE, readers |-> MCReaders,
        rules |-> <<Daily, Second>>, exrules |-> <<Second>>,
        rdate |-> <<At(2004, 3, 1, 9), At(2004, 2, 20, 9)>>, exdate |-> <<At(2004, 2, 28, 9)>>,
        additions |-> {<<"rdate", Extra>>, <<"exdate", Extra>>}]
Sets == { Set, [Set EXCEPT !.exrules = <<>>],
          [Set EXCEPT !.cached = TRUE, !.rules = <<Twice>>, !.exrules = <<>>,
                      !.rdate = <<At(2004, 2, 20, 9)>>, !.additions = {<<"rdate", Extra>>}] }
Nothing == [isset |-> FALSE, cached |-> FALSE, readers |-> {}, rules |-> <<>>, exrules |-> <<>>,
            rdate |-> <<>>, exdate |-> <<>>, additions |-> {}]
MCObjects == Single \cup Shared \cup Sets \cup {Nothing}

(* The weeks around the ends of the years 2009 to 2012. *)
Weeks == {[Rule(YEARLY, At(2009, 12, 1, 9), At(2012, 12, 31, 9)) EXCEPT !.byweekno = {n}] :
            n \in {1, 51, 52, 53}}
MCWeeks == {[isset |-> FALSE, cached |-> FALSE, readers |-> {r1}, rules |-> <<a>>,
             exrules |-> <<>>, rdate |-> <<>>, exdate |-> <<>>, additions |-> {}] : a \in Weeks}
=============================================================================
