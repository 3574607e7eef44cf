------------------------------- MODULE MCDates -------------------------------
(***************************************************************************)
(* The three parts of dateutil that compute with dates: recurrences, a     *)
(* clock in a time zone, and relative deltas.  They share the calendar and *)
(* no state, so that a behaviour is one of a part, while the others rest.  *)
(***************************************************************************)
EXTENDS MCRecurrence, ZoneClock, ZoneExamples, RelativeDelta, DeltaExamples

VARIABLE part

-----------------------------------------------------------------------------
NoRule  == obj = Nothing /\ Init
NoClock == zone = [kind |-> "fixed", name |-> "none", off |-> 0] /\ utc = ClockEnd /\ entry = {}
NoMove  ==
  /\ first = Moment(<<2004, 2, 29, 0>>) /\ second = first
  /\ delta = Relative /\ meant = Meaning(delta) /\ ops = MaxOps

DatesInit ==
  \/ part = "recurrence" /\ Init /\ NoClock /\ NoMove
  \/ part = "clock" /\ NoRule /\ ClockInit /\ NoMove
  \/ part = "delta" /\ NoRule /\ NoClock /\ DeltaInit
DatesNext ==
  /\ UNCHANGED part
  /\ \/ part = "recurrence" /\ Next /\ UNCHANGED <<clockVars, deltaVars>>
     \/ part = "clock" /\ ClockNext /\ UNCHANGED <<vars, deltaVars>>
     \/ part = "delta" /\ DeltaNext /\ UNCHANGED <<vars, clockVars>>
DatesSpec ==
  DatesInit /\ [][DatesNext]_<<part, vars, clockVars, deltaVars>> /\ Fairness

=============================================================================
