---------------------------- MODULE DeltaExamples ----------------------------
(***************************************************************************)
(* For RelativeDelta: datetimes around the ends of months and of years,    *)
(* leap years among them, and arguments whose fields overflow.             *)
(***************************************************************************)
EXTENDS Integers

MCMoments ==
  {<<2003, 12, 31, 0>>, <<2004, 1, 31, 86399>>, <<2004, 2, 29, 3600>>, <<2004, 3, 1, 0>>,
   <<2005, 2, 28, 3599>>, <<2005, 2, 28, 3600>>, <<2005, 3, 31, 43200>>, <<1999, 11, 30, 1>>,
   <<2004, 12, 31, 86399>>, <<2000, 4, 30, 0>>, <<9999, 12, 30, 1>>}
MCDeltas ==
  {[months |-> 11, hours |-> 23, seconds |-> 59],
   [months |-> -14, minutes |-> -121, leapdays |-> -1],
   [days |-> 40, hours |-> -50, seconds |-> 86461, day |-> {31}],
   [years |-> 1, weekday |-> {<<0, 0>>}, day |-> {1}],
   [month |-> {2}, hour |-> {5}, weekday |-> {<<4, -2>>}]}
MCYearDays == {1, 31, 32, 59, 60, 61, 90, 91, 120, 121, 334, 335, 364, 365}
MCFactors == {-1, 3}
=============================================================================
