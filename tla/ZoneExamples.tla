------------------------------ MODULE ZoneExamples ------------------------------
(***************************************************************************)
(* Zones for ZoneClock, with years of 20 hours and DST in their second     *)
(* half or, in the south, across their end.  The files have the            *)
(* transitions of real ones in this short time: the end of DST that        *)
(* changes the base offset as well (Iqaluit in 1999), a move of the zone   *)
(* (east), DST below standard time (Dublin), double summer time (London in *)
(* the war), a first entry of local mean time, an end within DST.          *)
(***************************************************************************)
EXTENDS Integers

S(o) == [off |-> o, isdst |-> FALSE]
D(o) == [off |-> o, isdst |-> TRUE]
File(name, trans, types) ==
  [kind |-> "file", name |-> name, trans |-> trans, types |-> types,
   list |-> <<>>, dstoffset |-> <<>>]
Yearly == <<<<4, 1>>, <<10, 2>>, <<20, 1>>, <<30, 2>>, <<40, 1>>>>
Dublin == File("dublin", Yearly, <<S(1), D(0)>>)
Iqaluit == File("iqaluit", <<<<4, 1>>, <<10, 2>>, <<20, 3>>, <<30, 4>>, <<40, 3>>>>,
                <<S(1), D(2), S(0), D(1)>>)
MCFiles ==
  { File("north", Yearly, <<S(1), D(2)>>),
    File("west", Yearly, <<S(-3), D(-2)>>),
    File("mean", <<<<4, 2>>, <<10, 3>>, <<20, 2>>, <<30, 3>>, <<40, 2>>>>, <<S(0), S(1), D(2)>>),
    File("endless", <<<<4, 1>>, <<10, 2>>, <<20, 1>>, <<30, 2>>>>, <<S(1), D(2)>>),
    File("east", <<<<10, 2>>>>, <<S(-1), S(3)>>),
    File("none", <<>>, <<S(2)>>),
    File("ahead", <<<<4, 1>>, <<10, 2>>, <<20, 1>>, <<30, 4>>, <<40, 3>>>>,
         <<S(1), D(2), S(3), D(4)>>),
    File("back", <<<<4, 3>>, <<10, 4>>, <<20, 3>>, <<30, 2>>, <<40, 1>>>>,
         <<S(1), D(2), S(3), D(4)>>),
    File("same", <<<<4, 1>>, <<10, 2>>, <<20, 3>>, <<30, 4>>, <<40, 3>>>>,
         <<S(1), D(2), S(2), D(3)>>),
    File("double", <<<<4, 1>>, <<10, 2>>, <<15, 3>>, <<20, 2>>, <<30, 1>>, <<40, 1>>>>,
         <<S(1), D(2), D(3)>>),
    File("war", <<<<4, 1>>, <<10, 2>>, <<15, 3>>, <<30, 1>>, <<40, 1>>>>, <<S(1), D(2), D(3)>>),
    Dublin, Iqaluit }

DstRule(name, std, dst, start, end) ==
  [kind |-> "range", name |-> name, std |-> std, dst |-> dst, hasdst |-> std # dst,
   start |-> start, end |-> end]
MCRules ==
  { DstRule("north", 1, 2, 6, 15), DstRule("south", 1, 2, 15, 6), DstRule("flat", 1, 1, 0, 0),
    DstRule("west", -2, -1, 6, 15), DstRule("newyear", 2, 3, 1, 10), DstRule("sylvester", -2, -1, 10, 19),
    DstRule("dublin", 1, 0, 6, 15), DstRule("wide", -2, 1, 6, 15) }

Local(name, std, dst) ==
  [kind |-> "local", name |-> name, std |-> std, dst |-> dst,
   isdst |-> IF std = dst THEN {} ELSE (10..19) \cup (30..39)]
MCLocals ==
  { Local("north", 1, 2), Local("west", -2, -1), Local("dublin", 1, 0), Local("none", 1, 1),
    Local("wide", 1, 4) }

C(from, to, isdst, onsets) == [from |-> from, to |-> to, isdst |-> isdst, onsets |-> onsets]
Ical(name, comps) == [kind |-> "ical", name |-> name, comps |-> comps]
MCIcals ==
  { Ical("north", <<C(2, 1, FALSE, {0, 21, 41}), C(1, 2, TRUE, {11, 31})>>),
    Ical("west", <<C(-1, -2, FALSE, {0, 21, 41}), C(-2, -1, TRUE, {11, 31})>>),
    Ical("one", <<C(1, 2, TRUE, {11, 31})>>) }

MCZones   == MCFiles \cup MCRules \cup MCLocals \cup MCIcals
               \cup {[kind |-> "fixed", name |-> "fixed", off |-> 3]}
=============================================================================
