------------------------------- MODULE TimeZones -------------------------------
(***************************************************************************)
(* dateutil's time zones (dateutil/tz/_common.py and dateutil/tz/tz.py):   *)
(* how a time of UTC becomes a time on the wall of a zone, and back.       *)
(*                                                                         *)
(* Times and offsets are integers of one unit, an hour where the instances *)
(* give values.  A zone is a record with a `kind`:                         *)
(*   "fixed"  tzoffset            off                                      *)
(*   "file"   tzfile              trans: <<time of UTC, type>>, types, and *)
(*                                list and dstoffset that it computes      *)
(*   "range"  tzrange and tzstr   std, dst, hasdst, start, end             *)
(*   "local"  tzlocal             std, dst, and when the C library has DST *)
(*   "ical"   a VTIMEZONE         comps: from, to, isdst, onsets           *)
(* A time on the wall is a number; `fold` is 1 for the second of two times *)
(* that look the same.                                                     *)
(***************************************************************************)
EXTENDS Integers, Sequences, FiniteSets

CONSTANTS DayLength,   \* the units of a day
          YearLength   \* the units of a year, for the rules of "range"

Greatest(S)  == CHOOSE x \in S : \A y \in S : y <= x
Enfold(w, f) == [wall |-> w, fold |-> f]
Bit(b)       == IF b THEN 1 ELSE 0

-----------------------------------------------------------------------------
(* tzfile: what _read_tzfile makes of the transitions and their types.        *)

Type(z, i)   == z.types[z.trans[i][2]]
Indices(z)   == 1..Len(z.trans)
OfKind(z, d) == {i \in Indices(z) : Type(z, i).isdst = d}

(* ttinfo_std and ttinfo_before, as indices into the types. *)
TtinfoStd(z) ==
  IF z.trans = <<>> THEN 1
  ELSE z.trans[Greatest(IF OfKind(z, FALSE) # {} THEN OfKind(z, FALSE) ELSE OfKind(z, TRUE))][2]
TtinfoBefore(z) ==
  LET std == {k \in DOMAIN z.types : ~z.types[k].isdst} IN
  IF std = {} THEN 1 ELSE CHOOSE k \in std : \A j \in std : k <= j

(* What the loop over the transitions carries: the offset of DST is the last step
   into it, or that of the transition before. *)
Scan(z) ==
  LET scan[i \in 0..Len(z.trans)] ==
        IF i = 0 THEN [isdst |-> {}, off |-> 0, dstoff |-> 0, base |-> {}, adj |-> 0]
        ELSE
        LET p == scan[i - 1]
            t == Type(z, i)
            step == IF t.isdst /\ p.isdst = {FALSE} THEN t.off - p.off ELSE 0
            dst  == IF ~t.isdst \/ p.isdst = {} THEN 0
                    ELSE IF step # 0 THEN step ELSE p.dstoff
            base == t.off - dst IN
        [ isdst |-> {t.isdst}, off |-> t.off, base |-> {base},
          dstoff |-> IF t.isdst /\ p.isdst # {} THEN dst ELSE p.dstoff,
          adj |-> IF p.base \notin {{}, {base}} /\ {t.isdst} # p.isdst
                  THEN CHOOSE b \in p.base : TRUE ELSE base ]
  IN scan
(* A type's dstoffset is set by each transition to it that follows another; the last stays. *)
DstTransitions(z, k) == {i \in Indices(z) : z.trans[i][2] = k /\ i > 1 /\ Type(z, i).isdst}
ReadTzfile(z) ==
  LET scan == Scan(z) IN
  [z EXCEPT
    !.list = [i \in Indices(z) |-> z.trans[i][1] + scan[i].adj],
    !.dstoffset = [k \in DOMAIN z.types |->
                     IF DstTransitions(z, k) = {} THEN 0 ELSE scan[Greatest(DstTransitions(z, k))].dstoff]]
TransUtc(z) == [i \in Indices(z) |-> z.trans[i][1]]

(* bisect_right: the last transition that is not later, 0 for none. *)
FindLast(list, t) == LET S == {i \in DOMAIN list : list[i] <= t} IN IF S = {} THEN 0 ELSE Greatest(S)
(* _get_ttinfo: standard time from the last transition on. *)
GetTtinfo(z, i) ==
  IF z.trans = <<>> \/ i >= Len(z.trans) THEN TtinfoStd(z)
  ELSE IF i < 1 THEN TtinfoBefore(z) ELSE z.trans[i][2]
OffsetAt(z, i) == z.types[GetTtinfo(z, i)].off

FileAmbiguousOneMore(z, w, i) ==  \* faulty: <= for <
  i > 1 /\ w <= z.list[i] + OffsetAt(z, i - 1) - OffsetAt(z, i)
FileAmbiguous(z, w, i) ==
  i > 1 /\ w < z.list[i] + OffsetAt(z, i - 1) - OffsetAt(z, i)
ResolvedNever(z, w, f) == FindLast(z.list, w)  \* faulty: the fold is not asked for
Resolved(z, w, f) ==
  LET i == FindLast(z.list, w) IN i - Bit(f = 0 /\ FileAmbiguous(z, w, i))
FileDst(z, w, f) ==
  LET k == GetTtinfo(z, Resolved(z, w, f)) IN
  IF OfKind(z, TRUE) # {} /\ z.types[k].isdst THEN z.dstoffset[k] ELSE 0
FileFromUtc(z, u) ==
  LET i == FindLast(TransUtc(z), u)
      w == u + OffsetAt(z, i) IN
  Enfold(w, Bit(FileAmbiguous(z, w, i)))

-----------------------------------------------------------------------------
(* tzrangebase: two transitions in each year, in standard time.               *)

YearNumber(w)  == w \div YearLength
Start(z, w)    == YearNumber(w) * YearLength + z.start
End(z, w)      == YearNumber(w) * YearLength + z.end
NaiveIsDst(w, on, off) == IF on < off THEN on <= w /\ w < off ELSE ~(off <= w /\ w < on)
RangeAmbiguous(z, w)   == z.hasdst /\ End(z, w) <= w /\ w < End(z, w) + z.dst - z.std
RangeIsDst(z, w, f) ==
  LET naive == NaiveIsDst(w, Start(z, w), End(z, w)) IN
  z.hasdst /\ IF ~naive /\ RangeAmbiguous(z, w) THEN f = 0 ELSE naive
RangeFromUtc(z, u) ==
  LET isdst == z.hasdst /\ NaiveIsDst(u, Start(z, u) - z.std, End(z, u) - z.std)
      w     == u + IF isdst THEN z.dst ELSE z.std IN
  Enfold(w, Bit(~isdst /\ RangeAmbiguous(z, w)))

-----------------------------------------------------------------------------
(* tzlocal, over the C library's localtime: z.isdst is the times of UTC with DST. *)

LocalNaive(z, w)     == w - z.std \in z.isdst
LocalAmbiguous(z, w) == ~LocalNaive(z, w) /\ LocalNaive(z, w - (z.dst - z.std))
LocalIsDst(z, w, f)  ==
  z.dst # z.std /\ IF LocalAmbiguous(z, w) THEN f = 0 ELSE LocalNaive(z, w)

-----------------------------------------------------------------------------
(* _tzicalvtz: the component with the latest onset.                           *)

OnsetOf(c, w, f) ==
  LET t == IF c.to < c.from /\ f = 1 THEN w + c.from - c.to ELSE w IN
  {o \in c.onsets : o <= t /\ \A p \in c.onsets : p <= t => p <= o}
Latest(z, w, f) ==
  {k \in DOMAIN z.comps :
    \E o \in OnsetOf(z.comps[k], w, f) :
      \A j \in DOMAIN z.comps : \A p \in OnsetOf(z.comps[j], w, f) : p < o \/ (p = o /\ k <= j)}
Standard(z) == {k \in DOMAIN z.comps : ~z.comps[k].isdst}
(* {} where the code raises: before the first onset, without a standard component. *)
FindComp(z, w, f) ==
  IF Len(z.comps) = 1 THEN {1}
  ELSE IF Latest(z, w, f) # {} THEN Latest(z, w, f)
  ELSE {k \in Standard(z) : \A j \in Standard(z) : k <= j}
Comp(z, w, f) == z.comps[CHOOSE k \in FindComp(z, w, f) : TRUE]

-----------------------------------------------------------------------------
(* What every zone answers.                                                   *)

UtcOffset(z, w, f) ==
  CASE z.kind = "fixed" -> z.off
    [] z.kind = "file"  -> OffsetAt(z, Resolved(z, w, f))
    [] z.kind = "range" -> IF RangeIsDst(z, w, f) THEN z.dst ELSE z.std
    [] z.kind = "local" -> IF LocalIsDst(z, w, f) THEN z.dst ELSE z.std
    [] z.kind = "ical"  -> Comp(z, w, f).to
Dst(z, w, f) ==
  CASE z.kind = "fixed" -> 0
    [] z.kind = "file"  -> FileDst(z, w, f)
    [] z.kind = "range" -> IF RangeIsDst(z, w, f) THEN z.dst - z.std ELSE 0
    [] z.kind = "local" -> IF LocalIsDst(z, w, f) THEN z.dst - z.std ELSE 0
    [] z.kind = "ical"  -> IF Comp(z, w, f).isdst THEN Comp(z, w, f).to - Comp(z, w, f).from ELSE 0

IsAmbiguous(z, w) ==
  CASE z.kind = "fixed" -> FALSE
    [] z.kind = "file"  -> FileAmbiguous(z, w, FindLast(z.list, w))
    [] z.kind = "range" -> RangeAmbiguous(z, w)
    [] z.kind = "local" -> LocalAmbiguous(z, w)
    [] z.kind = "ical"  -> UtcOffset(z, w, 0) # UtcOffset(z, w, 1)

(* _tzinfo.fromutc: the standard offset is what utcoffset and dst say of the time
   of UTC as if it were on the wall, and DST is looked up with it. *)
StdOffset(z, u)  == UtcOffset(z, u, 0) - Dst(z, u, 0)
FoldStatus(z, u, w) == Bit(IsAmbiguous(z, w) /\ w - u = StdOffset(z, u))
BaseFromUtc(z, u) ==
  LET s == u + StdOffset(z, u)
      w == s + Dst(z, s, 1) IN
  Enfold(w, FoldStatus(z, u, w))

FromUtc(z, u) ==
  CASE z.kind = "fixed" -> Enfold(u + z.off, 0)
    [] z.kind = "file"  -> FileFromUtc(z, u)
    [] z.kind = "range" -> RangeFromUtc(z, u)
    [] z.kind \in {"local", "ical"} -> BaseFromUtc(z, u)
ToUtc(z, w, f) == w - UtcOffset(z, w, f)

(* datetime_exists: whether the wall time survives the way to UTC and back. *)
Exists(z, w, f) == FromUtc(z, ToUtc(z, w, f)).wall = w
(* resolve_imaginary: moved by the difference between a day later and a day before;
   arithmetic with a timedelta loses the fold. *)
ResolveImaginary(z, w, f) ==
  IF Exists(z, w, f) THEN Enfold(w, f)
  ELSE Enfold(w + UtcOffset(z, w + DayLength, 0) - UtcOffset(z, w - DayLength, 0), 0)
=============================================================================
