------------------------------- MODULE ZoneClock -------------------------------
(***************************************************************************)
(* A clock in a time zone of dateutil, and somebody who enters times that  *)
(* he read from it: what TimeZones computes compared with what the data of *)
(* the zone says.                                                          *)
(***************************************************************************)
EXTENDS TimeZones

CONSTANTS ClockZones,  \* the zones
          ClockEnd,    \* bound: the clock runs from 0 to this time of UTC
          MaxOffset    \* no offset is larger, east or west

ASSUME ClockAssumption ==
  DayLength \in Nat \ {0} /\ YearLength \in Nat \ {0} /\ ClockEnd \in Nat /\ MaxOffset \in Nat

VARIABLES zone,      \* the zone of the clock
          utc,       \* the time
          entry      \* the time on the wall that was entered last, {} for none

clockVars == <<zone, utc, entry>>

Loaded(z) == IF z.kind = "file" THEN ReadTzfile(z) ELSE z
Shown     == FromUtc(zone, utc)

ClockInit ==
  /\ zone \in {Loaded(z) : z \in ClockZones}
  /\ utc = 0
  /\ entry = {}

Tick ==
  /\ utc < ClockEnd
  /\ utc' = utc + 1
  /\ entry' = {}
  /\ UNCHANGED zone

(* Somebody enters a time that some zone's wall may show now. *)
Enter(w, f) ==
  /\ entry = {}
  /\ entry' = {Enfold(w, f)}
  /\ UNCHANGED <<zone, utc>>

ClockNext == Tick \/ \E d \in -MaxOffset .. MaxOffset, f \in {0, 1} : Enter(utc + d, f)
ClockSpec == ClockInit /\ [][ClockNext]_clockVars

-----------------------------------------------------------------------------
(* The offset that the data of a zone gives a time of UTC.                    *)

Changes(z, u) ==
  LET years == YearNumber(u) - 1 .. YearNumber(u) + 1 IN
  CASE z.kind = "file"  -> {<<z.trans[i][1], Type(z, i).off>> : i \in Indices(z)}
    [] z.kind = "range" -> IF ~z.hasdst THEN {}
                           ELSE {<<n * YearLength + z.start - z.std, z.dst>> : n \in years}
                                  \cup {<<n * YearLength + z.end - z.std, z.std>> : n \in years}
    [] z.kind = "ical"  -> UNION {{<<o - z.comps[k].from, z.comps[k].to>> : o \in z.comps[k].onsets} :
                                     k \in DOMAIN z.comps}
Initial(z) == IF Standard(z) = {} THEN 1 ELSE CHOOSE k \in Standard(z) : \A j \in Standard(z) : k <= j
FirstOffset(z) ==
  CASE z.kind = "file"  -> z.types[IF z.trans = <<>> THEN 1 ELSE TtinfoBefore(z)].off
    [] z.kind = "range" -> z.std
    [] z.kind = "ical"  -> z.comps[Initial(z)].to
TrueOffset(z, u) ==
  CASE z.kind = "fixed" -> z.off
    [] z.kind = "local" -> IF u \in z.isdst THEN z.dst ELSE z.std
    [] OTHER -> LET past == {c \in Changes(z, u) : c[1] <= u} IN
                IF past = {} THEN FirstOffset(z)
                ELSE (CHOOSE c \in past : \A d \in past : d[1] <= c[1])[2]
Sources(z, w) == {u \in w - MaxOffset .. w + MaxOffset : u + TrueOffset(z, u) = w}

-----------------------------------------------------------------------------
(* The zones that dateutil computes rightly.                                  *)

(* A file: the clock is not set back at its first transition, its last is to
   standard time, and each is put where the wall shows it: when the clock is set
   back at what it shows then, otherwise anywhere in what it leaves out. *)
OffsetBefore(z, i) == IF i = 1 THEN z.types[TtinfoBefore(z)].off ELSE Type(z, i - 1).off
PutRight(z, i) ==
  LET old == OffsetBefore(z, i)
      new == Type(z, i).off
      put == z.list[i] - z.trans[i][1] IN
  CASE new < old -> put = new /\ i > 1
    [] old < new -> old <= put /\ put <= new
    [] OTHER     -> TRUE
SoundFile(z) ==
  z.trans = <<>> \/ ( /\ \A i \in Indices(z) : PutRight(z, i)
                      /\ z.trans[Len(z.trans)][2] = TtinfoStd(z) )
(* A rule: DST is ahead of standard time, and a year has its two transitions in
   UTC and on the wall. *)
InYear(w) == 0 <= w /\ w < YearLength
SoundRange(z) ==
  z.hasdst => /\ z.dst > z.std
              /\ \A t \in {z.start, z.end} : InYear(t - z.std) /\ InYear(t) /\ InYear(t + z.dst - z.std - 1)
Sound(z) == (z.kind = "file" => SoundFile(z)) /\ (z.kind = "range" => SoundRange(z))

RightNow == Shown.wall = utc + TrueOffset(zone, utc) /\ ToUtc(zone, Shown.wall, Shown.fold) = utc

(* The clock shows the time of the zone's data, and what it shows, with the fold,
   stands for the time that it is: also in the hour that comes twice. *)
ClockIsRight == Sound(zone) => RightNow

(* A time that is entered is called ambiguous if it comes twice, imaginary if it
   never comes, and an imaginary one is resolved to one that comes. *)
EntriesAreRight ==
  Sound(zone) => \A e \in entry :
    /\ IsAmbiguous(zone, e.wall) <=> Cardinality(Sources(zone, e.wall)) > 1
    /\ Exists(zone, e.wall, e.fold) <=> Sources(zone, e.wall) # {}
    /\ Sources(zone, ResolveImaginary(zone, e.wall, e.fold).wall) # {}

-----------------------------------------------------------------------------
(* What the theorems take the data of a zone to be: it has its offsets, and from
   one change of the clock to the next it is a day at least.                  *)

(* The times on the wall that a transition is about; the zone has its types. *)
WallsOf(z, i) == {z.trans[i][1] + OffsetBefore(z, i), z.trans[i][1] + Type(z, i).off, z.list[i]}
FileData(z) ==
  /\ z.types \in Seq([off : -MaxOffset .. MaxOffset, isdst : BOOLEAN]) /\ z.types # <<>>
  /\ z.trans \in Seq(Int \X DOMAIN z.types) /\ z.list \in [Indices(z) -> Int]
  /\ \A i \in Indices(z) : Type(z, i).off - OffsetBefore(z, i) <= DayLength
  /\ \A i \in Indices(z) \ {1} : \A v \in WallsOf(z, i - 1), w \in WallsOf(z, i) : v + DayLength <= w

Between(a, b) == IF a < b THEN b - a ELSE a - b

RangeData(z) ==
  /\ z.std \in -MaxOffset .. MaxOffset /\ z.dst \in -MaxOffset .. MaxOffset
  /\ z.start \in Int /\ z.end \in Int /\ z.hasdst \in BOOLEAN
  /\ z.hasdst => LET apart == DayLength + z.dst - z.std IN
       /\ z.dst - z.std <= DayLength
       /\ Between(z.start, z.end) \in apart .. YearLength - apart

(* In a day and the step of the clock DST does not both begin and end. *)
LocalData(z) ==
  LET step   == Between(z.std, z.dst)
      margin == 2 * MaxOffset + DayLength IN
  /\ z.std \in -MaxOffset .. MaxOffset /\ z.dst \in -MaxOffset .. MaxOffset /\ step <= DayLength
  /\ \A t \in -margin .. ClockEnd + margin : \A x \in t .. t + DayLength + step :
       (t \in z.isdst <=> x \in z.isdst) => \A v \in t .. x : v \in z.isdst <=> t \in z.isdst

(* One component, or components that lead from s to d and back. *)
IcalData(z) ==
  /\ Len(z.comps) \in Nat \ {0} /\ DOMAIN z.comps = 1..Len(z.comps)
  /\ \A k \in DOMAIN z.comps : z.comps[k].onsets \subseteq Int /\ z.comps[k].isdst \in BOOLEAN
  /\ \/ /\ Len(z.comps) = 1
        /\ z.comps[1].from \in -MaxOffset .. MaxOffset /\ z.comps[1].to \in -MaxOffset .. MaxOffset
     \/ \E s, d \in -MaxOffset .. MaxOffset :
          /\ s < d /\ d - s <= DayLength /\ Standard(z) # {}
          /\ \A k \in DOMAIN z.comps :
               <<z.comps[k].from, z.comps[k].to>> = IF z.comps[k].isdst THEN <<s, d>> ELSE <<d, s>>
          /\ \A j \in Standard(z), k \in DOMAIN z.comps \ Standard(z) :
               \A o \in z.comps[j].onsets, p \in z.comps[k].onsets :
                 o + DayLength <= p \/ p + DayLength + d - s <= o - (d - s)

(* The data of each kind of zone. *)
HasData(z) ==
  \/ z.kind = "fixed" /\ z.off \in -MaxOffset .. MaxOffset
  \/ z.kind = "file"  /\ FileData(z)
  \/ z.kind = "range" /\ RangeData(z)
  \/ z.kind = "local" /\ LocalData(z)
  \/ z.kind = "ical"  /\ IcalData(z)

ASSUME ZoneAssumption == \A z \in ClockZones : Sound(Loaded(z)) => HasData(Loaded(z))
=============================================================================
