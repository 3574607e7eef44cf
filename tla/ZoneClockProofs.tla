---------------------------- MODULE ZoneClockProofs ----------------------------
(***************************************************************************)
(* Clocks in time zones, for any zones of the five kinds that dateutil     *)
(* computes rightly and that have their data, and for any time: the wall   *)
(* shows the time, leads back to it, and what is entered is understood.    *)
(*                                                                         *)
(* First what a zone has to do for that (Right); then zones that go back   *)
(* and forth between two offsets, which fixed and local zones, rules and   *)
(* VTIMEZONEs are; then zone files, with any number of transitions.        *)
(***************************************************************************)
EXTENDS ZoneClock, TLAPS, FiniteSetTheorems, WellFoundedInduction

Offset     == -MaxOffset .. MaxOffset
ClockWalls == -MaxOffset .. (ClockEnd + MaxOffset)
IsSource(z, w, u) == u + TrueOffset(z, u) = w

(* What is to be shown of every zone: it computes the time on the wall, and the way
   back; knows which times come twice; and what never comes it moves to what does. *)
RightOffsets(z) ==
  /\ \A u \in Int : TrueOffset(z, u) \in Offset
  /\ \A w \in Int, f \in {0, 1} : UtcOffset(z, w, f) \in Offset
ShowsTime(z) ==
  \A u \in Int : \E f \in {0, 1} :
    /\ FromUtc(z, u) = Enfold(u + TrueOffset(z, u), f)
    /\ UtcOffset(z, u + TrueOffset(z, u), f) = TrueOffset(z, u)
KnowsTwice(z) ==
  \A w \in Int : IsAmbiguous(z, w) <=> \E t, u \in Int : t # u /\ IsSource(z, w, t) /\ IsSource(z, w, u)
FindsSource(z) ==
  \A w \in Int, f \in {0, 1} :
    (\E u \in Int : IsSource(z, w, u)) => IsSource(z, w, w - UtcOffset(z, w, f))
Resolves(z) ==
  \A w \in ClockWalls : (\A u \in Int : ~IsSource(z, w, u)) =>
    \E u \in Int :
      IsSource(z, w + UtcOffset(z, w + DayLength, 0) - UtcOffset(z, w - DayLength, 0), u)
Right(z) == RightOffsets(z) /\ ShowsTime(z) /\ KnowsTwice(z) /\ FindsSource(z) /\ Resolves(z)

LEMMA ShownIsRight ==
  ASSUME NEW z, Right(z), NEW u \in Int
  PROVE  /\ FromUtc(z, u).wall = u + TrueOffset(z, u)
         /\ ToUtc(z, FromUtc(z, u).wall, FromUtc(z, u).fold) = u
<1>1. TrueOffset(z, u) \in Int
  BY ClockAssumption DEF Right, RightOffsets, Offset
<1>2. PICK f \in {0, 1} : /\ FromUtc(z, u) = Enfold(u + TrueOffset(z, u), f)
                          /\ UtcOffset(z, u + TrueOffset(z, u), f) = TrueOffset(z, u)
  BY DEF Right, ShowsTime
<1>3. FromUtc(z, u).wall = u + TrueOffset(z, u) /\ FromUtc(z, u).fold = f
  BY <1>2 DEF Enfold
<1>. QED
  BY <1>1, <1>2, <1>3 DEF ToUtc

(* The sources of a time are looked for where they can be. *)
LEMMA SourcesAre ==
  ASSUME NEW z, Right(z), NEW w \in Int
  PROVE  /\ Sources(z, w) = {u \in Int : IsSource(z, w, u)}
         /\ IsFiniteSet(Sources(z, w))
<1>1. \A u \in Int : IsSource(z, w, u) => u \in w - MaxOffset .. w + MaxOffset
  BY ClockAssumption DEF Right, RightOffsets, Offset, IsSource
<1>2. w - MaxOffset \in Int /\ w + MaxOffset \in Int
  BY ClockAssumption
<1>3. Sources(z, w) = {u \in Int : IsSource(z, w, u)}
  BY <1>1, <1>2 DEF Sources, IsSource
<1>4. IsFiniteSet(w - MaxOffset .. w + MaxOffset)
  BY <1>2, FS_Interval
<1>. QED
  BY <1>3, <1>4, FS_Subset DEF Sources

LEMMA MoreThanOne ==
  ASSUME NEW S, IsFiniteSet(S)
  PROVE  Cardinality(S) > 1 <=> \E x, y \in S : x # y
<1>1. ASSUME NEW x \in S, NEW y \in S, x # y PROVE Cardinality(S) > 1
  <2>1. IsFiniteSet(S \ {x}) /\ Cardinality(S \ {x}) = Cardinality(S) - 1
    BY FS_RemoveElement
  <2>2. Cardinality(S \ {x}) # 0 /\ Cardinality(S \ {x}) \in Nat /\ Cardinality(S) \in Nat
    BY <2>1, <1>1, FS_EmptySet, FS_CardinalityType
  <2>. QED
    BY <2>1, <2>2
<1>2. ASSUME Cardinality(S) > 1 PROVE \E x, y \in S : x # y
  <2>1. S # {}
    BY <1>2, FS_EmptySet
  <2>2. PICK x \in S : TRUE
    BY <2>1
  <2>3. S # {x}
    BY <1>2, FS_Singleton
  <2>. QED
    BY <2>2, <2>3
<1>. QED
  BY <1>1, <1>2

LEMMA EntryIsRight ==
  ASSUME NEW z, Right(z), NEW w \in ClockWalls, NEW f \in {0, 1}
  PROVE  /\ IsAmbiguous(z, w) <=> Cardinality(Sources(z, w)) > 1
         /\ Exists(z, w, f) <=> Sources(z, w) # {}
         /\ Sources(z, ResolveImaginary(z, w, f).wall) # {}
<1>0. w \in Int /\ w + DayLength \in Int /\ w - DayLength \in Int
  BY ClockAssumption DEF ClockWalls
<1>1. IsAmbiguous(z, w) <=> Cardinality(Sources(z, w)) > 1
  <2>1. Cardinality(Sources(z, w)) > 1 <=> \E x, y \in Sources(z, w) : x # y
    BY <1>0, SourcesAre, MoreThanOne
  <2>. QED
    BY <1>0, <2>1, SourcesAre DEF Right, KnowsTwice
<1>2. UtcOffset(z, w, f) \in Int /\ w - UtcOffset(z, w, f) \in Int
  BY <1>0, ClockAssumption DEF Right, RightOffsets, Offset
<1>3. Exists(z, w, f) <=> IsSource(z, w, w - UtcOffset(z, w, f))
  BY <1>2, ShownIsRight DEF Exists, ToUtc, IsSource
<1>4. Exists(z, w, f) <=> Sources(z, w) # {}
  <2>1. (\E u \in Int : IsSource(z, w, u)) => IsSource(z, w, w - UtcOffset(z, w, f))
    BY <1>0 DEF Right, FindsSource
  <2>. QED
    BY <1>0, <1>2, <1>3, <2>1, SourcesAre
<1>5. Sources(z, ResolveImaginary(z, w, f).wall) # {}
  <2>1. CASE Exists(z, w, f)
    BY <2>1, <1>4 DEF ResolveImaginary, Enfold
  <2>2. CASE ~Exists(z, w, f)
    <3> DEFINE v == w + UtcOffset(z, w + DayLength, 0) - UtcOffset(z, w - DayLength, 0)
    <3>1. ResolveImaginary(z, w, f).wall = v
      BY <2>2 DEF ResolveImaginary, Enfold
    <3>2. \A u \in Int : ~IsSource(z, w, u)
      BY <2>2, <1>0, <1>4, SourcesAre
    <3>3. \E u \in Int : IsSource(z, v, u)
      BY <3>2 DEF Right, Resolves
    <3>4. v \in Int
      BY <1>0, ClockAssumption DEF Right, RightOffsets, Offset
    <3>. QED
      BY <3>1, <3>3, <3>4, SourcesAre
  <2>. QED
    BY <2>1, <2>2
<1>. QED
  BY <1>1, <1>4, <1>5

-----------------------------------------------------------------------------
(* A zone that switches between two offsets: P is the times, in standard time, that
   have DST.  Where a time comes twice the first one has it. *)
Twice(P, c, w) == w \notin P /\ w - c \in P
On(P, c, w, f) == IF Twice(P, c, w) THEN f = 0 ELSE w \in P
Switches(z, s, d, P) ==
  /\ s \in Offset /\ d \in Offset
  /\ \A u \in Int : TrueOffset(z, u) = IF u + s \in P THEN d ELSE s
  /\ \A w \in Int, f \in {0, 1} : UtcOffset(z, w, f) = IF On(P, d - s, w, f) THEN d ELSE s
  /\ \A w \in Int : IsAmbiguous(z, w) <=> Twice(P, d - s, w)
  /\ \A u \in Int : \E f \in {0, 1} :
       /\ FromUtc(z, u) = Enfold(u + TrueOffset(z, u), f)
       /\ Twice(P, d - s, u + TrueOffset(z, u)) => (f = 0 <=> u + s \in P)
(* A day before and after a switch it does not switch. *)
Calm(P, c) ==
  \A w \in ClockWalls : w \in P /\ w - c \notin P =>
    IF 0 <= c THEN w + DayLength \in P /\ w - DayLength \notin P /\ w - DayLength - c \notin P
    ELSE w + DayLength \notin P /\ (w + DayLength) - c \notin P /\ w - DayLength \in P

LEMMA SwitchIsRight ==
  ASSUME NEW z, NEW s, NEW d, NEW P, Switches(z, s, d, P), Calm(P, d - s)
  PROVE  Right(z)
<1> DEFINE c == d - s
<1>1. s \in Offset /\ d \in Offset /\ s \in Int /\ d \in Int /\ c \in Int
  BY ClockAssumption DEF Switches, Offset
<1>2. \A u \in Int : TrueOffset(z, u) = IF u + s \in P THEN d ELSE s
  BY DEF Switches
<1>3. \A w \in Int, f \in {0, 1} : UtcOffset(z, w, f) = IF On(P, c, w, f) THEN d ELSE s
  BY DEF Switches
<1>4. RightOffsets(z)
  BY <1>1, <1>2, <1>3 DEF RightOffsets
<1>5. ASSUME NEW w \in Int, NEW u \in Int
      PROVE  IsSource(z, w, u) <=> \/ u = w - s /\ w \notin P
                                   \/ u = w - d /\ w - c \in P
  <2>1. CASE u + s \in P
    <3>1. TrueOffset(z, u) = d
      BY <1>2, <2>1
    <3>2. ASSUME u = w - d PROVE u + s = w - c
      BY <1>1, <3>2
    <3>3. ASSUME u = w - s PROVE u + s = w
      BY <1>1, <3>3
    <3>4. IsSource(z, w, u) <=> u = w - d
      BY <1>1, <3>1 DEF IsSource
    <3>. QED
      BY <2>1, <3>2, <3>3, <3>4
  <2>2. CASE u + s \notin P
    <3>1. TrueOffset(z, u) = s
      BY <1>2, <2>2
    <3>2. ASSUME u = w - d PROVE u + s = w - c
      BY <1>1, <3>2
    <3>3. ASSUME u = w - s PROVE u + s = w
      BY <1>1, <3>3
    <3>4. IsSource(z, w, u) <=> u = w - s
      BY <1>1, <3>1 DEF IsSource
    <3>. QED
      BY <2>2, <3>2, <3>3, <3>4
  <2>. QED
    BY <2>1, <2>2
<1>6. ShowsTime(z)
  <2> SUFFICES ASSUME NEW u \in Int
               PROVE  \E f \in {0, 1} : /\ FromUtc(z, u) = Enfold(u + TrueOffset(z, u), f)
                                        /\ UtcOffset(z, u + TrueOffset(z, u), f) = TrueOffset(z, u)
    BY DEF ShowsTime
  <2>1. PICK f \in {0, 1} : /\ FromUtc(z, u) = Enfold(u + TrueOffset(z, u), f)
                            /\ Twice(P, c, u + TrueOffset(z, u)) => (f = 0 <=> u + s \in P)
    BY DEF Switches
  <2>2. CASE u + s \in P
    <3>1. TrueOffset(z, u) = d /\ u + d \in Int /\ (u + d) - c = u + s
      BY <1>1, <1>2, <2>2
    <3>2. On(P, c, u + d, f)
      BY <2>1, <2>2, <3>1 DEF On, Twice
    <3>. QED
      BY <1>3, <2>1, <3>1, <3>2
  <2>3. CASE u + s \notin P
    <3>1. TrueOffset(z, u) = s /\ u + s \in Int
      BY <1>1, <1>2, <2>3
    <3>2. ~On(P, c, u + s, f)
      BY <2>1, <2>3, <3>1 DEF On
    <3>. QED
      BY <1>3, <2>1, <3>1, <3>2
  <2>. QED
    BY <2>2, <2>3
<1>7. KnowsTwice(z)
  <2> SUFFICES ASSUME NEW w \in Int
               PROVE  IsAmbiguous(z, w) <=> \E t, u \in Int : t # u /\ IsSource(z, w, t) /\ IsSource(z, w, u)
    BY DEF KnowsTwice
  <2>1. IsAmbiguous(z, w) <=> Twice(P, c, w)
    BY DEF Switches
  <2>2. w - s \in Int /\ w - d \in Int
    BY <1>1
  <2>3. ASSUME Twice(P, c, w) PROVE \E t, u \in Int : t # u /\ IsSource(z, w, t) /\ IsSource(z, w, u)
    <3>1. IsSource(z, w, w - s) /\ IsSource(z, w, w - d)
      BY <1>5, <2>2, <2>3 DEF Twice
    <3>2. w - c # w
      BY <2>3 DEF Twice
    <3>3. w - s # w - d
      BY <1>1, <3>2
    <3>. QED
      BY <2>2, <3>1, <3>3
  <2>4. ASSUME NEW t \in Int, NEW u \in Int, t # u, IsSource(z, w, t), IsSource(z, w, u)
        PROVE  Twice(P, c, w)
    BY <1>5, <2>4 DEF Twice
  <2>. QED
    BY <2>1, <2>3, <2>4
<1>8. FindsSource(z)
  <2> SUFFICES ASSUME NEW w \in Int, NEW f \in {0, 1}, NEW u \in Int, IsSource(z, w, u)
               PROVE  IsSource(z, w, w - UtcOffset(z, w, f))
    BY DEF FindsSource
  <2>1. w \notin P \/ w - c \in P
    BY <1>5
  <2>2. w - s \in Int /\ w - d \in Int
    BY <1>1
  <2>3. CASE On(P, c, w, f)
    <3>1. w - c \in P
      BY <2>1, <2>3 DEF On, Twice
    <3>. QED
      BY <1>3, <1>5, <2>2, <2>3, <3>1
  <2>4. CASE ~On(P, c, w, f)
    <3>1. w \notin P
      BY <2>1, <2>4 DEF On, Twice
    <3>. QED
      BY <1>3, <1>5, <2>2, <2>4, <3>1
  <2>. QED
    BY <2>3, <2>4
<1>9. Resolves(z)
  <2> SUFFICES ASSUME NEW w \in ClockWalls, \A u \in Int : ~IsSource(z, w, u)
               PROVE  \E u \in Int : IsSource(z, w + UtcOffset(z, w + DayLength, 0)
                                               - UtcOffset(z, w - DayLength, 0), u)
    BY DEF Resolves
  <2>1. w \in Int /\ w + DayLength \in Int /\ w - DayLength \in Int /\ DayLength \in Int
    BY ClockAssumption DEF ClockWalls
  <2>2. w - s \in Int /\ w - d \in Int
    BY <1>1, <2>1
  <2>3. w \in P /\ w - c \notin P
    BY <1>5, <2>1, <2>2
  <2>4. UtcOffset(z, w + DayLength, 0) = IF On(P, c, w + DayLength, 0) THEN d ELSE s
    BY <1>3, <2>1
  <2>5. UtcOffset(z, w - DayLength, 0) = IF On(P, c, w - DayLength, 0) THEN d ELSE s
    BY <1>3, <2>1
  <2>6. CASE 0 <= c
    <3>1. w + DayLength \in P /\ w - DayLength \notin P /\ w - DayLength - c \notin P
      BY <2>3, <2>6 DEF Calm
    <3>2. On(P, c, w + DayLength, 0) /\ ~On(P, c, w - DayLength, 0)
      BY <3>1 DEF On, Twice
    <3>3. w + d - s \in Int /\ (w + d - s) - c = w /\ (w + d - s) - d = w - s
      BY <1>1, <2>1
    <3>4. IsSource(z, w + d - s, w - s)
      BY <1>5, <2>2, <2>3, <3>3
    <3>. QED
      BY <2>2, <2>4, <2>5, <3>2, <3>4
  <2>7. CASE ~(0 <= c)
    <3>1. w + DayLength \notin P /\ (w + DayLength) - c \notin P /\ w - DayLength \in P
      BY <2>3, <2>7 DEF Calm
    <3>2. ~On(P, c, w + DayLength, 0) /\ On(P, c, w - DayLength, 0)
      BY <3>1 DEF On, Twice
    <3>3. w + s - d \in Int /\ w + s - d = w - c /\ (w + s - d) - s = w - d
      BY <1>1, <2>1
    <3>4. IsSource(z, w + s - d, w - d)
      BY <1>5, <2>2, <2>3, <3>3
    <3>. QED
      BY <2>2, <2>4, <2>5, <3>2, <3>4
  <2>. QED
    BY <2>6, <2>7
<1>. QED
  BY <1>4, <1>6, <1>7, <1>8, <1>9 DEF Right

-----------------------------------------------------------------------------
(* Fixed offsets.                                                             *)

LEMMA FixedIsRight ==
  ASSUME NEW z, z.kind = "fixed", HasData(z)
  PROVE  Right(z)
<1>1. z.off \in Offset /\ z.off \in Int /\ z.off - z.off = 0
  BY ClockAssumption DEF HasData, Offset
<1>2. \A u \in Int : TrueOffset(z, u) = z.off
  BY DEF TrueOffset
<1>3. \A w \in Int, f \in {0, 1} : UtcOffset(z, w, f) = z.off
  BY DEF UtcOffset
<1>4. \A w \in Int : IsAmbiguous(z, w) <=> FALSE
  BY DEF IsAmbiguous
<1>5. \A u \in Int : FromUtc(z, u) = Enfold(u + z.off, 0)
  BY DEF FromUtc
<1>6. \A w \in Int : ~Twice({}, 0, w)
  BY DEF Twice
<1>7. Switches(z, z.off, z.off, {})
  BY <1>1, <1>2, <1>3, <1>4, <1>5, <1>6 DEF Switches
<1>8. Calm({}, 0)
  BY DEF Calm
<1>. QED
  BY <1>1, <1>7, <1>8, SwitchIsRight

-----------------------------------------------------------------------------
(* The zone of the C library.                                                 *)

LocalDst(z) == {x \in Int : x - z.std \in z.isdst}

LEMMA LocalCalm ==
  ASSUME NEW z, LocalData(z)
  PROVE  Calm(LocalDst(z), z.dst - z.std)
<1> DEFINE s == z.std   c == z.dst - z.std   L == DayLength   S == z.isdst   M == MaxOffset   H == ClockEnd
           step == Between(z.std, z.dst)   lo == -(2 * M + L)   hi == H + (2 * M + L)
<1>1. s \in Int /\ c \in Int /\ L \in Nat /\ M \in Nat /\ H \in Nat
  BY ClockAssumption DEF LocalData
<1>2. -M <= s /\ s <= M /\ -M <= s + c /\ s + c <= M
  BY ClockAssumption DEF LocalData
<1>3. step = (IF 0 <= c THEN c ELSE -c) /\ step <= L /\ step \in Nat
  BY <1>1, ClockAssumption DEF LocalData, Between
<1>4. \A t \in lo .. hi : \A x \in t .. t + L + step :
        (t \in S <=> x \in S) => \A v \in t .. x : v \in S <=> t \in S
  BY DEF LocalData
<1> HIDE DEF step, lo, hi, S, c, s
<1>5. ASSUME NEW t \in Int, NEW v \in Int, NEW x \in Int, t <= v, v <= x, x - t <= L + step,
             -(2 * M + L) <= t, t <= H + (2 * M + L), t \in S <=> x \in S
      PROVE  v \in S <=> t \in S
  <2>1. t \in lo .. hi
    BY <1>1, <1>5 DEF lo, hi
  <2>2. x \in t .. t + L + step /\ v \in t .. x
    BY <1>1, <1>3, <1>5
  <2>. QED
    BY <1>4, <1>5, <2>1, <2>2
<1>6. \A x \in Int : x \in LocalDst(z) <=> x - s \in S
  BY DEF LocalDst, s, S
<1>7. ASSUME NEW w \in ClockWalls, w \in LocalDst(z), w - c \notin LocalDst(z)
      PROVE  IF 0 <= c THEN w + L \in LocalDst(z) /\ w - L \notin LocalDst(z) /\ (w - L) - c \notin LocalDst(z)
             ELSE w + L \notin LocalDst(z) /\ (w + L) - c \notin LocalDst(z) /\ w - L \in LocalDst(z)
  <2>1. w \in Int /\ -M <= w /\ w <= H + M
    BY <1>1 DEF ClockWalls
  <2> DEFINE a == w - s   b == (w - c) - s
  <2>2. a \in Int /\ b \in Int /\ b = a - c /\ -(2 * M) <= a /\ a <= H + 2 * M /\ -(2 * M) <= b /\ b <= H + 2 * M
    BY <1>1, <1>2, <2>1
  <2>3. a \in S /\ b \notin S
    BY <1>1, <1>6, <1>7, <2>1
  <2>4. /\ w + L \in LocalDst(z) <=> a + L \in S
        /\ (w + L) - c \in LocalDst(z) <=> b + L \in S
        /\ w - L \in LocalDst(z) <=> a - L \in S
        /\ (w - L) - c \in LocalDst(z) <=> b - L \in S
    <3>1. (w + L) - s = a + L /\ ((w + L) - c) - s = b + L /\ (w - L) - s = a - L /\ ((w - L) - c) - s = b - L
      BY <1>1, <2>1
    <3>2. w + L \in Int /\ (w + L) - c \in Int /\ w - L \in Int /\ (w - L) - c \in Int
      BY <1>1, <2>1
    <3>. QED
      BY <1>6, <3>1, <3>2
  <2> HIDE DEF a, b
  <2>5. CASE 0 <= c
    <3>1. a + L \in S
      <4>1. a + L - b <= L + step /\ b <= a /\ a <= a + L /\ a + L \in Int
        BY <1>1, <1>3, <2>2, <2>5
      <4>. QED
        BY <1>1, <1>5, <2>2, <2>3, <4>1
    <3>2. b - L \notin S
      <4>1. a - (b - L) <= L + step /\ b - L <= b /\ b <= a /\ b - L \in Int /\ -(2 * M + L) <= b - L /\ b - L <= H + (2 * M + L)
        BY <1>1, <1>3, <2>2, <2>5
      <4>. QED
        BY <1>1, <1>5, <2>2, <2>3, <4>1
    <3>3. a - L \notin S
      <4>1. a - (a - L) <= L + step /\ a - L <= b /\ b <= a /\ a - L \in Int /\ -(2 * M + L) <= a - L /\ a - L <= H + (2 * M + L)
        BY <1>1, <1>3, <2>2, <2>5
      <4>. QED
        BY <1>1, <1>5, <2>2, <2>3, <4>1
    <3>. QED
      BY <2>4, <2>5, <3>1, <3>2, <3>3
  <2>6. CASE ~(0 <= c)
    <3>1. a + L \notin S
      <4>1. a + L - a <= L + step /\ a <= b /\ b <= a + L /\ a + L \in Int /\ -(2 * M + L) <= a /\ a <= H + (2 * M + L)
        BY <1>1, <1>3, <2>2, <2>6
      <4>. QED
        BY <1>1, <1>5, <2>2, <2>3, <4>1
    <3>2. b + L \notin S
      <4>1. b + L - a <= L + step /\ a <= b /\ b <= b + L /\ b + L \in Int /\ -(2 * M + L) <= a /\ a <= H + (2 * M + L)
        BY <1>1, <1>3, <2>2, <2>6
      <4>. QED
        BY <1>1, <1>5, <2>2, <2>3, <4>1
    <3>3. a - L \in S
      <4>1. b - (a - L) <= L + step /\ a - L <= a /\ a <= b /\ a - L \in Int /\ -(2 * M + L) <= a - L /\ a - L <= H + (2 * M + L)
        BY <1>1, <1>3, <2>2, <2>6
      <4>. QED
        BY <1>1, <1>5, <2>2, <2>3, <4>1
    <3>. QED
      BY <2>4, <2>6, <3>1, <3>2, <3>3
  <2>. QED
    BY <2>5, <2>6
<1>. QED
  BY <1>7 DEF Calm, c

(* _tzinfo.fromutc takes the standard offset to be the same at all times; then it
   finds the time on the wall, and fold tells the two times that look the same. *)
LEMMA BaseSwitches ==
  ASSUME NEW z, z.kind \in {"local", "ical"}, NEW s \in Offset, NEW d \in Offset, NEW P,
         \A u \in Int : TrueOffset(z, u) = IF u + s \in P THEN d ELSE s,
         \A w \in Int, f \in {0, 1} : /\ UtcOffset(z, w, f) = IF On(P, d - s, w, f) THEN d ELSE s
                                     /\ Dst(z, w, f) = UtcOffset(z, w, f) - s,
         \A w \in Int : IsAmbiguous(z, w) <=> Twice(P, d - s, w)
  PROVE  Switches(z, s, d, P)
<1>1. s \in Int /\ d \in Int
  BY ClockAssumption DEF Offset
<1>2. \A u \in Int : TrueOffset(z, u) = IF u + s \in P THEN d ELSE s
  OBVIOUS
<1>3. \A w \in Int, f \in {0, 1} : /\ UtcOffset(z, w, f) = IF On(P, d - s, w, f) THEN d ELSE s
                                  /\ Dst(z, w, f) = UtcOffset(z, w, f) - s
  OBVIOUS
<1>4. \A w \in Int : IsAmbiguous(z, w) <=> Twice(P, d - s, w)
  OBVIOUS
<1>5. ASSUME NEW u \in Int
      PROVE  \E f \in {0, 1} :
               /\ FromUtc(z, u) = Enfold(u + TrueOffset(z, u), f)
               /\ Twice(P, d - s, u + TrueOffset(z, u)) => (f = 0 <=> u + s \in P)
  <2> DEFINE w == u + TrueOffset(z, u)
  <2>1. StdOffset(z, u) = s
    <3>1. UtcOffset(z, u, 0) \in Int
      BY <1>1, <1>3
    <3>. QED
      BY <1>1, <1>3, <3>1 DEF StdOffset
  <2>2. u + s \in Int
    BY <1>1
  <2>3. On(P, d - s, u + s, 1) <=> u + s \in P
    BY DEF On, Twice
  <2>4. (u + s) + Dst(z, u + s, 1) = w
    <3>1. UtcOffset(z, u + s, 1) = TrueOffset(z, u)
      BY <1>2, <1>3, <2>2, <2>3
    <3>2. Dst(z, u + s, 1) = TrueOffset(z, u) - s
      BY <1>3, <2>2, <3>1
    <3>3. TrueOffset(z, u) \in Int
      BY <1>1, <1>2
    <3>. QED
      BY <1>1, <3>2, <3>3
  <2>5. FromUtc(z, u) = Enfold(w, FoldStatus(z, u, w))
    BY <2>1, <2>4 DEF FromUtc, BaseFromUtc
  <2>6. w \in Int /\ (w - u = s <=> TrueOffset(z, u) = s)
    BY <1>1, <1>2
  <2>7. FoldStatus(z, u, w) = Bit(Twice(P, d - s, w) /\ TrueOffset(z, u) = s)
    BY <1>4, <2>1, <2>6 DEF FoldStatus
  <2>8. ASSUME Twice(P, d - s, w) PROVE TrueOffset(z, u) = s <=> u + s \notin P
    <3>1. w - (d - s) # w
      BY <2>8 DEF Twice
    <3>2. d # s
      BY <1>1, <2>6, <3>1
    <3>. QED
      BY <1>2, <3>2
  <2>9. CASE Twice(P, d - s, w) /\ TrueOffset(z, u) = s
    BY <2>5, <2>7, <2>8, <2>9 DEF Bit
  <2>10. CASE ~(Twice(P, d - s, w) /\ TrueOffset(z, u) = s)
    BY <2>5, <2>7, <2>8, <2>10 DEF Bit
  <2>. QED
    BY <2>9, <2>10
<1>. QED
  BY <1>2, <1>3, <1>4, <1>5 DEF Switches

LEMMA LocalIsRight ==
  ASSUME NEW z, z.kind = "local", HasData(z)
  PROVE  Right(z)
<1> DEFINE s == z.std   d == z.dst   P == LocalDst(z)
<1>1. LocalData(z) /\ s \in Offset /\ d \in Offset /\ s \in Int /\ d \in Int
  BY ClockAssumption DEF HasData, LocalData, Offset
<1>2. \A x \in Int : x \in P <=> x - s \in z.isdst
  BY DEF LocalDst
<1>3. ASSUME NEW w \in Int PROVE IsAmbiguous(z, w) <=> Twice(P, d - s, w)
  <2>1. w - (d - s) \in Int
    BY <1>1
  <2>. QED
    BY <1>2, <2>1 DEF IsAmbiguous, LocalAmbiguous, LocalNaive, Twice
<1>4. ASSUME NEW u \in Int PROVE TrueOffset(z, u) = IF u + s \in P THEN d ELSE s
  <2>1. u + s \in Int /\ (u + s) - s = u
    BY <1>1
  <2>2. TrueOffset(z, u) = IF u \in z.isdst THEN d ELSE s
    BY DEF TrueOffset
  <2>. QED
    BY <1>2, <2>1, <2>2
<1>5. ASSUME NEW w \in Int, NEW f \in {0, 1}
      PROVE  /\ UtcOffset(z, w, f) = IF On(P, d - s, w, f) THEN d ELSE s
             /\ Dst(z, w, f) = UtcOffset(z, w, f) - s
  <2>1. LocalIsDst(z, w, f) <=> d # s /\ On(P, d - s, w, f)
    <3>1. LocalAmbiguous(z, w) <=> Twice(P, d - s, w)
      BY <1>3 DEF IsAmbiguous
    <3>2. LocalNaive(z, w) <=> w \in P
      BY <1>2 DEF LocalNaive
    <3>. QED
      BY <3>1, <3>2 DEF LocalIsDst, On
  <2>2. UtcOffset(z, w, f) = IF LocalIsDst(z, w, f) THEN d ELSE s
    BY DEF UtcOffset
  <2>3. Dst(z, w, f) = IF LocalIsDst(z, w, f) THEN d - s ELSE 0
    BY DEF Dst
  <2>. QED
    BY <1>1, <2>1, <2>2, <2>3
<1>6. Switches(z, s, d, P)
  BY <1>1, <1>3, <1>4, <1>5, BaseSwitches
<1>. QED
  BY <1>1, <1>6, LocalCalm, SwitchIsRight

-----------------------------------------------------------------------------
(* Zones with a rule for each year.                                           *)

LEMMA YearIs ==
  ASSUME NEW x \in Int
  PROVE  /\ YearNumber(x) \in Int /\ YearNumber(x) * YearLength \in Int
         /\ YearNumber(x) * YearLength <= x /\ x < YearNumber(x) * YearLength + YearLength
<1>1. YearLength \in Nat \ {0}
  BY ClockAssumption
<1>. QED
  BY <1>1 DEF YearNumber

LEMMA LaterYear ==
  ASSUME NEW n \in Int, NEW k \in Int, n < k
  PROVE  n * YearLength + YearLength <= k * YearLength
<1>1. YearLength \in Nat \ {0} /\ k - n - 1 \in Nat
  BY ClockAssumption
<1>2. (k - n - 1) * YearLength >= 0
  BY <1>1
<1>3. (k - n - 1) * YearLength = k * YearLength - n * YearLength - YearLength
  BY <1>1
<1>4. k * YearLength \in Int /\ n * YearLength \in Int
  BY <1>1
<1>. QED
  BY <1>1, <1>2, <1>3, <1>4

LEMMA YearUnique ==
  ASSUME NEW x \in Int, NEW n \in Int, n * YearLength <= x, x < n * YearLength + YearLength
  PROVE  YearNumber(x) = n
<1> DEFINE k == YearNumber(x)
<1>1. k \in Int /\ k * YearLength <= x /\ x < k * YearLength + YearLength /\ k * YearLength \in Int
  BY YearIs
<1>2. n * YearLength \in Int /\ YearLength \in Int
  BY ClockAssumption
<1> HIDE DEF k
<1>3. ~(k < n)
  <2> SUFFICES ASSUME k < n PROVE FALSE
    OBVIOUS
  <2>1. k * YearLength + YearLength <= n * YearLength
    BY <1>1, LaterYear
  <2>. QED
    BY <1>1, <1>2, <2>1
<1>4. ~(n < k)
  <2> SUFFICES ASSUME n < k PROVE FALSE
    OBVIOUS
  <2>1. n * YearLength + YearLength <= k * YearLength
    BY <1>1, LaterYear
  <2>. QED
    BY <1>1, <1>2, <2>1
<1>5. k = n
  BY <1>1, <1>3, <1>4
<1>. QED
  BY <1>5 DEF k

(* The years before and after the n-th, which begins with N. *)
LEMMA YearsAround ==
  ASSUME NEW n \in Int
  PROVE  /\ n * YearLength \in Int
         /\ (n + 1) * YearLength = n * YearLength + YearLength
         /\ (n - 1) * YearLength = n * YearLength - YearLength
<1>1. YearLength \in Nat
  BY ClockAssumption
<1>. QED
  BY <1>1

RuleDst(z) == {x \in Int : NaiveIsDst(x, Start(z, x), End(z, x))}
(* Of a year that begins with N, the times that have DST. *)
InRule(z, N, x) == NaiveIsDst(x, N + z.start, N + z.end)

LEMMA RuleIs ==
  ASSUME NEW z, NEW n \in Int, NEW x \in Int
  PROVE  LET N == n * YearLength   Y == YearLength IN
         /\ N - Y <= x /\ x < N => (x \in RuleDst(z) <=> InRule(z, N - Y, x))
         /\ N <= x /\ x < N + Y => (x \in RuleDst(z) <=> InRule(z, N, x))
         /\ N + Y <= x /\ x < (N + Y) + Y => (x \in RuleDst(z) <=> InRule(z, N + Y, x))
<1> DEFINE N == n * YearLength   Y == YearLength
<1>1. N \in Int /\ Y \in Int /\ (n + 1) * Y = N + Y /\ (n - 1) * Y = N - Y
  BY YearsAround, ClockAssumption
<1>2. ASSUME NEW k \in Int, k * Y <= x, x < k * Y + Y
      PROVE  x \in RuleDst(z) <=> InRule(z, k * Y, x)
  BY <1>2, YearUnique DEF RuleDst, InRule, Start, End
<1>3. N - Y <= x /\ x < N => (x \in RuleDst(z) <=> InRule(z, N - Y, x))
  <2> SUFFICES ASSUME N - Y <= x, x < N PROVE x \in RuleDst(z) <=> InRule(z, N - Y, x)
    OBVIOUS
  <2>1. (N - Y) + Y = N /\ n - 1 \in Int
    BY <1>1
  <2>. QED
    BY <1>1, <1>2, <2>1
<1>4. N <= x /\ x < N + Y => (x \in RuleDst(z) <=> InRule(z, N, x))
  BY <1>2
<1>5. N + Y <= x /\ x < (N + Y) + Y => (x \in RuleDst(z) <=> InRule(z, N + Y, x))
  <2>1. n + 1 \in Int
    OBVIOUS
  <2>. QED
    BY <1>1, <1>2, <2>1
<1>. QED
  BY <1>3, <1>4, <1>5

RuleNumbers(a, b, s, c, L, Y) ==
  /\ a \in Int /\ b \in Int /\ s \in Int /\ c \in Int /\ L \in Int /\ Y \in Int
  /\ 0 < c /\ c <= L
  /\ 0 <= a - s /\ a - s < Y /\ 0 <= a /\ a + c <= Y
  /\ 0 <= b - s /\ b - s < Y /\ 0 <= b /\ b + c <= Y
  /\ IF a < b THEN L + c <= b - a /\ b - a <= Y - (L + c)
     ELSE L + c <= a - b /\ a - b <= Y - (L + c)

LEMMA RuleNumbersAre ==
  ASSUME NEW z, RangeData(z), SoundRange(z), z.hasdst
  PROVE  RuleNumbers(z.start, z.end, z.std, z.dst - z.std, DayLength, YearLength)
<1>1. DayLength \in Int /\ YearLength \in Int /\ MaxOffset \in Int
  BY ClockAssumption
<1>2. z.start \in Int /\ z.end \in Int /\ z.std \in Int /\ z.dst \in Int
  BY <1>1 DEF RangeData
<1>3. ASSUME NEW t \in {z.start, z.end}
      PROVE  0 <= t - z.std /\ t - z.std < YearLength /\ 0 <= t /\ t + (z.dst - z.std) <= YearLength
  <2>1. InYear(t - z.std) /\ InYear(t) /\ InYear(t + z.dst - z.std - 1)
    BY DEF SoundRange
  <2>2. t \in Int
    BY <1>2
  <2>. QED
    BY <1>1, <1>2, <2>1, <2>2 DEF InYear
<1>4. z.dst > z.std
  BY DEF SoundRange
<1>5. /\ z.dst - z.std <= DayLength
      /\ Between(z.start, z.end) \in (DayLength + (z.dst - z.std)) .. (YearLength - (DayLength + (z.dst - z.std)))
  BY DEF RangeData
<1>. QED
  BY <1>1, <1>2, <1>3, <1>4, <1>5 DEF RuleNumbers, Between

(* A time is called ambiguous if it comes twice, and after DST. *)
LEMMA RuleTwice ==
  ASSUME NEW z, RangeData(z), SoundRange(z), z.hasdst, NEW w \in Int
  PROVE  RangeAmbiguous(z, w) <=> Twice(RuleDst(z), z.dst - z.std, w)
<1> DEFINE n == YearNumber(w)   N == n * YearLength   Y == YearLength   L == DayLength
           a == z.start   b == z.end   s == z.std   c == z.dst - z.std
<1>1. n \in Int /\ N \in Int /\ N <= w /\ w < N + Y
  BY YearIs
<1>2. RuleNumbers(a, b, s, c, L, Y)
  BY RuleNumbersAre
<1>3. w \in RuleDst(z) <=> NaiveIsDst(w, N + a, N + b)
  BY <1>1, RuleIs DEF InRule
<1>4. w - c \in Int
  BY <1>2 DEF RuleNumbers
<1>5. /\ N - Y <= w - c /\ w - c < N => (w - c \in RuleDst(z) <=> NaiveIsDst(w - c, (N - Y) + a, (N - Y) + b))
      /\ N <= w - c => (w - c \in RuleDst(z) <=> NaiveIsDst(w - c, N + a, N + b))
  <2>1. w - c < N + Y
    BY <1>1, <1>2, <1>4 DEF RuleNumbers
  <2>. QED
    BY <1>1, <1>4, <2>1, RuleIs DEF InRule
<1>6. RangeAmbiguous(z, w) <=> N + b <= w /\ w < N + b + c
  <2>1. End(z, w) = N + b
    BY DEF End
  <2>2. N + b + z.dst - z.std = N + b + c
    BY <1>1, <1>2 DEF RuleNumbers, RangeData
  <2>. QED
    BY <2>1, <2>2 DEF RangeAmbiguous
<1> HIDE DEF n, N, Y, L, a, b, s, c
<1>7. RangeAmbiguous(z, w) <=> Twice(RuleDst(z), c, w)
  <2>1. CASE a < b
    BY <1>1, <1>2, <1>3, <1>4, <1>5, <1>6, <2>1 DEF RuleNumbers, NaiveIsDst, Twice
  <2>2. CASE ~(a < b)
    BY <1>1, <1>2, <1>3, <1>4, <1>5, <1>6, <2>2 DEF RuleNumbers, NaiveIsDst, Twice
  <2>. QED
    BY <2>1, <2>2
<1>. QED
  BY <1>7 DEF c

LEMMA RuleCalm ==
  ASSUME NEW z, RangeData(z), SoundRange(z), z.hasdst
  PROVE  Calm(RuleDst(z), z.dst - z.std)
<1> DEFINE P == RuleDst(z)   Y == YearLength   L == DayLength
           a == z.start   b == z.end   s == z.std   c == z.dst - z.std
<1>1. RuleNumbers(a, b, s, c, L, Y)
  BY RuleNumbersAre
<1>2. ASSUME NEW w \in ClockWalls, w \in P, w - c \notin P
      PROVE  w + L \in P /\ w - L \notin P /\ (w - L) - c \notin P
  <2> DEFINE n == YearNumber(w)   N == n * YearLength
  <2>1. w \in Int
    BY ClockAssumption DEF ClockWalls
  <2>2. n \in Int /\ N \in Int /\ N <= w /\ w < N + Y
    BY <2>1, YearIs
  <2>3. ASSUME NEW x \in Int
        PROVE  /\ N - Y <= x /\ x < N => (x \in P <=> NaiveIsDst(x, (N - Y) + a, (N - Y) + b))
               /\ N <= x /\ x < N + Y => (x \in P <=> NaiveIsDst(x, N + a, N + b))
               /\ N + Y <= x /\ x < (N + Y) + Y => (x \in P <=> NaiveIsDst(x, (N + Y) + a, (N + Y) + b))
    BY <2>2, RuleIs DEF InRule
  <2> HIDE DEF n, N, P, Y, L, a, b, s, c
  <2>4. w - c \in Int /\ w + L \in Int
    BY <1>1, <2>1 DEF RuleNumbers
  <2>5. N + a <= w /\ w < N + a + c
    <3>1. /\ w \in P <=> NaiveIsDst(w, N + a, N + b)
          /\ N - Y <= w - c /\ w - c < N => (w - c \in P <=> NaiveIsDst(w - c, (N - Y) + a, (N - Y) + b))
          /\ N <= w - c => (w - c \in P <=> NaiveIsDst(w - c, N + a, N + b))
      <4>1. w - c < N + Y
        BY <1>1, <2>1, <2>2 DEF RuleNumbers
      <4>. QED
        BY <2>1, <2>2, <2>3, <2>4, <4>1
    <3>2. CASE a < b
      BY <1>1, <1>2, <2>1, <2>2, <3>1, <3>2 DEF RuleNumbers, NaiveIsDst
    <3>3. CASE ~(a < b)
      BY <1>1, <1>2, <2>1, <2>2, <3>1, <3>3 DEF RuleNumbers, NaiveIsDst
    <3>. QED
      BY <3>2, <3>3
  <2>6. w + L \in P
    <3>1. /\ N <= w + L /\ w + L < N + Y => (w + L \in P <=> NaiveIsDst(w + L, N + a, N + b))
          /\ N + Y <= w + L /\ w + L < (N + Y) + Y => (w + L \in P <=> NaiveIsDst(w + L, (N + Y) + a, (N + Y) + b))
      BY <2>3, <2>4
    <3>2. CASE a < b
      BY <1>1, <2>1, <2>2, <2>5, <3>1, <3>2 DEF RuleNumbers, NaiveIsDst
    <3>3. CASE ~(a < b)
      BY <1>1, <2>1, <2>2, <2>5, <3>1, <3>3 DEF RuleNumbers, NaiveIsDst
    <3>. QED
      BY <3>2, <3>3
  <2>7. ASSUME NEW x \in Int, x < N + a, N + a - (L + c) <= x PROVE x \notin P
    <3>1. /\ N - Y <= x /\ x < N => (x \in P <=> NaiveIsDst(x, (N - Y) + a, (N - Y) + b))
          /\ N <= x /\ x < N + Y => (x \in P <=> NaiveIsDst(x, N + a, N + b))
      BY <2>3
    <3>2. CASE a < b
      BY <1>1, <2>2, <2>7, <3>1, <3>2 DEF RuleNumbers, NaiveIsDst
    <3>3. CASE ~(a < b)
      BY <1>1, <2>2, <2>7, <3>1, <3>3 DEF RuleNumbers, NaiveIsDst
    <3>. QED
      BY <3>2, <3>3
  <2>8. w - L \notin P
    <3>1. w - L \in Int /\ w - L < N + a /\ N + a - (L + c) <= w - L
      BY <1>1, <2>1, <2>2, <2>5 DEF RuleNumbers
    <3>. QED
      BY <2>7, <3>1
  <2>9. (w - L) - c \notin P
    <3>1. (w - L) - c \in Int /\ (w - L) - c < N + a /\ N + a - (L + c) <= (w - L) - c
      BY <1>1, <2>1, <2>2, <2>5 DEF RuleNumbers
    <3>. QED
      BY <2>7, <3>1
  <2>. QED
    BY <2>6, <2>8, <2>9
<1>3. 0 <= c
  BY <1>1 DEF RuleNumbers
<1>. QED
  BY <1>2, <1>3 DEF Calm

(* The offset of a time is that of the latest change. *)
LEMMA LatestChange ==
  ASSUME NEW past, NEW e \in past, \A x \in past : x[1] <= e[1] /\ (e[1] <= x[1] => x[2] = e[2])
  PROVE  (CHOOSE x \in past : \A y \in past : y[1] <= x[1])[2] = e[2]
<1> DEFINE m == CHOOSE x \in past : \A y \in past : y[1] <= x[1]
<1>1. m \in past /\ \A y \in past : y[1] <= m[1]
  OBVIOUS
<1>. QED
  BY <1>1

LEMMA RuleOffset ==
  ASSUME NEW z, z.kind = "range", RangeData(z), SoundRange(z), z.hasdst, NEW u \in Int
  PROVE  TrueOffset(z, u) = IF u + z.std \in RuleDst(z) THEN z.dst ELSE z.std
<1> DEFINE a == z.start   b == z.end   s == z.std   d == z.dst   c == z.dst - z.std
           Y == YearLength   L == DayLength
           x == u + s   n == YearNumber(x)   N == n * Y   y == YearNumber(u)
           years == y - 1 .. y + 1
           past == {e \in Changes(z, u) : e[1] <= u}
<1>1. RuleNumbers(a, b, s, c, L, Y) /\ x \in Int /\ s \in Int /\ d \in Int
  <2>1. RuleNumbers(a, b, s, c, L, Y)
    BY RuleNumbersAre
  <2>2. s \in Int /\ d \in Int
    BY ClockAssumption DEF RangeData
  <2>. QED
    BY <2>1, <2>2
<1>2. /\ n \in Int /\ N \in Int /\ N <= x /\ x < N + Y /\ y \in Int
      /\ y * Y \in Int /\ y * Y <= u /\ u < y * Y + Y
  BY <1>1, YearIs
<1>3. x \in RuleDst(z) <=> NaiveIsDst(x, N + a, N + b)
  BY <1>1, <1>2, RuleIs DEF InRule
<1>4. past = {e \in {<<k * Y + a - s, d>> : k \in years} \cup {<<k * Y + b - s, s>> : k \in years} : e[1] <= u}
  BY DEF Changes
<1>5. /\ (n + 1) * Y = N + Y /\ (n - 1) * Y = N - Y
      /\ \A k \in Int : k * Y \in Int
      /\ \A k \in Int : k < n - 1 => k * Y + Y <= N - Y
      /\ \A k \in Int : n < k => N + Y <= k * Y
  <2>1. \A k \in Int : k * Y \in Int
    BY <1>1 DEF RuleNumbers
  <2>2. \A k \in Int : k < n - 1 => k * Y + Y <= (n - 1) * Y
    BY <1>2, LaterYear
  <2>. QED
    BY <1>2, <2>1, <2>2, YearsAround, LaterYear
<1>6. n \in years
  <2>1. ~(n < y - 1)
    <3> SUFFICES ASSUME n < y - 1 PROVE FALSE
      OBVIOUS
    <3>1. N + Y <= (y - 1) * Y /\ (y - 1) * Y = y * Y - Y
      BY <1>2, LaterYear, YearsAround
    <3>. QED
      BY <1>1, <1>2, <3>1 DEF RuleNumbers
  <2>2. ~(y + 1 < n)
    <3> SUFFICES ASSUME y + 1 < n PROVE FALSE
      OBVIOUS
    <3>1. (y + 1) * Y + Y <= N /\ (y + 1) * Y = y * Y + Y
      BY <1>2, LaterYear, YearsAround
    <3>. QED
      BY <1>1, <1>2, <3>1 DEF RuleNumbers
  <2>. QED
    BY <1>2, <2>1, <2>2
<1>7. x < N + a \/ x < N + b => n - 1 \in years
  <2> SUFFICES ASSUME x < N + a \/ x < N + b, n - 1 \notin years PROVE FALSE
    OBVIOUS
  <2>1. y = n + 1
    BY <1>2, <1>6, <2>1
  <2>2. N + Y <= u
    BY <1>2, <1>5, <2>1
  <2>. QED
    BY <1>1, <1>2, <2>2 DEF RuleNumbers
<1>8. \A k \in years : k \in Int
  BY <1>2
<1> HIDE DEF a, b, c, Y, L, n, N, y, years, past
<1>9. TrueOffset(z, u) = IF past = {} THEN FirstOffset(z)
                         ELSE (CHOOSE e \in past : \A g \in past : g[1] <= e[1])[2]
  BY DEF TrueOffset, past
<1>10. ASSUME NEW e \in past, \A g \in past : g[1] <= e[1] /\ (e[1] <= g[1] => g[2] = e[2])
       PROVE  TrueOffset(z, u) = e[2]
  <2>1. (CHOOSE h \in past : \A g \in past : g[1] <= h[1])[2] = e[2]
    BY <1>10, LatestChange
  <2>2. past # {}
    BY <1>10
  <2>. QED
    BY <1>9, <2>1, <2>2
<1>11. ASSUME NEW k \in years
       PROVE  /\ k * Y + a - s \in Int /\ k * Y + b - s \in Int
              /\ k * Y + a - s <= u <=> k * Y + a <= x
              /\ k * Y + b - s <= u <=> k * Y + b <= x
  BY <1>1, <1>5, <1>8, <1>11 DEF RuleNumbers
<1>12. ASSUME NEW e \in past
       PROVE  \E k \in years : \/ e = <<k * Y + a - s, d>> /\ k * Y + a <= x
                               \/ e = <<k * Y + b - s, s>> /\ k * Y + b <= x
  BY <1>4, <1>11, <1>12
<1>13. ASSUME NEW k \in years
       PROVE  /\ k * Y + a <= x => <<k * Y + a - s, d>> \in past
              /\ k * Y + b <= x => <<k * Y + b - s, s>> \in past
  BY <1>4, <1>11, <1>13
<1>14. ASSUME NEW k \in years, k * Y + a <= x,
              \A j \in years : j * Y + a <= x => j <= k,
              \A j \in years : j * Y + b <= x => j * Y + b < k * Y + a
       PROVE  TrueOffset(z, u) = d
  <2> DEFINE e == <<k * Y + a - s, d>>
  <2>1. e \in past
    BY <1>13, <1>14
  <2>2. ASSUME NEW g \in past PROVE g[1] <= e[1] /\ (e[1] <= g[1] => g[2] = e[2])
    <3>1. PICK j \in years : \/ g = <<j * Y + a - s, d>> /\ j * Y + a <= x
                             \/ g = <<j * Y + b - s, s>> /\ j * Y + b <= x
      BY <1>12
    <3>2. j * Y \in Int /\ k * Y \in Int /\ a \in Int /\ b \in Int /\ s \in Int /\ j \in Int /\ k \in Int
      BY <1>1, <1>5, <1>8, <1>14 DEF RuleNumbers
    <3>3. CASE g = <<j * Y + a - s, d>> /\ j * Y + a <= x
      <4>1. j <= k
        BY <1>14, <3>3
      <4>2. j * Y <= k * Y
        <5>1. CASE j = k
          BY <3>2, <5>1
        <5>2. CASE j < k
          <6>1. j * Y + Y <= k * Y
            BY <3>2, <5>2, LaterYear DEF Y
          <6>. QED
            BY <1>1, <3>2, <6>1 DEF RuleNumbers
        <5>. QED
          BY <3>2, <4>1, <5>1, <5>2
      <4>. QED
        BY <3>2, <3>3, <4>2
    <3>4. CASE g = <<j * Y + b - s, s>> /\ j * Y + b <= x
      <4>1. j * Y + b < k * Y + a
        BY <1>14, <3>4
      <4>. QED
        BY <3>2, <3>4, <4>1
    <3>. QED
      BY <3>1, <3>3, <3>4
  <2>3. TrueOffset(z, u) = e[2]
    BY <1>10, <2>1, <2>2
  <2>. QED
    BY <2>3
<1>15. ASSUME NEW k \in years, k * Y + b <= x,
              \A j \in years : j * Y + b <= x => j <= k,
              \A j \in years : j * Y + a <= x => j * Y + a < k * Y + b
       PROVE  TrueOffset(z, u) = s
  <2> DEFINE e == <<k * Y + b - s, s>>
  <2>1. e \in past
    BY <1>13, <1>15
  <2>2. ASSUME NEW g \in past PROVE g[1] <= e[1] /\ (e[1] <= g[1] => g[2] = e[2])
    <3>1. PICK j \in years : \/ g = <<j * Y + a - s, d>> /\ j * Y + a <= x
                             \/ g = <<j * Y + b - s, s>> /\ j * Y + b <= x
      BY <1>12
    <3>2. j * Y \in Int /\ k * Y \in Int /\ a \in Int /\ b \in Int /\ s \in Int /\ j \in Int /\ k \in Int
      BY <1>1, <1>5, <1>8, <1>15 DEF RuleNumbers
    <3>3. CASE g = <<j * Y + b - s, s>> /\ j * Y + b <= x
      <4>1. j <= k
        BY <1>15, <3>3
      <4>2. j * Y <= k * Y
        <5>1. CASE j = k
          BY <3>2, <5>1
        <5>2. CASE j < k
          <6>1. j * Y + Y <= k * Y
            BY <3>2, <5>2, LaterYear DEF Y
          <6>. QED
            BY <1>1, <3>2, <6>1 DEF RuleNumbers
        <5>. QED
          BY <3>2, <4>1, <5>1, <5>2
      <4>. QED
        BY <3>2, <3>3, <4>2
    <3>4. CASE g = <<j * Y + a - s, d>> /\ j * Y + a <= x
      <4>1. j * Y + a < k * Y + b
        BY <1>15, <3>4
      <4>. QED
        BY <3>2, <3>4, <4>1
    <3>. QED
      BY <3>1, <3>3, <3>4
  <2>3. TrueOffset(z, u) = e[2]
    BY <1>10, <2>1, <2>2
  <2>. QED
    BY <2>3
<1>16. ASSUME NEW j \in years
       PROVE  /\ j \in Int /\ j * Y \in Int
              /\ j < n - 1 => j * Y + Y <= N - Y
              /\ j = n - 1 => j * Y = N - Y
              /\ j = n => j * Y = N
              /\ j > n => N + Y <= j * Y
  BY <1>2, <1>5, <1>8, <1>16 DEF N
<1>17. ASSUME a < b
       PROVE  TrueOffset(z, u) = IF NaiveIsDst(x, N + a, N + b) THEN d ELSE s
  <2>1. CASE x < N + a
    <3>1. TrueOffset(z, u) = s
      <4>1. n - 1 \in years
        BY <1>7, <2>1
      <4>2. (n - 1) * Y + b <= x
        BY <1>1, <1>2, <1>5 DEF RuleNumbers
      <4>3. ASSUME NEW j \in years PROVE j * Y + b <= x => j <= n - 1
        BY <1>1, <1>2, <1>16, <1>17, <2>1, <4>3 DEF RuleNumbers
      <4>4. ASSUME NEW j \in years PROVE j * Y + a <= x => j * Y + a < (n - 1) * Y + b
        BY <1>1, <1>2, <1>5, <1>16, <1>17, <2>1, <4>4 DEF RuleNumbers
      <4>. QED
        BY <1>15, <4>1, <4>2, <4>3, <4>4
    <3>. QED
      BY <1>1, <1>2, <1>17, <2>1, <3>1 DEF RuleNumbers, NaiveIsDst
  <2>2. CASE N + a <= x /\ x < N + b
    <3>1. TrueOffset(z, u) = d
      <4>1. n * Y + a <= x
        BY <2>2 DEF N
      <4>2. ASSUME NEW j \in years PROVE j * Y + a <= x => j <= n
        BY <1>1, <1>2, <1>16, <2>2, <4>2 DEF RuleNumbers
      <4>3. ASSUME NEW j \in years PROVE j * Y + b <= x => j * Y + b < n * Y + a
        <5>1. j * Y + b <= x => j * Y + b < N + a
          BY <1>1, <1>2, <1>16, <1>17, <2>2, <4>3 DEF RuleNumbers
        <5>. QED
          BY <5>1 DEF N
      <4>. QED
        BY <1>6, <1>14, <4>1, <4>2, <4>3
    <3>. QED
      BY <1>1, <1>2, <1>17, <2>2, <3>1 DEF RuleNumbers, NaiveIsDst
  <2>3. CASE N + b <= x
    <3>1. TrueOffset(z, u) = s
      <4>1. n * Y + b <= x
        BY <2>3 DEF N
      <4>2. ASSUME NEW j \in years PROVE j * Y + b <= x => j <= n
        BY <1>1, <1>2, <1>16, <2>3, <4>2 DEF RuleNumbers
      <4>3. ASSUME NEW j \in years PROVE j * Y + a <= x => j * Y + a < n * Y + b
        <5>1. j * Y + a <= x => j * Y + a < N + b
          BY <1>1, <1>2, <1>16, <1>17, <2>3, <4>3 DEF RuleNumbers
        <5>. QED
          BY <5>1 DEF N
      <4>. QED
        BY <1>6, <1>15, <4>1, <4>2, <4>3
    <3>. QED
      BY <1>1, <1>2, <1>17, <2>3, <3>1 DEF RuleNumbers, NaiveIsDst
  <2>. QED
    BY <1>1, <1>2, <2>1, <2>2, <2>3 DEF RuleNumbers
<1>18. ASSUME ~(a < b)
       PROVE  TrueOffset(z, u) = IF NaiveIsDst(x, N + a, N + b) THEN d ELSE s
  <2>1. CASE x < N + b
    <3>1. TrueOffset(z, u) = d
      <4>1. n - 1 \in years
        BY <1>7, <2>1
      <4>2. (n - 1) * Y + a <= x
        BY <1>1, <1>2, <1>5 DEF RuleNumbers
      <4>3. ASSUME NEW j \in years PROVE j * Y + a <= x => j <= n - 1
        BY <1>1, <1>2, <1>16, <1>18, <2>1, <4>3 DEF RuleNumbers
      <4>4. ASSUME NEW j \in years PROVE j * Y + b <= x => j * Y + b < (n - 1) * Y + a
        BY <1>1, <1>2, <1>5, <1>16, <1>18, <2>1, <4>4 DEF RuleNumbers
      <4>. QED
        BY <1>14, <4>1, <4>2, <4>3, <4>4
    <3>. QED
      BY <1>1, <1>2, <1>18, <2>1, <3>1 DEF RuleNumbers, NaiveIsDst
  <2>2. CASE N + b <= x /\ x < N + a
    <3>1. TrueOffset(z, u) = s
      <4>1. n * Y + b <= x
        BY <2>2 DEF N
      <4>2. ASSUME NEW j \in years PROVE j * Y + b <= x => j <= n
        BY <1>1, <1>2, <1>16, <2>2, <4>2 DEF RuleNumbers
      <4>3. ASSUME NEW j \in years PROVE j * Y + a <= x => j * Y + a < n * Y + b
        <5>1. j * Y + a <= x => j * Y + a < N + b
          BY <1>1, <1>2, <1>16, <1>18, <2>2, <4>3 DEF RuleNumbers
        <5>. QED
          BY <5>1 DEF N
      <4>. QED
        BY <1>6, <1>15, <4>1, <4>2, <4>3
    <3>. QED
      BY <1>1, <1>2, <1>18, <2>2, <3>1 DEF RuleNumbers, NaiveIsDst
  <2>3. CASE N + a <= x
    <3>1. TrueOffset(z, u) = d
      <4>1. n * Y + a <= x
        BY <2>3 DEF N
      <4>2. ASSUME NEW j \in years PROVE j * Y + a <= x => j <= n
        BY <1>1, <1>2, <1>16, <2>3, <4>2 DEF RuleNumbers
      <4>3. ASSUME NEW j \in years PROVE j * Y + b <= x => j * Y + b < n * Y + a
        <5>1. j * Y + b <= x => j * Y + b < N + a
          BY <1>1, <1>2, <1>16, <1>18, <2>3, <4>3 DEF RuleNumbers
        <5>. QED
          BY <5>1 DEF N
      <4>. QED
        BY <1>6, <1>14, <4>1, <4>2, <4>3
    <3>. QED
      BY <1>1, <1>2, <1>18, <2>3, <3>1 DEF RuleNumbers, NaiveIsDst
  <2>. QED
    BY <1>1, <1>2, <2>1, <2>2, <2>3 DEF RuleNumbers
<1>. QED
  BY <1>3, <1>17, <1>18

(* fromutc asks in the year of UTC, which may be another one than that on the wall. *)
LEMMA RuleInUtc ==
  ASSUME NEW z, RangeData(z), SoundRange(z), z.hasdst, NEW u \in Int
  PROVE  NaiveIsDst(u, Start(z, u) - z.std, End(z, u) - z.std) <=> u + z.std \in RuleDst(z)
<1> DEFINE a == z.start   b == z.end   s == z.std   c == z.dst - z.std
           Y == YearLength   L == DayLength
           x == u + s   y == YearNumber(u)   K == y * Y
<1>1. RuleNumbers(a, b, s, c, L, Y)
  BY RuleNumbersAre
<1>2. y \in Int /\ K \in Int /\ K <= u /\ u < K + Y
  BY YearIs
<1>3. x \in Int
  BY <1>1 DEF RuleNumbers
<1>4. /\ K - Y <= x /\ x < K => (x \in RuleDst(z) <=> NaiveIsDst(x, (K - Y) + a, (K - Y) + b))
      /\ K <= x /\ x < K + Y => (x \in RuleDst(z) <=> NaiveIsDst(x, K + a, K + b))
      /\ K + Y <= x /\ x < (K + Y) + Y => (x \in RuleDst(z) <=> NaiveIsDst(x, (K + Y) + a, (K + Y) + b))
  BY <1>2, <1>3, RuleIs DEF InRule
<1>5. Start(z, u) = K + a /\ End(z, u) = K + b
  BY DEF Start, End
<1> HIDE DEF a, b, s, c, Y, L, y, K
<1>6. NaiveIsDst(u, (K + a) - s, (K + b) - s) <=> x \in RuleDst(z)
  <2>1. NaiveIsDst(u, (K + a) - s, (K + b) - s) <=> NaiveIsDst(x, K + a, K + b)
    BY <1>1, <1>2 DEF RuleNumbers, NaiveIsDst
  <2>2. K - Y <= x /\ x < (K + Y) + Y
    BY <1>1, <1>2 DEF RuleNumbers
  <2> HIDE DEF x
  <2>3. CASE x < K
    <3>1. x < K + a /\ x < K + b /\ (K - Y) + a <= x /\ (K - Y) + b <= x
      BY <1>1, <1>2, <1>3, <2>2, <2>3 DEF RuleNumbers, x
    <3>2. NaiveIsDst(x, K + a, K + b) <=> NaiveIsDst(x, (K - Y) + a, (K - Y) + b)
      BY <1>1, <1>2, <1>3, <3>1 DEF RuleNumbers, NaiveIsDst
    <3>. QED
      BY <1>4, <2>1, <2>2, <2>3, <3>2
  <2>4. CASE K <= x /\ x < K + Y
    BY <1>4, <2>1, <2>4
  <2>5. CASE K + Y <= x
    <3>1. K + a <= x /\ K + b <= x /\ x < (K + Y) + a /\ x < (K + Y) + b
      BY <1>1, <1>2, <1>3, <2>2, <2>5 DEF RuleNumbers, x
    <3>2. NaiveIsDst(x, K + a, K + b) <=> NaiveIsDst(x, (K + Y) + a, (K + Y) + b)
      BY <1>1, <1>2, <1>3, <3>1 DEF RuleNumbers, NaiveIsDst
    <3>. QED
      BY <1>4, <2>1, <2>2, <2>5, <3>2
  <2>. QED
    BY <1>1, <1>2, <1>3, <2>3, <2>4, <2>5 DEF RuleNumbers
<1>. QED
  BY <1>5, <1>6 DEF s

LEMMA RangeIsRight ==
  ASSUME NEW z, z.kind = "range", HasData(z), Sound(z)
  PROVE  Right(z)
<1> DEFINE s == z.std   d == z.dst
<1>1. RangeData(z) /\ SoundRange(z) /\ s \in Offset /\ d \in Offset /\ s \in Int /\ d \in Int
  BY ClockAssumption DEF HasData, RangeData, Offset, Sound
<1>2. \A w \in Int, f \in {0, 1} : UtcOffset(z, w, f) = IF RangeIsDst(z, w, f) THEN d ELSE s
  BY DEF UtcOffset
<1>3. \A w \in Int : IsAmbiguous(z, w) <=> RangeAmbiguous(z, w)
  BY DEF IsAmbiguous
<1>4. \A u \in Int : FromUtc(z, u) = RangeFromUtc(z, u)
  BY DEF FromUtc
<1>5. CASE z.hasdst
  <2> DEFINE P == RuleDst(z)
  <2>1. \A w \in Int : RangeAmbiguous(z, w) <=> Twice(P, d - s, w)
    BY <1>1, <1>5, RuleTwice
  <2>2. \A u \in Int : TrueOffset(z, u) = IF u + s \in P THEN d ELSE s
    BY <1>1, <1>5, RuleOffset
  <2>3. ASSUME NEW w \in Int, NEW f \in {0, 1}
        PROVE  UtcOffset(z, w, f) = IF On(P, d - s, w, f) THEN d ELSE s
    <3>1. NaiveIsDst(w, Start(z, w), End(z, w)) <=> w \in P
      BY DEF RuleDst
    <3>2. RangeIsDst(z, w, f) <=> On(P, d - s, w, f)
      <4>1. RangeAmbiguous(z, w) <=> Twice(P, d - s, w)
        BY <2>1
      <4>2. Twice(P, d - s, w) => w \notin P
        BY DEF Twice
      <4> HIDE DEF P
      <4>. QED
        BY <1>5, <3>1, <4>1, <4>2 DEF RangeIsDst, On
    <3>. QED
      BY <1>2, <3>2
  <2>4. ASSUME NEW u \in Int
        PROVE  \E f \in {0, 1} :
                 /\ FromUtc(z, u) = Enfold(u + TrueOffset(z, u), f)
                 /\ Twice(P, d - s, u + TrueOffset(z, u)) => (f = 0 <=> u + s \in P)
    <3> DEFINE w == u + TrueOffset(z, u)   f == Bit(u + s \notin P /\ RangeAmbiguous(z, w))
    <3>1. NaiveIsDst(u, Start(z, u) - s, End(z, u) - s) <=> u + s \in P
      BY <1>1, <1>5, RuleInUtc
    <3>2. RangeFromUtc(z, u) = Enfold(w, f)
      BY <1>5, <2>2, <3>1 DEF RangeFromUtc
    <3>3. w \in Int
      BY <1>1, <2>2
    <3>4. f \in {0, 1} /\ (RangeAmbiguous(z, w) => (f = 0 <=> u + s \in P))
      BY DEF Bit
    <3>. QED
      BY <1>4, <2>1, <3>2, <3>3, <3>4
  <2>5. Switches(z, s, d, P)
    BY <1>1, <1>3, <2>1, <2>2, <2>3, <2>4 DEF Switches
  <2>. QED
    BY <1>1, <1>5, <2>5, RuleCalm, SwitchIsRight
<1>6. CASE ~z.hasdst
  <2>1. \A w \in Int : ~RangeAmbiguous(z, w)
    BY <1>6 DEF RangeAmbiguous
  <2>2. \A w \in Int, f \in {0, 1} : ~RangeIsDst(z, w, f)
    BY <1>6 DEF RangeIsDst
  <2>3. \A u \in Int : TrueOffset(z, u) = s
    <3>1. \A u \in Int : Changes(z, u) = {}
      BY <1>6 DEF Changes
    <3>. QED
      BY <3>1 DEF TrueOffset, FirstOffset
  <2>4. ASSUME NEW u \in Int PROVE RangeFromUtc(z, u) = Enfold(u + s, 0)
    <3>1. ~RangeAmbiguous(z, u + s)
      BY <1>1, <2>1
    <3>. QED
      BY <1>6, <3>1 DEF RangeFromUtc, Bit
  <2>5. s - s = 0 /\ \A w \in Int : ~Twice({}, 0, w)
    BY <1>1 DEF Twice
  <2>6. \A w \in Int, f \in {0, 1} : ~On({}, 0, w, f)
    BY <2>5 DEF On
  <2>7. Switches(z, s, s, {})
    BY <1>1, <1>2, <1>3, <1>4, <2>1, <2>2, <2>3, <2>4, <2>5, <2>6 DEF Switches
  <2>8. Calm({}, 0)
    BY DEF Calm
  <2>. QED
    BY <2>5, <2>7, <2>8, SwitchIsRight
<1>. QED
  BY <1>5, <1>6, <1>1 DEF RangeData

-----------------------------------------------------------------------------
(* Zones of an iCalendar file.                                                *)

LEMMA LeastOf ==
  ASSUME NEW T, T \subseteq Nat, T # {}
  PROVE  \E k \in T : \A j \in T : k <= j
<1> DEFINE R == {x \in Nat \X Nat : x[1] < x[2]}
<1>1. IsWellFoundedOn(R, Nat)
  BY NatLessThanWellFounded DEF OpToRel
<1> HIDE DEF R
<1>2. PICK k \in T : \A j \in T : <<j, k>> \notin R
  BY <1>1, WFMin
<1>3. ASSUME NEW j \in T PROVE k <= j
  <2>1. <<j, k>> \notin R /\ j \in Nat /\ k \in Nat
    BY <1>2
  <2>. QED
    BY <2>1 DEF R
<1>. QED
  BY <1>2, <1>3

LEMMA GreatestOf ==
  ASSUME NEW T, T \subseteq Int, T # {}, NEW b \in Int, \A t \in T : t <= b
  PROVE  \E m \in T : \A t \in T : t <= m
<1> DEFINE N == {b - t : t \in T}
<1>1. N \subseteq Nat /\ N # {}
  <2>1. ASSUME NEW t \in T PROVE b - t \in Nat
    <3>1. t \in Int /\ t <= b
      OBVIOUS
    <3>. QED
      BY <3>1
  <2>. QED
    BY <2>1
<1> HIDE DEF N
<1>2. PICK k \in N : \A j \in N : k <= j
  BY <1>1, LeastOf
<1>3. PICK m \in T : k = b - m
  BY DEF N
<1>4. ASSUME NEW t \in T PROVE t <= m
  <2>1. b - t \in N
    BY DEF N
  <2>. QED
    BY <1>2, <1>3, <2>1
<1>. QED
  BY <1>3, <1>4

(* A are the onsets of standard time, B those of DST: at x the latest of B is later
   than that of A until y. *)
Ahead(A, B, x, y) == \E p \in B : p <= x /\ \A o \in A : o <= y => o < p
Spaced(A, B, c) ==
  /\ A \subseteq Int /\ B \subseteq Int /\ c \in Int /\ 0 < c /\ c <= DayLength
  /\ \A o \in A, p \in B : o + DayLength <= p \/ p + DayLength + c <= o - c
OnsetDst(A, B, c) == {x \in Int : Ahead(A, B, x, x + c)}

(* What is asked without fold is the same as with it, or a step of the clock ago. *)
LEMMA AheadIs ==
  ASSUME NEW A, NEW B, NEW c, Spaced(A, B, c), NEW x \in Int
  PROVE  Ahead(A, B, x, x) <=> x \in OnsetDst(A, B, c) \/ x - c \in OnsetDst(A, B, c)
<1>1. c \in Int /\ 0 < c /\ x + c \in Int /\ x - c \in Int /\ (x - c) + c = x /\ DayLength \in Nat \ {0}
  BY ClockAssumption DEF Spaced
<1>2. /\ x \in OnsetDst(A, B, c) <=> Ahead(A, B, x, x + c)
      /\ x - c \in OnsetDst(A, B, c) <=> Ahead(A, B, x - c, x)
  BY <1>1 DEF OnsetDst
<1>3. \A o \in A : o \in Int
  BY DEF Spaced
<1>4. \A p \in B : p \in Int
  BY DEF Spaced
<1>5. Ahead(A, B, x, x + c) => Ahead(A, B, x, x)
  BY <1>1, <1>3 DEF Ahead
<1>6. Ahead(A, B, x - c, x) => Ahead(A, B, x, x)
  BY <1>1, <1>4 DEF Ahead
<1>7. ASSUME Ahead(A, B, x, x) PROVE Ahead(A, B, x, x + c) \/ Ahead(A, B, x - c, x)
  <2>1. PICK p \in B : p <= x /\ \A o \in A : o <= x => o < p
    BY <1>7 DEF Ahead
  <2>2. CASE p <= x - c
    BY <2>1, <2>2 DEF Ahead
  <2>3. CASE ~(p <= x - c)
    <3>1. ASSUME NEW o \in A, o <= x + c PROVE o < p
      <4>1. o + DayLength <= p \/ p + DayLength + c <= o - c
        BY DEF Spaced
      <4>. QED
        BY <1>1, <1>3, <1>4, <2>3, <3>1, <4>1
    <3>. QED
      BY <2>1, <3>1 DEF Ahead
  <2>. QED
    BY <2>2, <2>3
<1>. QED
  BY <1>2, <1>5, <1>6, <1>7

LEMMA OnsetsCalm ==
  ASSUME NEW A, NEW B, NEW c, Spaced(A, B, c)
  PROVE  Calm(OnsetDst(A, B, c), c)
<1> DEFINE P == OnsetDst(A, B, c)   L == DayLength
<1>1. c \in Int /\ 0 < c /\ c <= L /\ L \in Nat \ {0}
  BY ClockAssumption DEF Spaced
<1>2. \A x \in Int : x \in P <=> Ahead(A, B, x, x + c)
  BY DEF OnsetDst
<1>3. /\ \A o \in A : o \in Int
      /\ \A p \in B : p \in Int
      /\ \A o \in A, p \in B : o + L <= p \/ p + L + c <= o - c
  BY DEF Spaced
<1> HIDE DEF P, L
<1>4. ASSUME NEW w \in Int, w \in P, w - c \notin P
      PROVE  w + L \in P /\ w - L \notin P /\ (w - L) - c \notin P
  <2>1. PICK p \in B : p <= w /\ \A o \in A : o <= w + c => o < p
    BY <1>2, <1>4 DEF Ahead
  <2>2. p \in Int
    BY DEF Spaced
  <2>3. w - c \in Int /\ (w - c) + c = w
    BY <1>1
  <2>4. ~Ahead(A, B, w - c, w)
    BY <1>2, <1>4, <2>3
  <2>5. w + L \in P
    <3>1. w + L \in Int /\ p <= w + L
      BY <1>1, <2>1, <2>2
    <3>2. ~(p <= w - c)
      <4> SUFFICES ASSUME p <= w - c PROVE FALSE
        OBVIOUS
      <4>1. ASSUME NEW o \in A, o <= w PROVE o < p
        BY <1>1, <1>3, <2>1, <4>1
      <4>. QED
        BY <2>4, <4>1 DEF Ahead
    <3>3. ASSUME NEW o \in A, o <= (w + L) + c PROVE o < p
      BY <1>1, <1>3, <2>2, <3>2, <3>3
    <3>. QED
      BY <1>2, <3>1, <3>3 DEF Ahead
  <2>7. ASSUME NEW x \in Int, x <= w - L, w - L <= x + c PROVE x \notin P
    <3> SUFFICES ASSUME x \in P PROVE FALSE
      OBVIOUS
    <3>1. PICK q \in B : q <= x /\ \A o \in A : o <= x + c => o < q
      BY <1>2 DEF Ahead
    <3>2. q <= w - c
      BY <1>1, <1>3, <2>7, <3>1
    <3>3. ASSUME NEW o \in A, o <= w PROVE o < q
      <4>1. o < p /\ o \in Int
        BY <1>1, <1>3, <2>1, <3>3
      <4>2. o + L <= p
        BY <1>1, <1>3, <2>2, <4>1
      <4>3. o <= x + c
        BY <1>1, <2>1, <2>2, <2>7, <4>1, <4>2
      <4>. QED
        BY <3>1, <4>3
    <3>. QED
      BY <2>4, <3>2, <3>3 DEF Ahead
  <2>8. w - L \notin P
    <3>1. w - L \in Int /\ w - L <= (w - L) + c
      BY <1>1
    <3>. QED
      BY <2>7, <3>1
  <2>9. (w - L) - c \notin P
    <3>1. (w - L) - c \in Int /\ (w - L) - c <= w - L /\ w - L <= ((w - L) - c) + c
      BY <1>1
    <3>. QED
      BY <2>7, <3>1
  <2>. QED
    BY <2>5, <2>8, <2>9
<1>5. \A w \in ClockWalls : w \in Int
  BY ClockAssumption DEF ClockWalls
<1>. QED
  BY <1>1, <1>4, <1>5 DEF Calm, P, L

Daylight(z)  == DOMAIN z.comps \ Standard(z)
Onsets(z, K) == UNION {z.comps[k].onsets : k \in K}
IcalComps(z) ==
  /\ Len(z.comps) \in Nat \ {0} /\ DOMAIN z.comps = 1..Len(z.comps)
  /\ \A k \in DOMAIN z.comps : z.comps[k].onsets \subseteq Int /\ z.comps[k].isdst \in BOOLEAN
(* The components lead from s to d and back. *)
IcalSwitches(z, s, d) ==
  /\ s \in Offset /\ d \in Offset /\ s < d /\ d - s <= DayLength /\ Standard(z) # {}
  /\ \A k \in DOMAIN z.comps :
       <<z.comps[k].from, z.comps[k].to>> = IF z.comps[k].isdst THEN <<s, d>> ELSE <<d, s>>
  /\ Spaced(Onsets(z, Standard(z)), Onsets(z, Daylight(z)), d - s)

LEMMA ComponentIs ==
  ASSUME NEW z, IcalComps(z), NEW s, NEW d, IcalSwitches(z, s, d)
  PROVE  /\ \A k \in Standard(z) : k \in DOMAIN z.comps /\ ~z.comps[k].isdst /\ z.comps[k].from = d /\ z.comps[k].to = s
         /\ \A k \in Daylight(z) : k \in DOMAIN z.comps /\ z.comps[k].isdst /\ z.comps[k].from = s /\ z.comps[k].to = d
         /\ \A k \in DOMAIN z.comps : k \in Standard(z) \/ k \in Daylight(z)
         /\ \A k \in DOMAIN z.comps : k \in Nat /\ z.comps[k].onsets \subseteq Int
<1>1. \A k \in DOMAIN z.comps : k \in Nat /\ z.comps[k].onsets \subseteq Int /\ z.comps[k].isdst \in BOOLEAN
  BY DEF IcalComps
<1>2. \A k \in Standard(z) : k \in DOMAIN z.comps /\ ~z.comps[k].isdst
  BY DEF Standard
<1>3. \A k \in Daylight(z) : k \in DOMAIN z.comps /\ z.comps[k].isdst
  BY <1>1 DEF Standard, Daylight
<1>4. \A k \in DOMAIN z.comps :
        <<z.comps[k].from, z.comps[k].to>> = IF z.comps[k].isdst THEN <<s, d>> ELSE <<d, s>>
  BY DEF IcalSwitches
<1>5. ASSUME NEW k \in Standard(z) PROVE z.comps[k].from = d /\ z.comps[k].to = s
  <2>1. <<z.comps[k].from, z.comps[k].to>> = <<d, s>>
    BY <1>2, <1>4
  <2>. QED
    BY <2>1
<1>6. ASSUME NEW k \in Daylight(z) PROVE z.comps[k].from = s /\ z.comps[k].to = d
  <2>1. <<z.comps[k].from, z.comps[k].to>> = <<s, d>>
    BY <1>3, <1>4
  <2>. QED
    BY <2>1
<1>. QED
  BY <1>1, <1>2, <1>3, <1>5, <1>6 DEF Daylight

(* _find_comp: the component in force is one of DST when the latest onset is. *)
LEMMA FoundComponent ==
  ASSUME NEW z, IcalComps(z), NEW s, NEW d, IcalSwitches(z, s, d), NEW w \in Int, NEW f \in {0, 1}
  PROVE  \E k \in DOMAIN z.comps :
           /\ Comp(z, w, f) = z.comps[k]
           /\ k \in Daylight(z) <=> Ahead(Onsets(z, Standard(z)), Onsets(z, Daylight(z)),
                                          w, IF f = 1 THEN w + (d - s) ELSE w)
<1> DEFINE A == Onsets(z, Standard(z))   B == Onsets(z, Daylight(z))   y == IF f = 1 THEN w + (d - s) ELSE w
           until(k) == IF k \in Standard(z) THEN y ELSE w
           on(k) == z.comps[k].onsets   D == DOMAIN z.comps
           E == {o \in UNION {on(k) : k \in D} : \E k \in D : o \in on(k) /\ o <= until(k)}
<1>1. s \in Int /\ d \in Int /\ s < d /\ y \in Int /\ w <= y /\ Standard(z) # {}
  BY ClockAssumption DEF IcalSwitches, Offset
<1>2. \A k \in D : until(k) \in Int /\ until(k) <= y
  BY <1>1
<1>3. ASSUME NEW k \in D
      PROVE  OnsetOf(z.comps[k], w, f) = {o \in on(k) : o <= until(k) /\ \A p \in on(k) : p <= until(k) => p <= o}
  <2>1. CASE k \in Standard(z)
    <3>1. z.comps[k].from = d /\ z.comps[k].to = s
      BY <2>1, ComponentIs
    <3>2. (IF z.comps[k].to < z.comps[k].from /\ f = 1 THEN w + z.comps[k].from - z.comps[k].to ELSE w) = until(k)
      BY <1>1, <2>1, <3>1
    <3>. QED
      BY <3>2 DEF OnsetOf
  <2>2. CASE k \notin Standard(z)
    <3>1. z.comps[k].from = s /\ z.comps[k].to = d
      BY <2>2, ComponentIs DEF Daylight
    <3>2. ~(z.comps[k].to < z.comps[k].from)
      BY <1>1, <3>1
    <3>3. (IF z.comps[k].to < z.comps[k].from /\ f = 1 THEN w + z.comps[k].from - z.comps[k].to ELSE w) = until(k)
      BY <2>2, <3>2
    <3>. QED
      BY <3>3 DEF OnsetOf
  <2>. QED
    BY <2>1, <2>2
<1>4. /\ \A k \in D : k \in Nat /\ on(k) \subseteq Int
      /\ \A k \in D : k \in Standard(z) \/ k \in Daylight(z)
      /\ Standard(z) \subseteq D /\ Daylight(z) \subseteq D /\ \A k \in Daylight(z) : k \notin Standard(z)
  BY ComponentIs DEF Daylight
<1>5. /\ \A o : o \in A <=> \E k \in Standard(z) : o \in on(k)
      /\ \A p : p \in B <=> \E k \in Daylight(z) : p \in on(k)
  BY DEF Onsets
<1>6. Ahead(A, B, w, y) <=> \E p \in B : p <= w /\ \A o \in A : o <= y => o < p
  BY DEF Ahead
<1>7. FindComp(z, w, f) = IF Len(z.comps) = 1 THEN {1}
                          ELSE IF Latest(z, w, f) # {} THEN Latest(z, w, f)
                          ELSE {k \in Standard(z) : \A j \in Standard(z) : k <= j}
  BY DEF FindComp
<1>8. Latest(z, w, f) =
        {k \in D : \E o \in OnsetOf(z.comps[k], w, f) :
                     \A j \in D : \A p \in OnsetOf(z.comps[j], w, f) : p < o \/ (p = o /\ k <= j)}
  BY DEF Latest
<1> HIDE DEF A, B, y, until, on, D
<1>9. ASSUME E # {}
      PROVE  /\ Latest(z, w, f) # {}
             /\ \A k \in Latest(z, w, f) : k \in D /\ \E o \in E : o \in on(k) /\ o <= until(k) /\ \A p \in E : p <= o
  <2>1. E \subseteq Int /\ \A o \in E : o <= y
    <3>1. ASSUME NEW o \in E PROVE o \in Int /\ o <= y
      <4>1. PICK k \in D : o \in on(k) /\ o <= until(k)
        OBVIOUS
      <4>. QED
        BY <1>1, <1>2, <1>4, <4>1
    <3>. QED
      BY <3>1
  <2>2. PICK m \in E : \A o \in E : o <= m
    <3> HIDE DEF E
    <3>. QED
      BY <1>1, <1>9, <2>1, GreatestOf
  <2> DEFINE K == {k \in D : m \in on(k) /\ m <= until(k)}
  <2>3. K # {} /\ K \subseteq Nat
    BY <1>4
  <2>4. PICK k \in K : \A j \in K : k <= j
    <3> HIDE DEF K
    <3>. QED
      BY <2>3, LeastOf
  <2>5. ASSUME NEW j \in D, NEW p \in OnsetOf(z.comps[j], w, f) PROVE p \in E /\ p \in on(j) /\ p <= until(j)
    BY <1>3
  <2>6. m \in Int
    BY <2>1
  <2>7. ASSUME NEW j \in K PROVE m \in OnsetOf(z.comps[j], w, f)
    <3>1. \A p \in on(j) : p <= until(j) => p <= m
      BY <2>2
    <3>. QED
      BY <1>3, <3>1
  <2>8. k \in Latest(z, w, f)
    <3>1. ASSUME NEW j \in D, NEW p \in OnsetOf(z.comps[j], w, f) PROVE p < m \/ (p = m /\ k <= j)
      <4>1. p \in E /\ p \in on(j) /\ p <= until(j) /\ p <= m /\ p \in Int
        BY <2>1, <2>2, <2>5
      <4>2. p = m => j \in K
        BY <4>1
      <4>. QED
        BY <2>4, <2>6, <4>1, <4>2
    <3>. QED
      BY <1>8, <2>7, <3>1
  <2>9. ASSUME NEW i \in Latest(z, w, f)
        PROVE  i \in D /\ \E o \in E : o \in on(i) /\ o <= until(i) /\ \A p \in E : p <= o
    <3>1. i \in D /\ \E o \in OnsetOf(z.comps[i], w, f) :
                       \A j \in D : \A p \in OnsetOf(z.comps[j], w, f) : p < o \/ (p = o /\ i <= j)
      BY <1>8
    <3>2. PICK o \in OnsetOf(z.comps[i], w, f) :
                 \A j \in D : \A p \in OnsetOf(z.comps[j], w, f) : p < o \/ (p = o /\ i <= j)
      BY <3>1
    <3>3. o \in E /\ o \in on(i) /\ o <= until(i) /\ o \in Int
      BY <2>1, <2>5, <3>1
    <3>4. m < o \/ m = o
      BY <2>4, <2>7, <3>2
    <3>5. \A p \in E : p <= o
      BY <2>1, <2>2, <2>6, <3>3, <3>4
    <3>. QED
      BY <3>1, <3>3, <3>5
  <2>. QED
    BY <2>8, <2>9
<1>10. ASSUME E = {} PROVE Latest(z, w, f) = {}
  <2>1. \A k \in D : OnsetOf(z.comps[k], w, f) = {}
    <3>1. ASSUME NEW k \in D, NEW o \in OnsetOf(z.comps[k], w, f) PROVE o \in E
      BY <1>3, <3>1
    <3>. QED
      BY <1>10, <3>1
  <2>. QED
    BY <1>8, <2>1
<1>11. \A x \in A, p \in B : x \in Int /\ p \in Int /\ x # p
  <2>1. Spaced(A, B, d - s)
    BY DEF IcalSwitches, A, B
  <2>2. ASSUME NEW x \in A, NEW p \in B PROVE x \in Int /\ p \in Int /\ x # p
    <3>1. x \in Int /\ p \in Int /\ DayLength \in Nat \ {0} /\ (x + DayLength <= p \/ p + DayLength + (d - s) <= x - (d - s))
      BY <2>1, ClockAssumption DEF Spaced
    <3>. QED
      BY <1>1, <3>1
  <2>. QED
    BY <2>2
<1>12. ASSUME NEW k \in D, k \in FindComp(z, w, f)
       PROVE  k \in Daylight(z) <=> Ahead(A, B, w, y)
  <2>1. CASE Len(z.comps) = 1
    <3>1. D = {1}
      BY <2>1 DEF IcalComps, D
    <3>2. Standard(z) = {1} /\ Daylight(z) = {}
      BY <1>1, <1>4, <3>1
    <3>. QED
      BY <1>5, <1>6, <3>2
  <2>2. CASE Len(z.comps) # 1 /\ E # {}
    <3>1. k \in Latest(z, w, f)
      BY <1>7, <1>9, <1>12, <2>2
    <3>2. PICK o \in E : o \in on(k) /\ o <= until(k) /\ \A p \in E : p <= o
      BY <1>9, <2>2, <3>1
    <3>3. ASSUME NEW j \in D, NEW x \in on(j), x <= until(j) PROVE x \in E
      BY <3>3
    <3> HIDE DEF E
    <3>4. CASE k \in Daylight(z)
      <4>1. o \in B /\ o <= w
        BY <1>4, <1>5, <3>2, <3>4 DEF until
      <4>2. ASSUME NEW x \in A, x <= y PROVE x < o
        <5>1. PICK j \in Standard(z) : x \in on(j)
          BY <1>5
        <5>2. x \in E
          BY <1>4, <3>3, <4>2, <5>1 DEF until
        <5>3. x <= o
          BY <3>2, <5>2
        <5>4. x \in Int /\ o \in Int /\ x # o
          BY <1>11, <4>1
        <5>. QED
          BY <5>3, <5>4
      <4>. QED
        BY <1>6, <3>4, <4>1, <4>2
    <3>5. CASE k \in Standard(z)
      <4>1. o \in A /\ o <= y
        BY <1>5, <3>2, <3>5 DEF until
      <4>2. ASSUME NEW p \in B, p <= w, o < p PROVE FALSE
        <5>1. PICK j \in Daylight(z) : p \in on(j)
          BY <1>5
        <5>2. p \in E
          BY <1>4, <3>3, <4>2, <5>1 DEF until
        <5>3. p <= o
          BY <3>2, <5>2
        <5>4. p \in Int /\ o \in Int
          BY <1>11, <4>1
        <5>. QED
          BY <4>2, <5>3, <5>4
      <4>3. k \notin Daylight(z)
        BY <1>4, <3>5
      <4>. QED
        BY <1>6, <4>1, <4>2, <4>3
    <3>. QED
      BY <1>4, <3>4, <3>5
  <2>3. CASE Len(z.comps) # 1 /\ E = {}
    <3>1. k \in Standard(z)
      BY <1>7, <1>10, <1>12, <2>3
    <3>2. ASSUME NEW p \in B, p <= w PROVE FALSE
      <4>1. PICK j \in Daylight(z) : p \in on(j)
        BY <1>5
      <4>2. j \in D /\ p <= until(j)
        BY <1>4, <3>2, <4>1 DEF until
      <4>3. p \in E
        BY <4>1, <4>2
      <4>. QED
        BY <2>3, <4>3
    <3>3. k \notin Daylight(z)
      BY <1>4, <3>1
    <3>. QED
      BY <1>6, <3>2, <3>3
  <2>. QED
    BY <2>1, <2>2, <2>3
<1>13. FindComp(z, w, f) # {} /\ FindComp(z, w, f) \subseteq D
  <2>1. 1 \in D
    BY DEF IcalComps, D
  <2>2. {k \in Standard(z) : \A j \in Standard(z) : k <= j} # {}
    <3>1. Standard(z) \subseteq Nat
      BY <1>4
    <3>. QED
      BY <1>1, <3>1, LeastOf
  <2>3. Latest(z, w, f) \subseteq D
    BY <1>8
  <2>. QED
    BY <1>4, <1>7, <2>1, <2>2, <2>3
<1> DEFINE k == CHOOSE i \in FindComp(z, w, f) : TRUE
<1>14. k \in FindComp(z, w, f) /\ k \in D
  BY <1>13
<1>15. Comp(z, w, f) = z.comps[k]
  BY DEF Comp
<1>. QED
  BY <1>12, <1>14, <1>15 DEF A, B, y, D

LEMMA SwitchingComponents ==
  ASSUME NEW z, z.kind = "ical", IcalComps(z), NEW s, NEW d, IcalSwitches(z, s, d)
  PROVE  Right(z)
<1> DEFINE A == Onsets(z, Standard(z))   B == Onsets(z, Daylight(z))   c == d - s   P == OnsetDst(A, B, c)
<1>1. s \in Int /\ d \in Int /\ s < d /\ c \in Int /\ s \in Offset /\ d \in Offset /\ Spaced(A, B, c)
  BY ClockAssumption DEF IcalSwitches, Offset
<1>2. ASSUME NEW w \in Int
      PROVE  /\ w \in P <=> Ahead(A, B, w, w + c)
             /\ Ahead(A, B, w, w) <=> w \in P \/ w - c \in P
  BY <1>1, AheadIs DEF OnsetDst
<1> HIDE DEF P
<1>3. ASSUME NEW w \in Int, NEW f \in {0, 1}
      PROVE  /\ UtcOffset(z, w, f) = IF On(P, c, w, f) THEN d ELSE s
             /\ Dst(z, w, f) = UtcOffset(z, w, f) - s
  <2>1. PICK k \in DOMAIN z.comps :
           /\ Comp(z, w, f) = z.comps[k]
           /\ k \in Daylight(z) <=> Ahead(A, B, w, IF f = 1 THEN w + (d - s) ELSE w)
    BY FoundComponent
  <2>2. k \in Daylight(z) <=> On(P, c, w, f)
    BY <1>2, <2>1 DEF On, Twice
  <2>3. UtcOffset(z, w, f) = z.comps[k].to
    BY <2>1 DEF UtcOffset
  <2>4. Dst(z, w, f) = IF z.comps[k].isdst THEN z.comps[k].to - z.comps[k].from ELSE 0
    BY <2>1 DEF Dst
  <2>5. CASE k \in Daylight(z)
    <3>1. z.comps[k].isdst /\ z.comps[k].from = s /\ z.comps[k].to = d
      BY <2>5, ComponentIs
    <3>. QED
      BY <2>2, <2>3, <2>4, <2>5, <3>1
  <2>6. CASE k \in Standard(z)
    <3>1. ~z.comps[k].isdst /\ z.comps[k].from = d /\ z.comps[k].to = s /\ k \notin Daylight(z)
      BY <2>6, ComponentIs DEF Daylight
    <3>. QED
      BY <1>1, <2>2, <2>3, <2>4, <3>1
  <2>. QED
    BY <2>5, <2>6, ComponentIs
<1>4. ASSUME NEW w \in Int PROVE IsAmbiguous(z, w) <=> Twice(P, c, w)
  <2>1. On(P, c, w, 0) <=> w \in P \/ w - c \in P
    BY DEF On, Twice
  <2>2. On(P, c, w, 1) <=> w \in P
    BY DEF On, Twice
  <2>3. IsAmbiguous(z, w) <=> UtcOffset(z, w, 0) # UtcOffset(z, w, 1)
    BY DEF IsAmbiguous
  <2>. QED
    BY <1>1, <1>3, <2>1, <2>2, <2>3 DEF Twice
<1>5. ASSUME NEW u \in Int PROVE TrueOffset(z, u) = IF u + s \in P THEN d ELSE s
  <2> DEFINE x == u + s   past == {e \in Changes(z, u) : e[1] <= u}
  <2>1. x \in Int /\ x + c \in Int
    BY <1>1
  <2>2. x \in P <=> \E p \in B : p <= x /\ \A o \in A : o <= x + c => o < p
    BY <1>2, <2>1 DEF Ahead
  <2>3. \A e : e \in Changes(z, u) <=>
                 \E k \in DOMAIN z.comps : \E o \in z.comps[k].onsets : e = <<o - z.comps[k].from, z.comps[k].to>>
    <3>1. Changes(z, u) = UNION {{<<o - z.comps[k].from, z.comps[k].to>> : o \in z.comps[k].onsets} :
                                   k \in DOMAIN z.comps}
      BY DEF Changes
    <3>. QED
      BY <3>1
  <2>4. /\ \A o \in A : o \in Int
        /\ \A p \in B : p \in Int
        /\ \A o \in A, p \in B : o + DayLength <= p \/ p + DayLength + c <= o - c
        /\ DayLength \in Nat \ {0}
    BY <1>1, ClockAssumption DEF Spaced
  <2>5. \A e : e \in past <=> \/ \E o \in A : e = <<o - d, s>> /\ o <= x + c
                              \/ \E p \in B : e = <<p - s, d>> /\ p <= x
    <3>1. \A o \in A : o - d <= u <=> o <= x + c
      BY <1>1, <2>4
    <3>2. \A p \in B : p - s <= u <=> p <= x
      BY <1>1, <2>4
    <3>3. ASSUME NEW e \in past
          PROVE  \/ \E o \in A : e = <<o - d, s>> /\ o <= x + c
                 \/ \E p \in B : e = <<p - s, d>> /\ p <= x
      <4>1. PICK k \in DOMAIN z.comps : \E o \in z.comps[k].onsets : e = <<o - z.comps[k].from, z.comps[k].to>>
        BY <2>3
      <4>2. PICK o \in z.comps[k].onsets : e = <<o - z.comps[k].from, z.comps[k].to>>
        BY <4>1
      <4>3. e[1] = o - z.comps[k].from /\ e[1] <= u
        BY <4>2
      <4>4. CASE k \in Standard(z)
        <5>1. o \in A /\ e = <<o - d, s>> /\ o - d <= u
          BY <4>2, <4>3, <4>4, ComponentIs DEF Onsets
        <5>. QED
          BY <3>1, <5>1
      <4>5. CASE k \in Daylight(z)
        <5>1. o \in B /\ e = <<o - s, d>> /\ o - s <= u
          BY <4>2, <4>3, <4>5, ComponentIs DEF Onsets
        <5>. QED
          BY <3>2, <5>1
      <4>. QED
        BY <4>4, <4>5, ComponentIs
    <3>4. ASSUME NEW o \in A, o <= x + c PROVE <<o - d, s>> \in past
      <4>1. PICK k \in Standard(z) : o \in z.comps[k].onsets
        BY DEF Onsets
      <4>2. <<o - d, s>> \in Changes(z, u)
        BY <2>3, <4>1, ComponentIs
      <4>. QED
        BY <3>1, <3>4, <4>2
    <3>5. ASSUME NEW p \in B, p <= x PROVE <<p - s, d>> \in past
      <4>1. PICK k \in Daylight(z) : p \in z.comps[k].onsets
        BY DEF Onsets
      <4>2. <<p - s, d>> \in Changes(z, u)
        BY <2>3, <4>1, ComponentIs
      <4>. QED
        BY <3>2, <3>5, <4>2
    <3>. QED
      BY <3>3, <3>4, <3>5
  <2>6. TrueOffset(z, u) = IF past = {} THEN FirstOffset(z)
                           ELSE (CHOOSE e \in past : \A g \in past : g[1] <= e[1])[2]
    BY DEF TrueOffset
  <2> HIDE DEF past, A, B, x, c
  <2>7. CASE past = {}
    <3>1. FirstOffset(z) = z.comps[Initial(z)].to
      BY DEF FirstOffset
    <3>2. Standard(z) # {} /\ Standard(z) \subseteq Nat
      BY ComponentIs DEF IcalSwitches
    <3>3. Initial(z) \in Standard(z)
      BY <3>2, LeastOf DEF Initial
    <3>4. FirstOffset(z) = s
      BY <3>1, <3>3, ComponentIs
    <3>5. x \notin P
      BY <2>2, <2>5, <2>7
    <3>. QED
      BY <2>6, <2>7, <3>4, <3>5 DEF x
  <2>8. CASE past # {}
    <3> DEFINE T == {e[1] : e \in past}
    <3>1. \A e \in past : e[1] \in Int /\ e[1] <= u
      <4>1. ASSUME NEW e \in past PROVE e[1] \in Int /\ e[1] <= u
        <5>1. CASE \E o \in A : e = <<o - d, s>> /\ o <= x + c
          BY <1>1, <2>1, <2>4, <5>1 DEF x, c
        <5>2. CASE \E p \in B : e = <<p - s, d>> /\ p <= x
          BY <1>1, <2>1, <2>4, <5>2 DEF x
        <5>. QED
          BY <2>5, <5>1, <5>2
      <4>. QED
        BY <4>1
    <3>2. PICK m \in T : \A t \in T : t <= m
      <4>1. T \subseteq Int /\ T # {} /\ \A t \in T : t <= u
        BY <2>8, <3>1
      <4> HIDE DEF T
      <4>. QED
        BY <4>1, GreatestOf
    <3>3. PICK e \in past : e[1] = m
      OBVIOUS
    <3>4. ASSUME NEW g \in past PROVE g[1] <= e[1] /\ (e[1] <= g[1] => g[1] = e[1])
      <4>1. g[1] \in T
        OBVIOUS
      <4>. QED
        BY <3>1, <3>2, <3>3, <4>1
    <3>5. ASSUME NEW o \in A, NEW p \in B PROVE o - d # p - s
      BY <1>1, <2>4, <3>5 DEF c
    <3>6. CASE \E o \in A : e = <<o - d, s>> /\ o <= x + c
      <4>1. PICK o \in A : e = <<o - d, s>> /\ o <= x + c
        BY <3>6
      <4>2. ASSUME NEW g \in past, g[1] = e[1] PROVE g[2] = e[2]
        <5>1. ASSUME NEW p \in B PROVE g # <<p - s, d>>
          BY <3>5, <4>1, <4>2
        <5>2. PICK q \in A : g = <<q - d, s>>
          BY <2>5, <5>1
        <5>. QED
          BY <4>1, <5>2
      <4>3. TrueOffset(z, u) = s
        <5>1. (CHOOSE h \in past : \A g \in past : g[1] <= h[1])[2] = e[2]
          BY <3>4, <4>2, LatestChange
        <5>. QED
          BY <2>6, <2>8, <4>1, <5>1
      <4>4. ASSUME NEW p \in B, p <= x, o < p PROVE FALSE
        <5>1. <<p - s, d>> \in past
          BY <2>5, <4>4
        <5>2. p - s <= o - d
          BY <3>4, <4>1, <5>1
        <5>. QED
          BY <1>1, <2>4, <4>4, <5>2 DEF c
      <4>5. x \notin P
        BY <2>2, <4>1, <4>4
      <4>. QED
        BY <4>3, <4>5 DEF x
    <3>7. CASE \E p \in B : e = <<p - s, d>> /\ p <= x
      <4>1. PICK p \in B : e = <<p - s, d>> /\ p <= x
        BY <3>7
      <4>2. ASSUME NEW g \in past, g[1] = e[1] PROVE g[2] = e[2]
        <5>1. ASSUME NEW o \in A PROVE g # <<o - d, s>>
          BY <3>5, <4>1, <4>2
        <5>2. PICK q \in B : g = <<q - s, d>>
          BY <2>5, <5>1
        <5>. QED
          BY <4>1, <5>2
      <4>3. TrueOffset(z, u) = d
        <5>1. (CHOOSE h \in past : \A g \in past : g[1] <= h[1])[2] = e[2]
          BY <3>4, <4>2, LatestChange
        <5>. QED
          BY <2>6, <2>8, <4>1, <5>1
      <4>4. ASSUME NEW o \in A, o <= x + c PROVE o < p
        <5>1. <<o - d, s>> \in past
          BY <2>5, <4>4
        <5>2. o - d <= p - s
          BY <3>4, <4>1, <5>1
        <5>3. o + DayLength <= p \/ p + DayLength + c <= o - c
          BY <2>4
        <5>. QED
          BY <1>1, <2>4, <5>2, <5>3 DEF c
      <4>5. x \in P
        BY <2>2, <4>1, <4>4
      <4>. QED
        BY <4>3, <4>5 DEF x
    <3>. QED
      BY <2>5, <3>6, <3>7
  <2>. QED
    BY <2>7, <2>8
<1>6. Switches(z, s, d, P)
  BY <1>1, <1>3, <1>4, <1>5, BaseSwitches DEF c
<1>7. Calm(P, c)
  BY <1>1, OnsetsCalm DEF P
<1>. QED
  BY <1>6, <1>7, SwitchIsRight

(* A single component has its offset at all times. *)
LEMMA SingleComponent ==
  ASSUME NEW z, z.kind = "ical", IcalComps(z), Len(z.comps) = 1,
         z.comps[1].from \in Offset, z.comps[1].to \in Offset
  PROVE  Right(z)
<1> DEFINE from == z.comps[1].from   to == z.comps[1].to
<1>1. from \in Int /\ to \in Int /\ DOMAIN z.comps = {1} /\ z.comps[1].onsets \subseteq Int
  BY ClockAssumption DEF IcalComps, Offset
<1>2. ASSUME NEW w \in Int, NEW f \in {0, 1} PROVE Comp(z, w, f) = z.comps[1]
  BY DEF Comp, FindComp
<1>3. ASSUME NEW w \in Int, NEW f \in {0, 1}
      PROVE  /\ UtcOffset(z, w, f) = to
             /\ Dst(z, w, f) = IF z.comps[1].isdst THEN to - from ELSE 0
  BY <1>2 DEF UtcOffset, Dst
<1>4. \A w \in Int : ~IsAmbiguous(z, w)
  BY <1>3 DEF IsAmbiguous
<1>5. ASSUME NEW u \in Int PROVE FromUtc(z, u) = Enfold(u + to, 0)
  <2>1. CASE z.comps[1].isdst
    <3>1. StdOffset(z, u) = from
      BY <1>1, <1>3, <2>1 DEF StdOffset
    <3>2. (u + from) + Dst(z, u + from, 1) = u + to
      BY <1>1, <1>3, <2>1
    <3>3. FoldStatus(z, u, u + to) = 0
      BY <1>1, <1>4 DEF FoldStatus, Bit
    <3>. QED
      BY <3>1, <3>2, <3>3 DEF FromUtc, BaseFromUtc
  <2>2. CASE ~z.comps[1].isdst
    <3>1. StdOffset(z, u) = to
      BY <1>1, <1>3, <2>2 DEF StdOffset
    <3>2. (u + to) + Dst(z, u + to, 1) = u + to
      BY <1>1, <1>3, <2>2
    <3>3. FoldStatus(z, u, u + to) = 0
      BY <1>1, <1>4 DEF FoldStatus, Bit
    <3>. QED
      BY <3>1, <3>2, <3>3 DEF FromUtc, BaseFromUtc
  <2>. QED
    BY <2>1, <2>2
<1>6. ASSUME NEW u \in Int PROVE TrueOffset(z, u) = to
  <2> DEFINE past == {e \in Changes(z, u) : e[1] <= u}
  <2>1. Changes(z, u) = {<<o - from, to>> : o \in z.comps[1].onsets}
    BY <1>1 DEF Changes
  <2>2. TrueOffset(z, u) = IF past = {} THEN FirstOffset(z)
                           ELSE (CHOOSE e \in past : \A g \in past : g[1] <= e[1])[2]
    BY DEF TrueOffset
  <2>3. FirstOffset(z) = to
    <3>1. Standard(z) = {} \/ Standard(z) = {1}
      BY <1>1 DEF Standard
    <3>2. Initial(z) = 1
      <4>1. CASE Standard(z) = {}
        BY <4>1 DEF Initial
      <4>2. CASE Standard(z) = {1}
        BY <4>2 DEF Initial
      <4>. QED
        BY <3>1, <4>1, <4>2
    <3>. QED
      BY <3>2 DEF FirstOffset
  <2>4. \A e \in past : e[1] \in Int /\ e[1] <= u /\ e[2] = to
    BY <1>1, <2>1
  <2> HIDE DEF past
  <2>5. CASE past # {}
    <3> DEFINE T == {e[1] : e \in past}
    <3>1. PICK m \in T : \A t \in T : t <= m
      <4>1. T \subseteq Int /\ T # {} /\ \A t \in T : t <= u
        BY <2>4, <2>5
      <4> HIDE DEF T
      <4>. QED
        BY <4>1, GreatestOf
    <3>2. PICK e \in past : e[1] = m
      OBVIOUS
    <3>3. ASSUME NEW g \in past PROVE g[1] <= e[1] /\ g[2] = e[2]
      <4>1. g[1] \in T
        OBVIOUS
      <4>. QED
        BY <2>4, <3>1, <3>2, <4>1
    <3>4. (CHOOSE h \in past : \A g \in past : g[1] <= h[1])[2] = e[2]
      BY <3>3, LatestChange
    <3>. QED
      BY <2>2, <2>4, <2>5, <3>4
  <2>. QED
    BY <2>2, <2>3, <2>5
<1>7. \A w \in Int, f \in {0, 1} : ~Twice({}, 0, w) /\ ~On({}, 0, w, f)
  BY DEF Twice, On
<1>8. to - to = 0
  BY <1>1
<1>9. Switches(z, to, to, {})
  BY <1>1, <1>3, <1>4, <1>5, <1>6, <1>7, <1>8 DEF Switches
<1>10. Calm({}, 0)
  BY DEF Calm
<1>. QED
  BY <1>8, <1>9, <1>10, SwitchIsRight

LEMMA IcalIsRight ==
  ASSUME NEW z, z.kind = "ical", HasData(z)
  PROVE  Right(z)
<1>1. IcalData(z)
  BY DEF HasData
<1>2. IcalComps(z)
  BY <1>1 DEF IcalData, IcalComps
<1>3. CASE /\ Len(z.comps) = 1
           /\ z.comps[1].from \in -MaxOffset .. MaxOffset /\ z.comps[1].to \in -MaxOffset .. MaxOffset
  BY <1>2, <1>3, SingleComponent DEF Offset
<1>4. ASSUME NEW s \in -MaxOffset .. MaxOffset, NEW d \in -MaxOffset .. MaxOffset,
             s < d, d - s <= DayLength, Standard(z) # {},
             \A k \in DOMAIN z.comps :
               <<z.comps[k].from, z.comps[k].to>> = IF z.comps[k].isdst THEN <<s, d>> ELSE <<d, s>>,
             \A j \in Standard(z), k \in DOMAIN z.comps \ Standard(z) :
               \A o \in z.comps[j].onsets, p \in z.comps[k].onsets :
                 o + DayLength <= p \/ p + DayLength + d - s <= o - (d - s)
      PROVE  IcalSwitches(z, s, d)
  <2> DEFINE A == Onsets(z, Standard(z))   B == Onsets(z, Daylight(z))
  <2>1. s \in Int /\ d \in Int /\ DayLength \in Nat
    BY ClockAssumption
  <2>2. \A k \in DOMAIN z.comps : z.comps[k].onsets \subseteq Int
    BY <1>2 DEF IcalComps
  <2>3. A \subseteq Int /\ B \subseteq Int
    BY <2>2 DEF Onsets, Standard, Daylight
  <2>4. ASSUME NEW o \in A, NEW p \in B PROVE o + DayLength <= p \/ p + DayLength + (d - s) <= o - (d - s)
    <3>1. PICK j \in Standard(z) : o \in z.comps[j].onsets
      BY DEF Onsets
    <3>2. PICK k \in DOMAIN z.comps \ Standard(z) : p \in z.comps[k].onsets
      BY DEF Onsets, Daylight
    <3>3. o + DayLength <= p \/ p + DayLength + d - s <= o - (d - s)
      BY <1>4, <3>1, <3>2
    <3>. QED
      BY <2>1, <2>3, <3>3
  <2>5. Spaced(A, B, d - s)
    BY <1>4, <2>1, <2>3, <2>4 DEF Spaced
  <2>. QED
    BY <1>4, <2>5 DEF IcalSwitches, Offset
<1>5. ASSUME ~(/\ Len(z.comps) = 1
               /\ z.comps[1].from \in -MaxOffset .. MaxOffset /\ z.comps[1].to \in -MaxOffset .. MaxOffset)
      PROVE  \E s, d \in -MaxOffset .. MaxOffset : IcalSwitches(z, s, d)
  BY <1>1, <1>4, <1>5 DEF IcalData
<1>. QED
  BY <1>2, <1>3, <1>5, SwitchingComponents

-----------------------------------------------------------------------------
(* Zones of a file: n transitions at the times t of UTC, put at l on the wall, from
   the offset o[0] by o[1], ... to o[n]. *)

WallsAt(t, l, o, i) == {t[i] + o[i - 1], t[i] + o[i], l[i]}
Tape(n, t, l, o) ==
  /\ n \in Nat \ {0} /\ t \in [1..n -> Int] /\ l \in [1..n -> Int] /\ o \in [0..n -> Int]
  /\ \A i \in 2..n : \A v \in WallsAt(t, l, o, i - 1), w \in WallsAt(t, l, o, i) : v + DayLength <= w
  /\ \A i \in 1..n : /\ o[i] - o[i - 1] <= DayLength
                     /\ o[i] < o[i - 1] => l[i] = t[i] + o[i] /\ i > 1
                     /\ o[i - 1] < o[i] => t[i] + o[i - 1] <= l[i] /\ l[i] <= t[i] + o[i]
(* Of the times f, the j-th is the last that is not after x. *)
LastAt(n, f, x, j) ==
  j \in 0..n /\ (j > 0 => f[j] <= x) /\ \A i \in 1..n : j < i => x < f[i]
(* The wall shows w between the k-th transition and the next one. *)
Within(n, t, o, k, w) ==
  k \in 0..n /\ (k > 0 => t[k] + o[k] <= w) /\ (k < n => w < t[k + 1] + o[k])
SetBack(l, o, j, w) == j > 1 /\ w < l[j] + (o[j - 1] - o[j])

LEMMA TapeTypes ==
  ASSUME NEW n, NEW t, NEW l, NEW o, Tape(n, t, l, o), NEW i \in 1..n
  PROVE  /\ n \in Nat /\ i \in Nat /\ i - 1 \in 0..n /\ i \in 0..n
         /\ t[i] \in Int /\ l[i] \in Int /\ o[i] \in Int /\ o[i - 1] \in Int
         /\ DayLength \in Int /\ 0 < DayLength
         /\ o[i] - o[i - 1] <= DayLength
         /\ o[i] < o[i - 1] => l[i] = t[i] + o[i] /\ i > 1
         /\ o[i - 1] < o[i] => t[i] + o[i - 1] <= l[i] /\ l[i] <= t[i] + o[i]
<1>1. n \in Nat /\ i \in Nat /\ i - 1 \in 0..n /\ i \in 0..n
  BY DEF Tape
<1>2. t[i] \in Int /\ l[i] \in Int
  BY DEF Tape
<1>3. o[i] \in Int /\ o[i - 1] \in Int
  BY <1>1 DEF Tape
<1>. QED
  BY <1>1, <1>2, <1>3, ClockAssumption DEF Tape

(* A day lies between two transitions, in UTC and on the wall. *)
LEMMA TapeOrder ==
  ASSUME NEW n, NEW t, NEW l, NEW o, Tape(n, t, l, o), NEW i \in 1..n, NEW j \in 1..n, i < j
  PROVE  /\ t[i] + DayLength <= t[j]
         /\ \A v \in WallsAt(t, l, o, i), w \in WallsAt(t, l, o, j) : v + DayLength <= w
<1> DEFINE Apart(h, k) == \A v \in WallsAt(t, l, o, h), w \in WallsAt(t, l, o, k) : v + DayLength <= w
           Bad == {k \in 1..n : \E h \in 1..n : h < k /\ ~(Apart(h, k) /\ t[h] + DayLength <= t[k])}
<1>1. \A k \in 2..n : Apart(k - 1, k)
  BY DEF Tape
<1>2. ASSUME NEW k \in 1..n PROVE \A v \in WallsAt(t, l, o, k) : v \in Int
  BY TapeTypes DEF WallsAt
<1>3. ASSUME NEW k \in 2..n PROVE k - 1 \in 1..n /\ k \in 1..n /\ t[k - 1] + DayLength <= t[k]
  <2>1. k - 1 \in 1..n /\ k \in 1..n
    BY DEF Tape
  <2>2. t[k - 1] + o[k - 1] \in WallsAt(t, l, o, k - 1) /\ t[k] + o[k - 1] \in WallsAt(t, l, o, k)
    BY DEF WallsAt
  <2>3. (t[k - 1] + o[k - 1]) + DayLength <= t[k] + o[k - 1]
    BY <1>1, <2>2
  <2>4. t[k - 1] \in Int /\ t[k] \in Int /\ o[k - 1] \in Int /\ DayLength \in Int
    BY <2>1, TapeTypes
  <2>. QED
    BY <2>1, <2>3, <2>4
<1> HIDE DEF Apart
<1>4. Bad = {}
  <2> SUFFICES ASSUME Bad # {} PROVE FALSE
    OBVIOUS
  <2>1. Bad \subseteq Nat
    BY DEF Tape
  <2>2. PICK k \in Bad : \A m \in Bad : k <= m
    <3> HIDE DEF Bad
    <3>. QED
      BY <2>1, LeastOf
  <2>3. PICK h \in 1..n : h < k /\ ~(Apart(h, k) /\ t[h] + DayLength <= t[k])
    OBVIOUS
  <2>4. k \in 2..n /\ h \in Nat /\ k \in Nat /\ n \in Nat
    BY <2>3 DEF Tape
  <2>5. h < k - 1 /\ k - 1 \in 1..n
    BY <1>1, <1>3, <2>3, <2>4
  <2>6. k - 1 \notin Bad
    BY <2>2, <2>4
  <2>7. Apart(h, k - 1) /\ t[h] + DayLength <= t[k - 1]
    BY <2>3, <2>5, <2>6
  <2>8. t[h] + DayLength <= t[k]
    <3>1. t[h] \in Int /\ t[k - 1] \in Int /\ t[k] \in Int /\ DayLength \in Int /\ 0 < DayLength
      BY <2>3, <2>5, TapeTypes
    <3>. QED
      BY <1>3, <2>4, <2>7, <3>1
  <2>9. Apart(h, k)
    <3>1. ASSUME NEW v \in WallsAt(t, l, o, h), NEW w \in WallsAt(t, l, o, k) PROVE v + DayLength <= w
      <4>1. l[k - 1] \in WallsAt(t, l, o, k - 1)
        BY DEF WallsAt
      <4>2. v + DayLength <= l[k - 1]
        BY <2>7, <4>1 DEF Apart
      <4>3. l[k - 1] + DayLength <= w
        BY <1>1, <2>4, <4>1 DEF Apart
      <4>4. v \in Int /\ w \in Int /\ l[k - 1] \in Int /\ DayLength \in Int /\ 0 < DayLength
        BY <1>2, <2>4, <2>5, <4>1, TapeTypes
      <4>. QED
        BY <4>2, <4>3, <4>4
    <3>. QED
      BY <3>1 DEF Apart
  <2>. QED
    BY <2>3, <2>8, <2>9
<1>5. j \notin Bad
  BY <1>4
<1>6. Apart(i, j) /\ t[i] + DayLength <= t[j]
  <2> HIDE DEF Apart
  <2>. QED
    BY <1>5
<1>. QED
  BY <1>6 DEF Apart

(* The same in numbers: what the i-th transition is about comes before the j-th. *)
LEMMA TapeApart ==
  ASSUME NEW n, NEW t, NEW l, NEW o, Tape(n, t, l, o), NEW i \in 1..n, NEW j \in 1..n, i < j
  PROVE  LET D == DayLength IN
         /\ (t[i] + o[i - 1]) + D <= t[j] + o[j - 1] /\ (t[i] + o[i - 1]) + D <= t[j] + o[j] /\ (t[i] + o[i - 1]) + D <= l[j]
         /\ (t[i] + o[i]) + D <= t[j] + o[j - 1] /\ (t[i] + o[i]) + D <= t[j] + o[j] /\ (t[i] + o[i]) + D <= l[j]
         /\ l[i] + D <= t[j] + o[j - 1] /\ l[i] + D <= t[j] + o[j] /\ l[i] + D <= l[j]
<1>1. \A v \in WallsAt(t, l, o, i), w \in WallsAt(t, l, o, j) : v + DayLength <= w
  BY TapeOrder
<1>. QED
  BY <1>1 DEF WallsAt

(* A time is put at the only transition that the wall can show it after, but where
   the clock is set back, and there the one before shows it too. *)
LEMMA TapeTwice ==
  ASSUME NEW n, NEW t, NEW l, NEW o, Tape(n, t, l, o), NEW w \in Int, NEW j,
         LastAt(n, l, w, j), SetBack(l, o, j, w)
  PROVE  /\ j \in 1..n /\ j - 1 \in 1..n /\ o[j] < o[j - 1]
         /\ Within(n, t, o, j, w) /\ Within(n, t, o, j - 1, w)
         /\ ~SetBack(l, o, j - 1, w)
         /\ \A k : Within(n, t, o, k, w) => k = j \/ k = j - 1
<1> DEFINE D == DayLength
<1>1. j \in 1..n /\ j - 1 \in 1..n /\ j \in Nat /\ n \in Nat
  BY DEF LastAt, SetBack, Tape
<1>2. /\ t[j] \in Int /\ l[j] \in Int /\ o[j] \in Int /\ o[j - 1] \in Int /\ D \in Int /\ 0 < D
      /\ t[j - 1] \in Int /\ l[j - 1] \in Int /\ o[(j - 1) - 1] \in Int
  BY <1>1, TapeTypes
<1>3. l[j] <= w /\ w < l[j] + (o[j - 1] - o[j])
  BY <1>1 DEF LastAt, SetBack
<1>4. o[j] < o[j - 1] /\ l[j] = t[j] + o[j]
  <2>1. o[j] < o[j - 1]
    BY <1>2, <1>3
  <2>. QED
    BY <1>1, <2>1, TapeTypes
<1>5. t[j] + o[j] <= w /\ w < t[j] + o[j - 1]
  BY <1>2, <1>3, <1>4
<1>6. /\ (t[j - 1] + o[j - 1]) + D <= l[j] /\ l[j - 1] + D <= l[j]
      /\ (t[j - 1] + o[(j - 1) - 1]) + D <= l[j]
  BY <1>1, TapeApart
<1>7. Within(n, t, o, j - 1, w)
  <2>1. (j - 1) + 1 = j /\ j - 1 \in 0..n
    BY <1>1
  <2>. QED
    BY <1>2, <1>3, <1>5, <1>6, <2>1 DEF Within
<1>8. Within(n, t, o, j, w)
  <2>1. ASSUME j < n PROVE w < t[j + 1] + o[j]
    <3>1. j + 1 \in 1..n /\ (j + 1) - 1 = j
      BY <1>1, <2>1
    <3>2. (t[j] + o[j - 1]) + D <= t[j + 1] + o[j] /\ t[j + 1] \in Int
      BY <1>1, <3>1, TapeApart, TapeTypes
    <3>. QED
      BY <1>2, <1>5, <3>2
  <2>. QED
    BY <1>1, <1>5, <2>1 DEF Within
<1>9. ~SetBack(l, o, j - 1, w)
  <2> SUFFICES ASSUME SetBack(l, o, j - 1, w) PROVE FALSE
    OBVIOUS
  <2> DEFINE i == j - 1
  <2>1. i > 1 /\ w < l[i] + (o[i - 1] - o[i])
    BY DEF SetBack
  <2>2. /\ i \in 1..n /\ l[i] \in Int /\ t[i] \in Int /\ o[i - 1] \in Int /\ o[i] \in Int
        /\ l[i] + D <= l[j] /\ (t[i] + o[i - 1]) + D <= l[j]
    BY <1>1, <1>2, <1>6
  <2>3. o[i] < o[i - 1] => l[i] = t[i] + o[i]
    BY <2>2, TapeTypes
  <2> HIDE DEF i
  <2>. QED
    BY <1>2, <1>3, <2>1, <2>2, <2>3
<1>10. ASSUME NEW k, Within(n, t, o, k, w) PROVE k = j \/ k = j - 1
  <2>1. k \in 0..n /\ k \in Int
    BY <1>1, <1>10 DEF Within
  <2>2. ~(j < k)
    <3> SUFFICES ASSUME j < k PROVE FALSE
      OBVIOUS
    <3>1. k \in 1..n
      BY <1>1, <2>1
    <3>2. t[k] + o[k] <= w /\ t[k] \in Int /\ o[k] \in Int
      BY <1>1, <1>10, <3>1, TapeTypes DEF Within
    <3>3. (t[j] + o[j - 1]) + D <= t[k] + o[k]
      BY <1>1, <3>1, TapeApart
    <3>. QED
      BY <1>2, <1>5, <3>2, <3>3
  <2>3. ~(k < j - 1)
    <3> SUFFICES ASSUME k < j - 1 PROVE FALSE
      OBVIOUS
    <3>1. k + 1 \in 1..n /\ k + 1 < j /\ (k + 1) - 1 = k /\ k < n
      BY <1>1, <2>1
    <3>2. w < t[k + 1] + o[k]
      BY <1>10, <3>1 DEF Within
    <3>3. (t[k + 1] + o[k]) + D <= l[j] /\ t[k + 1] \in Int /\ o[k] \in Int
      <4>1. (t[k + 1] + o[(k + 1) - 1]) + D <= l[j] /\ t[k + 1] \in Int /\ o[(k + 1) - 1] \in Int
        BY <1>1, <3>1, TapeApart, TapeTypes
      <4>. QED
        BY <3>1, <4>1
    <3>. QED
      BY <1>2, <1>3, <3>2, <3>3
  <2>. QED
    BY <1>1, <2>1, <2>2, <2>3
<1>. QED
  BY <1>1, <1>4, <1>7, <1>8, <1>9, <1>10

LEMMA TapeOnce ==
  ASSUME NEW n, NEW t, NEW l, NEW o, Tape(n, t, l, o), NEW w \in Int, NEW j,
         LastAt(n, l, w, j), ~SetBack(l, o, j, w), NEW k, Within(n, t, o, k, w)
  PROVE  o[k] = o[j]
<1> DEFINE D == DayLength
<1>1. j \in 0..n /\ k \in 0..n /\ j \in Int /\ k \in Int /\ n \in Nat
  BY DEF LastAt, Within, Tape
<1>2. CASE k < j
  <2>1. j \in 1..n /\ k + 1 \in 1..n /\ k < n /\ (k + 1) - 1 = k
    BY <1>1, <1>2
  <2>2. /\ t[j] \in Int /\ l[j] \in Int /\ o[j] \in Int /\ o[j - 1] \in Int /\ D \in Int /\ 0 < D
        /\ t[k + 1] \in Int
    BY <2>1, TapeTypes
  <2>3. o[k] \in Int
    <3>1. o[(k + 1) - 1] \in Int
      BY <2>1, TapeTypes
    <3>. QED
      BY <2>1, <3>1
  <2>4. l[j] <= w /\ w < t[k + 1] + o[k]
    BY <2>1 DEF LastAt, Within
  <2>5. k = j - 1
    <3> SUFFICES ASSUME k + 1 < j PROVE FALSE
      BY <1>1, <1>2
    <3>1. (t[k + 1] + o[(k + 1) - 1]) + D <= l[j]
      BY <2>1, TapeApart
    <3>2. (t[k + 1] + o[k]) + D <= l[j]
      BY <2>1, <3>1
    <3>. QED
      BY <2>2, <2>3, <2>4, <3>2
  <2>6. w < t[j] + o[j - 1]
    BY <2>1, <2>4, <2>5
  <2>7. ~(o[j] < o[j - 1])
    <3> SUFFICES ASSUME o[j] < o[j - 1] PROVE FALSE
      OBVIOUS
    <3>1. l[j] = t[j] + o[j] /\ j > 1
      BY <2>1, TapeTypes
    <3>2. w < l[j] + (o[j - 1] - o[j])
      BY <2>2, <2>6, <3>1
    <3>. QED
      BY <3>1, <3>2 DEF SetBack
  <2>8. ~(o[j - 1] < o[j])
    <3> SUFFICES ASSUME o[j - 1] < o[j] PROVE FALSE
      OBVIOUS
    <3>1. t[j] + o[j - 1] <= l[j]
      BY <2>1, TapeTypes
    <3>. QED
      BY <2>2, <2>4, <2>6, <3>1
  <2>. QED
    BY <2>2, <2>5, <2>7, <2>8
<1>3. CASE j < k
  <2>1. k \in 1..n /\ j + 1 \in 1..n /\ (j + 1) - 1 = j
    BY <1>1, <1>3
  <2>2. /\ t[k] \in Int /\ l[k] \in Int /\ o[k] \in Int /\ o[k - 1] \in Int /\ D \in Int /\ 0 < D
        /\ l[j + 1] \in Int
    BY <2>1, TapeTypes
  <2>3. w < l[j + 1] /\ t[k] + o[k] <= w
    BY <1>1, <2>1 DEF LastAt, Within
  <2>4. k = j + 1
    <3> SUFFICES ASSUME j + 1 < k PROVE FALSE
      BY <1>1, <1>3
    <3>1. l[j + 1] + D <= t[k] + o[k]
      BY <2>1, TapeApart
    <3>. QED
      BY <2>2, <2>3, <3>1
  <2>5. o[k] < o[k - 1] => l[k] = t[k] + o[k]
    BY <2>1, TapeTypes
  <2>6. o[k - 1] < o[k] => l[k] <= t[k] + o[k]
    BY <2>1, TapeTypes
  <2>7. w < l[k] /\ k - 1 = j
    BY <1>1, <2>3, <2>4
  <2>. QED
    BY <2>2, <2>3, <2>5, <2>6, <2>7
<1>. QED
  BY <1>1, <1>2, <1>3

(* A time that nothing shows is one that a step of the clock leaves out. *)
LEMMA TapeGap ==
  ASSUME NEW n, NEW t, NEW l, NEW o, Tape(n, t, l, o), NEW w \in Int, NEW j, LastAt(n, l, w, j),
         \A k : ~Within(n, t, o, k, w)
  PROVE  \E k \in 1..n : o[k - 1] < o[k] /\ t[k] + o[k - 1] <= w /\ w < t[k] + o[k]
<1> DEFINE D == DayLength
<1>1. j \in 0..n /\ j \in Int /\ n \in Nat
  BY DEF LastAt, Tape
<1>2. ~SetBack(l, o, j, w)
  BY TapeTwice
<1>3. CASE j > 0 /\ w < t[j] + o[j]
  <2>1. j \in 1..n /\ (j - 1) + 1 = j /\ j - 1 \in 0..n /\ j - 1 < n
    BY <1>1, <1>3
  <2>2. /\ t[j] \in Int /\ l[j] \in Int /\ o[j] \in Int /\ o[j - 1] \in Int /\ D \in Int /\ 0 < D
        /\ o[j] < o[j - 1] => l[j] = t[j] + o[j]
        /\ o[j - 1] < o[j] => t[j] + o[j - 1] <= l[j]
    BY <2>1, TapeTypes
  <2>3. l[j] <= w
    BY <2>1 DEF LastAt
  <2>4. o[j - 1] < o[j]
    <3> SUFFICES ASSUME o[j] = o[j - 1] PROVE FALSE
      BY <1>3, <2>2, <2>3
    <3>1. ASSUME j - 1 > 0 PROVE t[j - 1] + o[j - 1] <= w
      <4>1. j - 1 \in 1..n
        BY <2>1, <3>1
      <4>2. (t[j - 1] + o[j - 1]) + D <= l[j] /\ t[j - 1] \in Int
        BY <1>1, <2>1, <4>1, TapeApart, TapeTypes
      <4>. QED
        BY <2>2, <2>3, <4>2
    <3>2. w < t[j] + o[j - 1]
      BY <1>3
    <3>3. Within(n, t, o, j - 1, w)
      BY <2>1, <3>1, <3>2 DEF Within
    <3>. QED
      BY <3>3
  <2>. QED
    BY <1>3, <2>1, <2>2, <2>3, <2>4
<1>4. CASE ~(j > 0 /\ w < t[j] + o[j])
  <2>1. j > 0 => t[j] + o[j] <= w
    <3>1. j > 0 => t[j] \in Int /\ o[j] \in Int
      BY <1>1, TapeTypes
    <3>. QED
      BY <1>4, <3>1
  <2>2. ~(j < n => w < t[j + 1] + o[j])
    BY <1>1, <2>1 DEF Within
  <2> DEFINE k == j + 1
  <2>3. k \in 1..n /\ k - 1 = j /\ k \in Int /\ n \in Int
    BY <1>1, <2>2
  <2> HIDE DEF k
  <2>4. /\ t[k] \in Int /\ l[k] \in Int /\ o[k] \in Int /\ o[k - 1] \in Int /\ D \in Int /\ 0 < D
        /\ o[k] < o[k - 1] => l[k] = t[k] + o[k]
        /\ o[k - 1] < o[k] => l[k] <= t[k] + o[k]
    BY <2>3, TapeTypes
  <2>5. ~(w < t[k] + o[k - 1])
    BY <2>2, <2>3 DEF k
  <2>6. w < l[k]
    BY <1>1, <2>3 DEF LastAt
  <2>7. o[k - 1] < o[k]
    <3> SUFFICES ASSUME o[k] = o[k - 1] PROVE FALSE
      <4>1. ~(o[k] < o[k - 1])
        BY <2>4, <2>5, <2>6
      <4>. QED
        BY <2>4, <4>1
    <3>1. t[k] + o[k] <= w
      BY <2>4, <2>5
    <3>2. ASSUME k < n PROVE w < t[k + 1] + o[k]
      <4>1. k + 1 \in 1..n /\ (k + 1) - 1 = k /\ k < k + 1
        BY <2>3, <3>2
      <4>2. l[k] + D <= t[k + 1] + o[(k + 1) - 1] /\ t[k + 1] \in Int
        BY <2>3, <4>1, TapeApart, TapeTypes
      <4>. QED
        BY <2>4, <2>6, <4>1, <4>2
    <3>3. Within(n, t, o, k, w)
      BY <2>3, <3>1, <3>2 DEF Within
    <3>. QED
      BY <3>3
  <2>. QED
    BY <2>3, <2>4, <2>5, <2>6, <2>7
<1>. QED
  BY <1>3, <1>4

LEMMA TapeRises ==
  ASSUME NEW n, NEW t, NEW l, NEW o, Tape(n, t, l, o)
  PROVE  /\ n \in Nat \ {0} /\ t \in [1..n -> Int] /\ l \in [1..n -> Int] /\ o \in [0..n -> Int]
         /\ \A i \in 1..n, m \in 1..n : i < m => t[i] < t[m]
<1>1. ASSUME NEW i \in 1..n, NEW m \in 1..n, i < m PROVE t[i] < t[m]
  <2>1. t[i] + DayLength <= t[m]
    BY <1>1, TapeOrder
  <2>2. t[i] \in Int /\ t[m] \in Int /\ DayLength \in Int /\ 0 < DayLength
    BY TapeTypes
  <2>. QED
    BY <2>1, <2>2
<1>. QED
  BY <1>1 DEF Tape

LEMMA LastIs ==
  ASSUME NEW n \in Nat, NEW f, \A i \in 1..n : f[i] \in Int, \A i, m \in 1..n : i < m => f[i] <= f[m],
         NEW x \in Int, NEW k \in 0..n, k > 0 => f[k] <= x, k < n => x < f[k + 1],
         NEW j, LastAt(n, f, x, j)
  PROVE  j = k
<1>1. j \in 0..n /\ (j > 0 => f[j] <= x) /\ \A i \in 1..n : j < i => x < f[i]
  BY DEF LastAt
<1>2. ~(j < k)
  <2> SUFFICES ASSUME j < k PROVE FALSE
    OBVIOUS
  <2>1. k \in 1..n
    BY <1>1
  <2>2. x < f[k] /\ f[k] <= x /\ f[k] \in Int
    BY <1>1, <2>1
  <2>. QED
    BY <2>2
<1>3. ~(k < j)
  <2> SUFFICES ASSUME k < j PROVE FALSE
    OBVIOUS
  <2>1. k + 1 \in 1..n /\ j \in 1..n /\ k < n /\ j > 0
    BY <1>1
  <2>2. x < f[k + 1] /\ f[j] <= x /\ f[k + 1] \in Int /\ f[j] \in Int
    BY <1>1, <2>1
  <2>3. f[k + 1] <= f[j]
    <3>1. CASE k + 1 = j
      BY <2>2, <3>1
    <3>2. CASE k + 1 < j
      BY <2>1, <3>2
    <3>. QED
      BY <1>1, <3>1, <3>2
  <2>. QED
    BY <2>2, <2>3
<1>. QED
  BY <1>1, <1>2, <1>3

(* Around a step forward the offsets of the day before and of the day after are
   the ones it leads between, and what it leaves out is moved behind it. *)
LEMMA TapeAround ==
  ASSUME NEW n, NEW t, NEW l, NEW o, Tape(n, t, l, o), NEW w \in Int, NEW k \in 1..n,
         o[k - 1] < o[k], t[k] + o[k - 1] <= w, w < t[k] + o[k]
  PROVE  /\ \A j : LastAt(n, l, w + DayLength, j) => j = k /\ ~SetBack(l, o, j, w + DayLength)
         /\ \A j : LastAt(n, l, w - DayLength, j) => j = k - 1 /\ ~SetBack(l, o, j, w - DayLength)
<1> DEFINE D == DayLength
<1>1. /\ t[k] \in Int /\ l[k] \in Int /\ o[k] \in Int /\ o[k - 1] \in Int /\ D \in Int /\ 0 < D
      /\ t[k] + o[k - 1] <= l[k] /\ l[k] <= t[k] + o[k] /\ o[k] - o[k - 1] <= D
      /\ k \in Int /\ n \in Int /\ n \in Nat /\ k \in 0..n /\ k - 1 \in 0..n
  BY TapeTypes
<1>2. k < n => /\ t[k + 1] \in Int /\ l[k + 1] \in Int
               /\ (t[k] + o[k]) + D <= l[k + 1] /\ t[k] + D <= t[k + 1]
  <2> SUFFICES ASSUME k < n
               PROVE  /\ t[k + 1] \in Int /\ l[k + 1] \in Int
                      /\ (t[k] + o[k]) + D <= l[k + 1] /\ t[k] + D <= t[k + 1]
    OBVIOUS
  <2>1. k + 1 \in 1..n /\ k < k + 1
    BY <1>1
  <2>. QED
    BY <2>1, TapeApart, TapeOrder, TapeTypes
<1>3. k - 1 > 0 => /\ t[k - 1] \in Int /\ l[k - 1] \in Int /\ o[(k - 1) - 1] \in Int
                   /\ l[k - 1] + D <= t[k] + o[k - 1] /\ (t[k - 1] + o[(k - 1) - 1]) + D <= t[k] + o[k - 1]
                   /\ o[k - 1] < o[(k - 1) - 1] => l[k - 1] = t[k - 1] + o[k - 1]
  <2> SUFFICES ASSUME k - 1 > 0
               PROVE  /\ t[k - 1] \in Int /\ l[k - 1] \in Int /\ o[(k - 1) - 1] \in Int
                      /\ l[k - 1] + D <= t[k] + o[k - 1] /\ (t[k - 1] + o[(k - 1) - 1]) + D <= t[k] + o[k - 1]
                      /\ o[k - 1] < o[(k - 1) - 1] => l[k - 1] = t[k - 1] + o[k - 1]
    OBVIOUS
  <2>1. k - 1 \in 1..n /\ k - 1 < k
    BY <1>1
  <2>. QED
    BY <2>1, TapeApart, TapeTypes
<1>4. /\ \A i \in 1..n : l[i] \in Int /\ t[i] \in Int
      /\ \A i, m \in 1..n : i < m => l[i] <= l[m] /\ t[i] <= t[m]
  <2>1. ASSUME NEW i \in 1..n, NEW m \in 1..n, i < m PROVE l[i] <= l[m] /\ t[i] <= t[m]
    <3>1. l[i] + D <= l[m] /\ t[i] + D <= t[m]
      BY <2>1, TapeApart, TapeOrder
    <3>2. l[i] \in Int /\ l[m] \in Int /\ t[i] \in Int /\ t[m] \in Int
      BY TapeTypes
    <3>. QED
      BY <1>1, <3>1, <3>2
  <2>. QED
    BY <2>1, TapeTypes
<1>5. ASSUME NEW j, LastAt(n, l, w + D, j) PROVE j = k /\ ~SetBack(l, o, j, w + D)
  <2>1. w + D \in Int /\ l[k] <= w + D
    BY <1>1
  <2>2. k < n => w + D < l[k + 1]
    BY <1>1, <1>2
  <2>3. j = k
    BY <1>1, <1>4, <1>5, <2>1, <2>2, LastIs
  <2>4. ~(w + D < l[k] + (o[k - 1] - o[k]))
    BY <1>1, <2>1
  <2>. QED
    BY <2>3, <2>4 DEF SetBack
<1>6. ASSUME NEW j, LastAt(n, l, w - D, j) PROVE j = k - 1 /\ ~SetBack(l, o, j, w - D)
  <2>1. w - D \in Int /\ w - D < l[k] /\ (k - 1) + 1 = k
    BY <1>1
  <2>2. k - 1 > 0 => l[k - 1] <= w - D
    BY <1>1, <1>3
  <2>3. j = k - 1
    BY <1>1, <1>4, <1>6, <2>1, <2>2, LastIs
  <2>4. k - 1 > 0 => ~(w - D < l[k - 1] + (o[(k - 1) - 1] - o[k - 1]))
    BY <1>1, <1>3, <2>1
  <2>. QED
    BY <1>1, <2>3, <2>4 DEF SetBack
<1>. QED
  BY <1>5, <1>6

LEMMA TapeBehind ==
  ASSUME NEW n \in Nat, NEW t, \A i \in 1..n : t[i] \in Int,
         \A i, m \in 1..n : i < m => t[i] + DayLength <= t[m],
         NEW k \in 1..n, NEW a \in Int, NEW b \in Int, b - a <= DayLength,
         NEW w \in Int, t[k] + a <= w, w < t[k] + b, NEW j, LastAt(n, t, w - a, j)
  PROVE  j = k
<1> DEFINE D == DayLength   x == w - a
<1>1. t[k] \in Int /\ D \in Int /\ 0 < D /\ k \in Int /\ k \in 0..n
  BY ClockAssumption
<1>2. x \in Int /\ t[k] <= x /\ x < t[k] + D
  BY <1>1
<1>3. LastAt(n, t, x, j)
  OBVIOUS
<1> HIDE DEF x
<1>4. k < n => x < t[k + 1]
  <2> SUFFICES ASSUME k < n PROVE x < t[k + 1]
    OBVIOUS
  <2>1. k + 1 \in 1..n /\ k < k + 1
    BY <1>1
  <2>2. t[k] + D <= t[k + 1] /\ t[k + 1] \in Int
    BY <2>1
  <2>. QED
    BY <1>1, <1>2, <2>2
<1>5. \A i, m \in 1..n : i < m => t[i] <= t[m]
  <2>1. ASSUME NEW i \in 1..n, NEW m \in 1..n, i < m PROVE t[i] <= t[m]
    <3>1. t[i] + D <= t[m] /\ t[i] \in Int /\ t[m] \in Int
      BY <2>1
    <3>. QED
      BY <1>1, <3>1
  <2>. QED
    BY <2>1
<1>. QED
  BY <1>1, <1>2, <1>3, <1>4, <1>5, LastIs

-----------------------------------------------------------------------------
TapeOffset(z) == [i \in 0..Len(z.trans) |-> IF i = 0 THEN z.types[TtinfoBefore(z)].off ELSE Type(z, i).off]

LEMMA FoundLast ==
  ASSUME NEW n \in Nat, NEW f \in [1..n -> Int], NEW x \in Int
  PROVE  LastAt(n, f, x, FindLast(f, x))
<1> DEFINE S == {i \in DOMAIN f : f[i] <= x}
<1>1. CASE S = {}
  <2>1. FindLast(f, x) = 0
    BY <1>1 DEF FindLast
  <2>2. \A i \in 1..n : f[i] \in Int /\ x < f[i]
    BY <1>1
  <2>. QED
    BY <2>1, <2>2 DEF LastAt
<1>2. CASE S # {}
  <2>1. S \subseteq 1..n /\ S \subseteq Int /\ n \in Int /\ \A i \in S : i <= n
    OBVIOUS
  <2>2. \E m \in S : \A i \in S : i <= m
    <3> HIDE DEF S
    <3>. QED
      BY <1>2, <2>1, GreatestOf
  <2>3. Greatest(S) \in S /\ \A i \in S : i <= Greatest(S)
    <3> HIDE DEF S
    <3>. QED
      BY <2>2 DEF Greatest
  <2>4. FindLast(f, x) = Greatest(S)
    BY <1>2 DEF FindLast
  <2> DEFINE j == Greatest(S)
  <2>5. j \in 1..n /\ f[j] <= x
    BY <2>1, <2>3
  <2>6. ASSUME NEW i \in 1..n, j < i PROVE x < f[i]
    <3>1. i \notin S
      BY <2>3, <2>5, <2>6
    <3>2. f[i] \in Int /\ ~(f[i] <= x)
      BY <3>1
    <3>. QED
      BY <3>2
  <2> HIDE DEF j
  <2>7. j \in 0..n
    BY <2>5
  <2>. QED
    BY <2>4, <2>5, <2>6, <2>7 DEF LastAt, j
<1>. QED
  BY <1>1, <1>2

LEMMA TypeIn ==
  ASSUME NEW z, FileData(z), NEW k \in DOMAIN z.types
  PROVE  z.types[k].off \in Offset
<1> DEFINE R == [off : -MaxOffset .. MaxOffset, isdst : BOOLEAN]
<1>1. z.types \in Seq(R)
  BY DEF FileData
<1>2. \A r \in R : r.off \in Offset
  BY DEF Offset
<1> HIDE DEF R
<1>3. z.types[k] \in R
  BY <1>1
<1>. QED
  BY <1>2, <1>3

LEMMA BeforeIsType ==
  ASSUME NEW z, FileData(z)
  PROVE  TtinfoBefore(z) \in DOMAIN z.types /\ z.types[TtinfoBefore(z)].off \in Offset
<1> DEFINE std == {k \in DOMAIN z.types : ~z.types[k].isdst}
<1>1. z.types \in Seq([off : -MaxOffset .. MaxOffset, isdst : BOOLEAN]) /\ z.types # <<>>
  BY DEF FileData
<1>2. 1 \in DOMAIN z.types /\ DOMAIN z.types \subseteq Nat
  BY <1>1
<1>3. TtinfoBefore(z) \in DOMAIN z.types
  <2>1. CASE std = {}
    BY <1>2, <2>1 DEF TtinfoBefore
  <2>2. CASE std # {}
    <3>1. \E k \in std : \A j \in std : k <= j
      <4>1. std \subseteq Nat
        BY <1>2
      <4> HIDE DEF std
      <4>. QED
        BY <2>2, <4>1, LeastOf
    <3>2. TtinfoBefore(z) \in std
      BY <2>2, <3>1 DEF TtinfoBefore
    <3>. QED
      BY <3>2
  <2>. QED
    BY <2>1, <2>2
<1>. QED
  BY <1>3, TypeIn

LEMMA FileTape ==
  ASSUME NEW z, FileData(z), SoundFile(z), z.trans # <<>>
  PROVE  LET n == Len(z.trans)   o == TapeOffset(z) IN
         /\ Tape(n, TransUtc(z), z.list, o)
         /\ \A i \in 0..n : o[i] \in Offset /\ OffsetAt(z, i) = o[i]
<1> DEFINE n == Len(z.trans)   o == TapeOffset(z)   t == TransUtc(z)   l == z.list
<1>1. /\ z.types \in Seq([off : -MaxOffset .. MaxOffset, isdst : BOOLEAN])
      /\ z.trans \in Seq(Int \X DOMAIN z.types) /\ l \in [Indices(z) -> Int]
  BY DEF FileData
<1>2. n \in Nat \ {0} /\ Indices(z) = 1..n /\ l \in [1..n -> Int]
  BY <1>1 DEF Indices
<1>3. ASSUME NEW i \in 1..n
      PROVE  /\ z.trans[i][1] \in Int /\ z.trans[i][2] \in DOMAIN z.types /\ t[i] = z.trans[i][1] /\ t[i] \in Int
             /\ Type(z, i).off \in Offset /\ o[i] = Type(z, i).off
  <2>1. z.trans[i] \in Int \X DOMAIN z.types
    BY <1>1, <1>2
  <2>2. z.trans[i][1] \in Int /\ z.trans[i][2] \in DOMAIN z.types
    BY <2>1
  <2>3. Type(z, i).off \in Offset
    BY <2>2, TypeIn DEF Type
  <2>4. t[i] = z.trans[i][1]
    BY <1>2 DEF TransUtc
  <2>5. o[i] = Type(z, i).off
    BY <1>2 DEF TapeOffset
  <2>. QED
    BY <2>2, <2>3, <2>4, <2>5
<1>4. o[0] = z.types[TtinfoBefore(z)].off /\ o[0] \in Offset
  BY <1>2, BeforeIsType DEF TapeOffset
<1>5. \A i \in 0..n : o[i] \in Offset /\ o[i] \in Int
  <2>1. \A x \in Offset : x \in Int
    BY ClockAssumption DEF Offset
  <2>. QED
    BY <1>2, <1>3, <1>4, <2>1
<1>6. ASSUME NEW i \in 1..n PROVE OffsetBefore(z, i) = o[i - 1]
  BY <1>2, <1>3, <1>4 DEF OffsetBefore
<1>7. ASSUME NEW i \in 1..n PROVE WallsOf(z, i) = WallsAt(t, l, o, i)
  BY <1>3, <1>6 DEF WallsOf, WallsAt
<1>8. ASSUME NEW i \in 0..n PROVE OffsetAt(z, i) = o[i]
  <2>1. CASE i = n
    <3>1. GetTtinfo(z, i) = TtinfoStd(z)
      BY <1>2, <2>1 DEF GetTtinfo
    <3>2. z.trans[n][2] = TtinfoStd(z)
      BY DEF SoundFile
    <3>. QED
      BY <1>2, <1>3, <2>1, <3>1, <3>2 DEF OffsetAt, Type
  <2>2. CASE i = 0
    <3>1. GetTtinfo(z, i) = TtinfoBefore(z)
      BY <1>2, <2>2 DEF GetTtinfo
    <3>. QED
      BY <1>4, <2>2, <3>1 DEF OffsetAt
  <2>3. CASE i \in 1..n /\ i # n
    <3>1. GetTtinfo(z, i) = z.trans[i][2]
      BY <1>2, <2>3 DEF GetTtinfo
    <3>. QED
      BY <1>3, <2>3, <3>1 DEF OffsetAt, Type
  <2>. QED
    BY <1>2, <2>1, <2>2, <2>3
<1>9. ASSUME NEW i \in 1..n
      PROVE  /\ o[i] - o[i - 1] <= DayLength
             /\ o[i] < o[i - 1] => l[i] = t[i] + o[i] /\ i > 1
             /\ o[i - 1] < o[i] => t[i] + o[i - 1] <= l[i] /\ l[i] <= t[i] + o[i]
  <2>1. i \in Indices(z) /\ i - 1 \in 0..n
    BY <1>2
  <2>2. o[i] \in Int /\ o[i - 1] \in Int /\ t[i] \in Int /\ l[i] \in Int
    BY <1>2, <1>3, <1>5, <2>1
  <2>3. o[i] - o[i - 1] <= DayLength
    BY <1>3, <1>6, <2>1 DEF FileData
  <2>4. PutRight(z, i)
    BY <2>1 DEF SoundFile
  <2> DEFINE old == OffsetBefore(z, i)   new == Type(z, i).off   put == l[i] - z.trans[i][1]
  <2>5. /\ new < old => put = new /\ i > 1
        /\ old < new => old <= put /\ put <= new
    <3>1. old = o[i - 1] /\ new = o[i]
      BY <1>3, <1>6
    <3>2. CASE new < old
      <4>1. ~(old < new)
        BY <2>2, <3>1, <3>2
      <4>. QED
        BY <2>4, <3>2, <4>1 DEF PutRight
    <3>3. CASE old < new
      <4>1. ~(new < old)
        BY <2>2, <3>1, <3>3
      <4>. QED
        BY <2>4, <3>3, <4>1 DEF PutRight
    <3>. QED
      BY <3>2, <3>3
  <2>6. old = o[i - 1] /\ new = o[i] /\ put = l[i] - t[i]
    BY <1>3, <1>6
  <2> HIDE DEF old, new, put
  <2>7. put = o[i] => l[i] = t[i] + o[i]
    BY <2>2, <2>6
  <2>8. o[i - 1] <= put /\ put <= o[i] => t[i] + o[i - 1] <= l[i] /\ l[i] <= t[i] + o[i]
    BY <2>2, <2>6
  <2>. QED
    BY <2>3, <2>5, <2>6, <2>7, <2>8
<1>10. t \in [1..n -> Int] /\ l \in [1..n -> Int]
  BY <1>1, <1>2, <1>3 DEF TransUtc
<1>11. o \in [0..n -> Int]
  BY <1>2, <1>5 DEF TapeOffset
<1>12. ASSUME NEW i \in 2..n
       PROVE  \A v \in WallsAt(t, l, o, i - 1), w \in WallsAt(t, l, o, i) : v + DayLength <= w
  <2>1. i \in Indices(z) \ {1} /\ i \in 1..n /\ i - 1 \in 1..n
    BY <1>2
  <2>2. \A v \in WallsOf(z, i - 1), w \in WallsOf(z, i) : v + DayLength <= w
    BY <2>1 DEF FileData
  <2>3. WallsOf(z, i - 1) = WallsAt(t, l, o, i - 1) /\ WallsOf(z, i) = WallsAt(t, l, o, i)
    BY <1>7, <2>1
  <2>. QED
    BY <2>2, <2>3
<1>13. Tape(n, t, l, o)
  BY <1>2, <1>9, <1>10, <1>11, <1>12 DEF Tape
<1>. QED
  BY <1>5, <1>8, <1>13

LEMMA FileOffset ==
  ASSUME NEW z, z.kind = "file", FileData(z), SoundFile(z), z.trans # <<>>,
         NEW u \in Int, NEW k, LastAt(Len(z.trans), TransUtc(z), u, k)
  PROVE  TrueOffset(z, u) = TapeOffset(z)[k]
<1> DEFINE n == Len(z.trans)   t == TransUtc(z)   o == TapeOffset(z)
           past == {e \in Changes(z, u) : e[1] <= u}
<1>1. /\ n \in Nat \ {0} /\ t \in [1..n -> Int]
      /\ \A i \in 1..n, m \in 1..n : i < m => t[i] < t[m]
  BY FileTape, TapeRises
<1>2. k \in 0..n /\ (k > 0 => t[k] <= u) /\ \A i \in 1..n : k < i => u < t[i]
  BY DEF LastAt
<1>3. Changes(z, u) = {<<t[i], o[i]>> : i \in 1..n}
  <2>1. Indices(z) = 1..n
    BY DEF Indices
  <2>2. \A i \in 1..n : z.trans[i][1] = t[i] /\ Type(z, i).off = o[i]
    BY <1>1, <2>1 DEF TransUtc, TapeOffset
  <2>3. Changes(z, u) = {<<z.trans[i][1], Type(z, i).off>> : i \in 1..n}
    BY <2>1 DEF Changes
  <2>. QED
    BY <2>2, <2>3
<1>4. TrueOffset(z, u) = IF past = {} THEN FirstOffset(z)
                         ELSE (CHOOSE e \in past : \A g \in past : g[1] <= e[1])[2]
  BY DEF TrueOffset
<1> HIDE DEF t, o
<1>5. \A e \in past : \E i \in 1..n : e = <<t[i], o[i]>> /\ t[i] <= u
  BY <1>3
<1>6. \A i \in 1..n : t[i] <= u => <<t[i], o[i]>> \in past
  BY <1>3
<1> HIDE DEF past
<1>7. CASE k = 0
  <2>1. \A i \in 1..n : u < t[i] /\ t[i] \in Int
    BY <1>1, <1>2, <1>7
  <2>2. past = {}
    BY <1>5, <2>1
  <2>3. FirstOffset(z) = z.types[TtinfoBefore(z)].off
    BY DEF FirstOffset
  <2>4. o[0] = z.types[TtinfoBefore(z)].off
    BY <1>1 DEF TapeOffset, o
  <2>. QED
    BY <1>4, <1>7, <2>2, <2>3, <2>4 DEF o
<1>8. CASE k # 0
  <2> DEFINE e == <<t[k], o[k]>>
  <2>1. k \in 1..n /\ t[k] <= u /\ t[k] \in Int
    BY <1>1, <1>2, <1>8
  <2>2. e \in past
    BY <1>6, <2>1
  <2>3. ASSUME NEW g \in past PROVE g[1] <= e[1] /\ (e[1] <= g[1] => g[2] = e[2])
    <3>1. PICK i \in 1..n : g = <<t[i], o[i]>> /\ t[i] <= u
      BY <1>5
    <3>2. t[i] \in Int /\ ~(u < t[i])
      BY <1>1, <3>1
    <3>3. i = k \/ i < k
      BY <1>2, <2>1, <3>2
    <3>4. CASE i = k
      BY <2>1, <3>1, <3>4
    <3>5. CASE i < k
      <4>1. t[i] < t[k]
        BY <1>1, <2>1, <3>5
      <4>. QED
        BY <2>1, <3>1, <3>2, <4>1
    <3>. QED
      BY <3>3, <3>4, <3>5
  <2>4. (CHOOSE h \in past : \A g \in past : g[1] <= h[1])[2] = e[2]
    BY <2>2, <2>3, LatestChange
  <2>. QED
    BY <1>4, <2>2, <2>4 DEF o
<1>. QED
  BY <1>7, <1>8

LEMMA FileSources ==
  ASSUME NEW z, z.kind = "file", FileData(z), SoundFile(z), z.trans # <<>>, NEW w \in Int, NEW u \in Int
  PROVE  IsSource(z, w, u) <=> \E k : Within(Len(z.trans), TransUtc(z), TapeOffset(z), k, w) /\ u = w - TapeOffset(z)[k]
<1> DEFINE n == Len(z.trans)   t == TransUtc(z)   o == TapeOffset(z)
<1>1. /\ n \in Nat \ {0} /\ t \in [1..n -> Int] /\ o \in [0..n -> Int]
      /\ \A i \in 1..n, m \in 1..n : i < m => t[i] < t[m]
  BY FileTape, TapeRises
<1>2. ASSUME IsSource(z, w, u) PROVE \E k : Within(n, t, o, k, w) /\ u = w - o[k]
  <2> DEFINE k == FindLast(t, u)
  <2>1. LastAt(n, t, u, k)
    BY <1>1, FoundLast
  <2>2. TrueOffset(z, u) = o[k]
    BY <2>1, FileOffset
  <2> HIDE DEF k, t, o, n
  <2>3. k \in 0..n /\ o[k] \in Int /\ u + o[k] = w /\ u = w - o[k]
    BY <1>1, <1>2, <2>1, <2>2 DEF LastAt, IsSource
  <2>4. k > 0 => t[k] <= u /\ t[k] \in Int
    BY <1>1, <2>1 DEF LastAt
  <2>5. k < n => u < t[k + 1] /\ t[k + 1] \in Int
    <3> SUFFICES ASSUME k < n PROVE u < t[k + 1] /\ t[k + 1] \in Int
      OBVIOUS
    <3>1. k + 1 \in 1..n /\ k < k + 1
      BY <1>1, <2>3
    <3>. QED
      BY <1>1, <2>1, <3>1 DEF LastAt
  <2>6. Within(n, t, o, k, w)
    BY <2>3, <2>4, <2>5 DEF Within
  <2>. QED
    BY <2>3, <2>6
<1>3. ASSUME NEW k, Within(n, t, o, k, w), u = w - o[k] PROVE IsSource(z, w, u)
  <2> HIDE DEF t, o, n
  <2>1. k \in 0..n /\ o[k] \in Int /\ (k > 0 => t[k] + o[k] <= w) /\ (k < n => w < t[k + 1] + o[k])
    BY <1>1, <1>3 DEF Within
  <2>2. k > 0 => t[k] <= u
    BY <1>1, <1>3, <2>1
  <2>3. ASSUME NEW i \in 1..n, k < i PROVE u < t[i]
    <3>1. k + 1 \in 1..n /\ k < n /\ (k + 1 = i \/ k + 1 < i)
      BY <1>1, <2>1, <2>3
    <3>2. t[k + 1] \in Int /\ t[i] \in Int /\ u < t[k + 1]
      BY <1>1, <1>3, <2>1, <3>1
    <3>3. CASE k + 1 = i
      BY <3>2, <3>3
    <3>4. CASE k + 1 < i
      <4>1. t[k + 1] < t[i]
        BY <1>1, <3>1, <3>4
      <4>. QED
        BY <3>2, <4>1
    <3>. QED
      BY <3>1, <3>3, <3>4
  <2>4. LastAt(n, t, u, k)
    BY <2>1, <2>2, <2>3 DEF LastAt
  <2>5. TrueOffset(z, u) = o[k]
    BY <2>4, FileOffset DEF n, t, o
  <2>. QED
    BY <1>3, <2>1, <2>5 DEF IsSource
<1>. QED
  BY <1>2, <1>3

LEMMA TransitionsAreRight ==
  ASSUME NEW z, z.kind = "file", FileData(z), SoundFile(z), z.trans # <<>>
  PROVE  Right(z)
<1> DEFINE n == Len(z.trans)   t == TransUtc(z)   l == z.list   o == TapeOffset(z)
           at(w) == FindLast(l, w)
<1>1. /\ n \in Nat \ {0} /\ t \in [1..n -> Int] /\ l \in [1..n -> Int] /\ o \in [0..n -> Int]
      /\ Tape(n, t, l, o)
  BY FileTape, TapeRises
<1>2. \A i \in 0..n : o[i] \in Offset /\ o[i] \in Int /\ OffsetAt(z, i) = o[i]
  BY <1>1, FileTape
<1>3. ASSUME NEW w \in Int, NEW u \in Int
      PROVE  IsSource(z, w, u) <=> \E k : Within(n, t, o, k, w) /\ u = w - o[k]
  BY FileSources
<1>4. ASSUME NEW u \in Int, NEW k, LastAt(n, t, u, k) PROVE TrueOffset(z, u) = o[k]
  BY <1>4, FileOffset
<1>5. ASSUME NEW w \in Int, NEW j \in 0..n PROVE FileAmbiguous(z, w, j) <=> SetBack(l, o, j, w)
  <2>1. CASE j > 1
    <3>1. j - 1 \in 0..n /\ j \in 1..n
      BY <1>1, <2>1
    <3>2. o[j] \in Int /\ o[j - 1] \in Int /\ OffsetAt(z, j) = o[j] /\ OffsetAt(z, j - 1) = o[j - 1] /\ l[j] \in Int
      BY <1>1, <1>2, <3>1
    <3> HIDE DEF o, l
    <3>3. l[j] + OffsetAt(z, j - 1) - OffsetAt(z, j) = l[j] + (o[j - 1] - o[j])
      BY <3>2
    <3>. QED
      BY <3>3 DEF FileAmbiguous, SetBack, l
  <2>2. CASE ~(j > 1)
    BY <2>2 DEF FileAmbiguous, SetBack
  <2>. QED
    BY <2>1, <2>2
<1>6. ASSUME NEW w \in Int PROVE LastAt(n, l, w, at(w)) /\ at(w) \in 0..n /\ at(w) \in Int
  <2>1. LastAt(n, l, w, at(w))
    BY <1>1, FoundLast
  <2>2. \A j \in 0..n : j \in Int
    OBVIOUS
  <2>3. at(w) \in 0..n
    BY <2>1 DEF LastAt
  <2> HIDE DEF at, n
  <2>. QED
    BY <2>1, <2>2, <2>3
<1>7. ASSUME NEW w \in Int PROVE IsAmbiguous(z, w) <=> SetBack(l, o, at(w), w)
  BY <1>5, <1>6 DEF IsAmbiguous
<1>8. ASSUME NEW w \in Int, NEW f \in {0, 1}
      PROVE  UtcOffset(z, w, f) = IF f = 0 /\ SetBack(l, o, at(w), w) THEN o[at(w) - 1] ELSE o[at(w)]
  <2>1. UtcOffset(z, w, f) = OffsetAt(z, at(w) - Bit(f = 0 /\ FileAmbiguous(z, w, at(w))))
    BY DEF UtcOffset, Resolved
  <2>2. FileAmbiguous(z, w, at(w)) <=> SetBack(l, o, at(w), w)
    BY <1>5, <1>6
  <2>3. at(w) \in 0..n /\ at(w) \in Int
    BY <1>6
  <2> HIDE DEF at, o, l, n
  <2>4. CASE f = 0 /\ SetBack(l, o, at(w), w)
    <3>1. at(w) - 1 \in 0..n
      BY <1>1, <2>3, <2>4 DEF SetBack
    <3>2. UtcOffset(z, w, f) = OffsetAt(z, at(w) - 1)
      BY <2>1, <2>2, <2>4 DEF Bit
    <3>. QED
      BY <1>2, <2>4, <3>1, <3>2
  <2>5. CASE ~(f = 0 /\ SetBack(l, o, at(w), w))
    <3>1. UtcOffset(z, w, f) = OffsetAt(z, at(w))
      BY <2>1, <2>2, <2>3, <2>5 DEF Bit
    <3>. QED
      BY <1>2, <2>3, <2>5, <3>1
  <2>. QED
    BY <2>4, <2>5
<1> HIDE DEF at, n, t, l, o
<1>9. ASSUME NEW w \in Int, SetBack(l, o, at(w), w)
      PROVE  /\ at(w) \in 1..n /\ at(w) - 1 \in 1..n /\ o[at(w)] < o[at(w) - 1]
             /\ Within(n, t, o, at(w), w) /\ Within(n, t, o, at(w) - 1, w)
             /\ ~SetBack(l, o, at(w) - 1, w)
             /\ \A k : Within(n, t, o, k, w) => k = at(w) \/ k = at(w) - 1
  <2>1. LastAt(n, l, w, at(w))
    BY <1>6
  <2>. QED
    BY <1>1, <1>9, <2>1, TapeTwice
<1>10. ASSUME NEW w \in Int, ~SetBack(l, o, at(w), w), NEW k, Within(n, t, o, k, w)
       PROVE  o[k] = o[at(w)]
  <2>1. LastAt(n, l, w, at(w)) /\ Tape(n, t, l, o)
    BY <1>1, <1>6
  <2>. QED
    BY <1>10, <2>1, TapeOnce
<1>11. ASSUME NEW k, NEW w, Within(n, t, o, k, w) PROVE k \in 0..n /\ o[k] \in Int
  BY <1>2, <1>11 DEF Within
<1>12. ASSUME NEW u \in Int, NEW k, LastAt(n, t, u, k)
       PROVE  k \in 0..n /\ TrueOffset(z, u) = o[k] /\ u + o[k] \in Int /\ Within(n, t, o, k, u + o[k])
  <2>1. k \in 0..n /\ TrueOffset(z, u) = o[k]
    BY <1>4, <1>12 DEF LastAt
  <2>2. o[k] \in Int
    BY <1>2, <2>1
  <2>3. k > 0 => t[k] <= u /\ t[k] \in Int
    BY <1>1, <1>12 DEF LastAt
  <2>4. k < n => u < t[k + 1] /\ t[k + 1] \in Int
    <3> SUFFICES ASSUME k < n PROVE u < t[k + 1] /\ t[k + 1] \in Int
      OBVIOUS
    <3>1. k + 1 \in 1..n /\ k < k + 1
      BY <1>1, <2>1
    <3>. QED
      BY <1>1, <1>12, <3>1 DEF LastAt
  <2>. QED
    BY <2>1, <2>2, <2>3, <2>4 DEF Within
<1>13. ASSUME NEW u \in Int, NEW k, LastAt(n, t, u, k), k = FindLast(t, u)
       PROVE  FromUtc(z, u) = Enfold(u + o[k], Bit(SetBack(l, o, k, u + o[k])))
  <2>1. k \in 0..n /\ u + o[k] \in Int
    BY <1>12, <1>13
  <2>2. FileFromUtc(z, u) = Enfold(u + OffsetAt(z, k), Bit(FileAmbiguous(z, u + OffsetAt(z, k), k)))
    BY <1>13 DEF FileFromUtc, t
  <2>3. OffsetAt(z, k) = o[k]
    BY <1>2, <2>1
  <2>. QED
    BY <1>5, <2>1, <2>2, <2>3 DEF FromUtc, Bit
<1>14. RightOffsets(z)
  <2>1. ASSUME NEW u \in Int PROVE TrueOffset(z, u) \in Offset
    <3>1. LastAt(n, t, u, FindLast(t, u))
      BY <1>1, FoundLast
    <3>. QED
      BY <1>2, <1>12, <3>1
  <2>2. ASSUME NEW w \in Int, NEW f \in {0, 1} PROVE UtcOffset(z, w, f) \in Offset
    <3>1. at(w) \in 0..n
      BY <1>6
    <3>2. SetBack(l, o, at(w), w) => at(w) - 1 \in 0..n
      BY <1>1, <1>9
    <3>. QED
      BY <1>2, <1>8, <3>1, <3>2
  <2>. QED
    BY <2>1, <2>2 DEF RightOffsets
<1>15. ShowsTime(z)
  <2> SUFFICES ASSUME NEW u \in Int
               PROVE  \E f \in {0, 1} : /\ FromUtc(z, u) = Enfold(u + TrueOffset(z, u), f)
                                        /\ UtcOffset(z, u + TrueOffset(z, u), f) = TrueOffset(z, u)
    BY DEF ShowsTime
  <2> DEFINE k == FindLast(t, u)   w == u + o[k]   f == Bit(SetBack(l, o, k, w))
  <2>1. LastAt(n, t, u, k)
    BY <1>1, FoundLast
  <2>2. k \in 0..n /\ TrueOffset(z, u) = o[k] /\ w \in Int /\ Within(n, t, o, k, w)
    BY <1>12, <2>1
  <2>3. FromUtc(z, u) = Enfold(w, f)
    BY <1>13, <2>1
  <2>4. f \in {0, 1}
    BY DEF Bit
  <2>5. UtcOffset(z, w, f) = o[k]
    <3>1. CASE SetBack(l, o, at(w), w)
      <4>1. k = at(w) \/ k = at(w) - 1
        BY <1>9, <2>2, <3>1
      <4>2. CASE k = at(w)
        <5>1. f = 1
          BY <3>1, <4>2 DEF Bit
        <5>. QED
          BY <1>8, <2>2, <4>2, <5>1
      <4>3. CASE k = at(w) - 1
        <5>1. f = 0
          BY <1>9, <2>2, <3>1, <4>3 DEF Bit
        <5>. QED
          BY <1>8, <2>2, <3>1, <4>3, <5>1
      <4>. QED
        BY <4>1, <4>2, <4>3
    <3>2. CASE ~SetBack(l, o, at(w), w)
      <4>1. o[k] = o[at(w)]
        BY <1>10, <2>2, <3>2
      <4>. QED
        BY <1>8, <2>2, <2>4, <3>2, <4>1
    <3>. QED
      BY <3>1, <3>2
  <2>. QED
    BY <2>2, <2>3, <2>4, <2>5
<1>16. KnowsTwice(z)
  <2> SUFFICES ASSUME NEW w \in Int
               PROVE  IsAmbiguous(z, w) <=> \E x, u \in Int : x # u /\ IsSource(z, w, x) /\ IsSource(z, w, u)
    BY DEF KnowsTwice
  <2>1. ASSUME SetBack(l, o, at(w), w)
        PROVE  \E x, u \in Int : x # u /\ IsSource(z, w, x) /\ IsSource(z, w, u)
    <3> DEFINE j == at(w)
    <3>1. Within(n, t, o, j, w) /\ Within(n, t, o, j - 1, w) /\ o[j] < o[j - 1]
      BY <1>9, <2>1
    <3>2. o[j] \in Int /\ o[j - 1] \in Int
      BY <1>11, <3>1
    <3> HIDE DEF j
    <3>3. w - o[j] \in Int /\ w - o[j - 1] \in Int /\ w - o[j] # w - o[j - 1]
      BY <3>1, <3>2
    <3>4. IsSource(z, w, w - o[j]) /\ IsSource(z, w, w - o[j - 1])
      BY <1>3, <3>1, <3>3
    <3>. QED
      BY <3>3, <3>4
  <2>2. ASSUME ~SetBack(l, o, at(w), w), NEW x \in Int, NEW u \in Int, IsSource(z, w, x), IsSource(z, w, u)
        PROVE  x = u
    <3>1. \A y \in Int : IsSource(z, w, y) => y = w - o[at(w)]
      BY <1>3, <1>10, <2>2
    <3>. QED
      BY <2>2, <3>1
  <2>. QED
    BY <1>7, <2>1, <2>2
<1>17. FindsSource(z)
  <2> SUFFICES ASSUME NEW w \in Int, NEW f \in {0, 1}, NEW u \in Int, IsSource(z, w, u)
               PROVE  IsSource(z, w, w - UtcOffset(z, w, f))
    BY DEF FindsSource
  <2>1. PICK k : Within(n, t, o, k, w) /\ u = w - o[k]
    BY <1>3
  <2>2. CASE SetBack(l, o, at(w), w)
    <3>1. PICK i : Within(n, t, o, i, w) /\ UtcOffset(z, w, f) = o[i]
      BY <1>8, <1>9, <2>2
    <3>2. w - o[i] \in Int
      BY <1>11, <3>1
    <3>. QED
      BY <1>3, <3>1, <3>2
  <2>3. CASE ~SetBack(l, o, at(w), w)
    <3>1. o[k] = o[at(w)]
      BY <1>10, <2>1, <2>3
    <3>. QED
      BY <1>8, <2>1, <2>3, <3>1
  <2>. QED
    BY <2>2, <2>3
<1>18. Resolves(z)
  <2> SUFFICES ASSUME NEW w \in ClockWalls, \A u \in Int : ~IsSource(z, w, u)
               PROVE  \E u \in Int : IsSource(z, w + UtcOffset(z, w + DayLength, 0)
                                               - UtcOffset(z, w - DayLength, 0), u)
    BY DEF Resolves
  <2>1. w \in Int /\ w + DayLength \in Int /\ w - DayLength \in Int
    BY ClockAssumption DEF ClockWalls
  <2>2. ASSUME NEW k PROVE ~Within(n, t, o, k, w)
    <3> SUFFICES ASSUME Within(n, t, o, k, w) PROVE FALSE
      OBVIOUS
    <3>1. w - o[k] \in Int
      BY <1>11, <2>1
    <3>. QED
      BY <1>3, <2>1, <3>1
  <2>3. PICK k \in 1..n : o[k - 1] < o[k] /\ t[k] + o[k - 1] <= w /\ w < t[k] + o[k]
    BY <1>1, <1>6, <2>1, <2>2, TapeGap
  <2>4. /\ \A j : LastAt(n, l, w + DayLength, j) => j = k /\ ~SetBack(l, o, j, w + DayLength)
        /\ \A j : LastAt(n, l, w - DayLength, j) => j = k - 1 /\ ~SetBack(l, o, j, w - DayLength)
        /\ \A j : LastAt(n, t, w - o[k - 1], j) => j = k
    <3>1. Tape(n, t, l, o) /\ w \in Int
      BY <1>1, <2>1
    <3>2. o[k - 1] < o[k] /\ t[k] + o[k - 1] <= w /\ w < t[k] + o[k]
      BY <2>3
    <3>3. \A j : LastAt(n, l, w + DayLength, j) => j = k /\ ~SetBack(l, o, j, w + DayLength)
      BY <3>1, <3>2, TapeAround
    <3>4. \A j : LastAt(n, l, w - DayLength, j) => j = k - 1 /\ ~SetBack(l, o, j, w - DayLength)
      BY <3>1, <3>2, TapeAround
    <3>5. ASSUME NEW j, LastAt(n, t, w - o[k - 1], j) PROVE j = k
      <4>1. n \in Nat /\ o[k] \in Int /\ o[k - 1] \in Int /\ o[k] - o[k - 1] <= DayLength
        BY <3>1, TapeTypes
      <4>2. \A i \in 1..n : t[i] \in Int
        BY <3>1, TapeTypes
      <4>3. \A i, m \in 1..n : i < m => t[i] + DayLength <= t[m]
        BY <3>1, TapeOrder
      <4>. QED
        BY <3>1, <3>2, <3>5, <4>1, <4>2, <4>3, TapeBehind
    <3>. QED
      BY <3>3, <3>4, <3>5
  <2>5. UtcOffset(z, w + DayLength, 0) = o[k]
    <3>1. LastAt(n, l, w + DayLength, at(w + DayLength))
      BY <1>6, <2>1
    <3>2. at(w + DayLength) = k /\ ~SetBack(l, o, at(w + DayLength), w + DayLength)
      BY <2>4, <3>1
    <3>. QED
      BY <1>8, <2>1, <3>2
  <2>6. UtcOffset(z, w - DayLength, 0) = o[k - 1]
    <3>1. LastAt(n, l, w - DayLength, at(w - DayLength))
      BY <1>6, <2>1
    <3>2. at(w - DayLength) = k - 1 /\ ~SetBack(l, o, at(w - DayLength), w - DayLength)
      BY <2>4, <3>1
    <3>. QED
      BY <1>8, <2>1, <3>2
  <2>7. o[k] \in Int /\ o[k - 1] \in Int
    BY <1>1, TapeTypes
  <2>8. w - o[k - 1] \in Int
    BY <2>1, <2>7
  <2>9. TrueOffset(z, w - o[k - 1]) = o[k]
    <3>1. LastAt(n, t, w - o[k - 1], FindLast(t, w - o[k - 1]))
      BY <1>1, <2>8, FoundLast
    <3>. QED
      BY <1>4, <2>4, <2>8, <3>1
  <2>10. (w - o[k - 1]) + o[k] = w + o[k] - o[k - 1]
    BY <2>1, <2>7
  <2>. QED
    BY <2>5, <2>6, <2>8, <2>9, <2>10 DEF IsSource
<1>. QED
  BY <1>14, <1>15, <1>16, <1>17, <1>18 DEF Right

LEMMA FileIsRight ==
  ASSUME NEW z, z.kind = "file", HasData(z), Sound(z)
  PROVE  Right(z)
<1>1. FileData(z) /\ SoundFile(z)
  BY DEF HasData, Sound
<1>2. CASE z.trans # <<>>
  BY <1>1, <1>2, TransitionsAreRight
<1>3. CASE z.trans = <<>>
  <2> DEFINE off == z.types[1].off
  <2>1. off \in Offset /\ off \in Int /\ off - off = 0
    <3>1. 1 \in DOMAIN z.types
      BY <1>1 DEF FileData
    <3>2. \A x \in Offset : x \in Int
      BY ClockAssumption DEF Offset
    <3>3. off \in Offset
      BY <1>1, <3>1, TypeIn
    <3>. QED
      BY <3>2, <3>3
  <2>2. Indices(z) = {} /\ DOMAIN z.list = {}
    <3>1. Indices(z) = {}
      BY <1>3 DEF Indices
    <3>. QED
      BY <1>1, <3>1 DEF FileData
  <2>3. \A i : OffsetAt(z, i) = off
    BY <1>3 DEF OffsetAt, GetTtinfo, TtinfoStd
  <2>4. \A x : FindLast(z.list, x) = 0 /\ FindLast(TransUtc(z), x) = 0
    BY <2>2 DEF FindLast, TransUtc
  <2>5. \A w \in Int : ~FileAmbiguous(z, w, 0)
    BY DEF FileAmbiguous
  <2>6. \A w \in Int : ~IsAmbiguous(z, w)
    BY <2>4, <2>5 DEF IsAmbiguous
  <2>7. \A w \in Int, f \in {0, 1} : UtcOffset(z, w, f) = off
    BY <2>3 DEF UtcOffset
  <2>8. ASSUME NEW u \in Int PROVE TrueOffset(z, u) = off
    <3>1. Changes(z, u) = {}
      BY <2>2 DEF Changes
    <3>. QED
      BY <1>3, <3>1 DEF TrueOffset, FirstOffset
  <2>9. ASSUME NEW u \in Int PROVE FromUtc(z, u) = Enfold(u + off, 0)
    <3>1. ~FileAmbiguous(z, u + off, 0)
      BY <2>1, <2>5
    <3>. QED
      BY <2>3, <2>4, <3>1 DEF FromUtc, FileFromUtc, Bit
  <2> HIDE DEF off
  <2>10. \A w \in Int, f \in {0, 1} : ~Twice({}, 0, w) /\ ~On({}, 0, w, f)
    BY DEF Twice, On
  <2>11. Switches(z, off, off, {})
    BY <2>1, <2>6, <2>7, <2>8, <2>9, <2>10 DEF Switches
  <2>12. Calm({}, 0)
    BY DEF Calm
  <2>. QED
    BY <2>1, <2>11, <2>12, SwitchIsRight
<1>. QED
  BY <1>2, <1>3

-----------------------------------------------------------------------------
(* The clock.                                                                 *)

LEMMA DataIsRight ==
  ASSUME NEW z, HasData(z), Sound(z)
  PROVE  Right(z)
<1>1. z.kind \in {"fixed", "file", "range", "local", "ical"}
  BY DEF HasData
<1>. QED
  BY <1>1, FixedIsRight, FileIsRight, RangeIsRight, LocalIsRight, IcalIsRight

ClockInv ==
  /\ zone \in {Loaded(z) : z \in ClockZones}
  /\ utc \in 0 .. ClockEnd
  /\ \A e \in entry : e.wall \in ClockWalls /\ e.fold \in {0, 1}

(* The clock keeps its zone and stays within its time, and what is entered is near it. *)
LEMMA ClockStays == ClockSpec => []ClockInv
<1>1. ClockInit => ClockInv
  BY ClockAssumption DEF ClockInit, ClockInv
<1>2. ClockInv /\ [ClockNext]_clockVars => ClockInv'
  <2> SUFFICES ASSUME ClockInv, [ClockNext]_clockVars PROVE ClockInv'
    OBVIOUS
  <2>1. CASE Tick
    <3>1. utc' \in 0 .. ClockEnd
      BY <2>1, ClockAssumption DEF ClockInv, Tick
    <3>. QED
      BY <2>1, <3>1 DEF ClockInv, Tick
  <2>2. ASSUME NEW d \in -MaxOffset .. MaxOffset, NEW f \in {0, 1}, Enter(utc + d, f) PROVE ClockInv'
    <3>1. utc + d \in ClockWalls
      BY ClockAssumption DEF ClockInv, ClockWalls
    <3>2. \A e \in entry' : e.wall = utc + d /\ e.fold = f
      BY <2>2 DEF Enter, Enfold
    <3>. QED
      BY <2>2, <3>1, <3>2 DEF ClockInv, Enter, ClockWalls
  <2>3. CASE UNCHANGED clockVars
    BY <2>3 DEF ClockInv, clockVars
  <2>. QED
    BY <2>1, <2>2, <2>3 DEF ClockNext
<1>. QED
  BY <1>1, <1>2, PTL DEF ClockSpec

LEMMA ZoneIsRight ==
  ASSUME ClockInv, Sound(zone)
  PROVE  Right(zone)
<1>1. HasData(zone)
  BY ZoneAssumption DEF ClockInv
<1>. QED
  BY <1>1, DataIsRight

(* fromutc shows the time of the zone's data, and utcoffset leads back from what it
   shows, with the fold: also in the hour that comes twice. *)
THEOREM ClockShowsTheTime == ClockSpec => []ClockIsRight
<1>1. ClockInv => ClockIsRight
  <2> SUFFICES ASSUME ClockInv, Sound(zone) PROVE RightNow
    BY DEF ClockIsRight
  <2>1. Right(zone) /\ utc \in Int
    BY ZoneIsRight DEF ClockInv
  <2>. QED
    BY <2>1, ShownIsRight DEF RightNow, Shown
<1>. QED
  BY <1>1, ClockStays, PTL

(* is_ambiguous and datetime_exists know of a time on the wall how often it comes, and
   resolve_imaginary moves one that never comes to one that does. *)
THEOREM EntriesAreUnderstood == ClockSpec => []EntriesAreRight
<1>1. ClockInv => EntriesAreRight
  <2> SUFFICES ASSUME ClockInv, Sound(zone), NEW e \in entry
               PROVE  /\ IsAmbiguous(zone, e.wall) <=> Cardinality(Sources(zone, e.wall)) > 1
                      /\ Exists(zone, e.wall, e.fold) <=> Sources(zone, e.wall) # {}
                      /\ Sources(zone, ResolveImaginary(zone, e.wall, e.fold).wall) # {}
    BY DEF EntriesAreRight
  <2>1. Right(zone)
    BY ZoneIsRight
  <2>2. e.wall \in ClockWalls /\ e.fold \in {0, 1}
    BY DEF ClockInv
  <2>. QED
    BY <2>1, <2>2, EntryIsRight
<1>. QED
  BY <1>1, ClockStays, PTL
=============================================================================
