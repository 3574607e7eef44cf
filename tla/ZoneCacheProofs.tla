--------------------------- MODULE ZoneCacheProofs ---------------------------
(***************************************************************************)
(* For any number of threads, names and zones, and caches of any size: the *)
(* lock of gettz, the caches and the calls under way fit together, and     *)
(* there is one zone for a name, but for the named causes.                 *)
(***************************************************************************)
EXTENDS ZoneCache, TLAPS, FiniteSetTheorems, SequenceTheorems

(* Every zone is of the key it is found or kept for; a weak dictionary has at most
   one for a key. *)
KeyInv ==
  /\ \A c \in Caches, k \in Names : \A y, z \in weak[c][k] : y = z /\ z.key = k
  /\ \A t \in Threads : \A k \in th[t].key, z \in th[t].zone : z.key = k
  /\ \A r \in kept : r.zone.key = r.key

(* A call has one key, and from its look-up on one zone; only gettz stores. *)
CallInv ==
  \A t \in Threads :
    /\ \A y, z \in th[t].zone : y = z
    /\ th[t].pc # "idle" => th[t].for \in Caches /\ \E k \in Rules : th[t].key = {k}
    /\ th[t].pc \in {"read", "write", "strong", "store"} => \E z \in th[t].zone : th[t].zone = {z}
    /\ th[t].pc = "idle" => th[t] = Idle
    /\ th[t].pc = "store" => th[t].for = "gettz"

(* Two threads that are making a zone of a key have overlapped; who makes one alone
   finds none, and who has one from the weak dictionary or has put it there finds it
   there.  While gettz calls tzstr its own dictionary has no such zone. *)
AloneInv ==
  \A t \in Threads : \A k \in th[t].key :
    /\ th[t].pc \in {"read", "write"} /\ Together(t, k) => k \in overlapped
    /\ th[t].pc \in {"read", "write"} => k \in overlapped \/ weak["tzstr"][k] = {}
    /\ th[t].pc = "strong" => k \in overlapped \/ weak["tzstr"][k] = th[t].zone
    /\ th[t].for = "gettz" => weak["gettz"][k] = {}

(* What a caller has is found, but for the named causes. *)
FoundInv ==
  \A r \in kept :
    \/ weak[r.cache][r.key] = {r.zone}
    \/ r.cache = "gettz" /\ (r.key \in Locals \/ r.zone \in cleared)
    \/ r.cache = "tzstr" /\ r.key \in overlapped

Typed == TypeOK /\ IsFiniteSet(kept)
IInv  == Typed /\ KeyInv /\ CallInv /\ AloneInv /\ FoundInv /\ StrongIsFound

-----------------------------------------------------------------------------
(* Operators of the model.                                                    *)

LEMMA Cases == Caches = {"gettz", "tzstr"} /\ Rules \subseteq Names
BY DEF Caches, Names

LEMMA RangeIs == ASSUME NEW S, NEW s \in Seq(S)
                 PROVE  /\ Range(s) \subseteq S
                        /\ \A x : x \in Range(s) <=> \E i \in 1 .. Len(s) : x = s[i]
<1>1. Range(s) = {s[i] : i \in 1 .. Len(s)}
  BY RangeEquality
<1>. QED
  BY <1>1, RangeOfSeq

LEMMA PartOfRange ==
  ASSUME NEW S, NEW s \in Seq(S), NEW m \in 1 .. Len(s) + 1, NEW n \in 0 .. Len(s)
  PROVE  /\ SubSeq(s, m, n) \in Seq(S) /\ Range(SubSeq(s, m, n)) \subseteq Range(s)
         /\ Len(SubSeq(s, m, n)) = IF m <= n THEN n - m + 1 ELSE 0
<1> DEFINE q == SubSeq(s, m, n)
<1>0. Len(s) \in Nat
  BY LenProperties
<1>1. \A i \in m .. n : s[i] \in S
  BY <1>0, ElementOfSeq
<1>2. /\ q \in Seq(S) /\ Len(q) = IF m <= n THEN n - m + 1 ELSE 0
      /\ \A i \in 1 .. n - m + 1 : q[i] = s[m + i - 1]
  BY <1>0, <1>1, SubSeqProperties
<1> HIDE DEF q
<1>3. \A i \in 1 .. Len(q) : \E j \in 1 .. Len(s) : q[i] = s[j]
  <2> SUFFICES ASSUME NEW i \in 1 .. Len(q) PROVE \E j \in 1 .. Len(s) : q[i] = s[j]
    OBVIOUS
  <2>1. m + i - 1 \in 1 .. Len(s) /\ i \in 1 .. n - m + 1
    BY <1>0, <1>2
  <2>. QED
    BY <2>1, <1>2
<1>4. Range(q) \subseteq Range(s)
  BY <1>2, <1>3, RangeIs
<1>. QED
  BY <1>2, <1>4 DEF q

LEMMA AppendRange ==
  ASSUME NEW S, NEW s \in Seq(S), NEW e \in S
  PROVE  /\ Append(s, e) \in Seq(S) /\ Len(Append(s, e)) = Len(s) + 1
         /\ Range(Append(s, e)) \subseteq Range(s) \cup {e}
<1> DEFINE a == Append(s, e)
<1>1. /\ a \in Seq(S) /\ Len(a) = Len(s) + 1 /\ Len(s) \in Nat
      /\ \A i \in 1 .. Len(s) : a[i] = s[i]
      /\ a[Len(s) + 1] = e
  BY AppendProperties, LenProperties
<1> HIDE DEF a
<1>2. \A i \in 1 .. Len(a) : a[i] \in Range(s) \cup {e}
  BY <1>1, RangeIs
<1>3. Range(a) \subseteq Range(s) \cup {e}
  BY <1>1, <1>2, RangeIs
<1>. QED
  BY <1>1, <1>3 DEF a

LEMMA RemoveRange ==
  ASSUME NEW S, NEW s \in Seq(S), NEW i \in 1 .. Len(s)
  PROVE  /\ RemoveAt(s, i) \in Seq(S) /\ Len(RemoveAt(s, i)) = Len(s) - 1
         /\ Range(RemoveAt(s, i)) \subseteq Range(s)
<1> DEFINE a == SubSeq(s, 1, i - 1)   b == SubSeq(s, i + 1, Len(s))
<1>0. Len(s) \in Nat
  BY LenProperties
<1>1. /\ a \in Seq(S) /\ Range(a) \subseteq Range(s)
      /\ Len(a) = IF 1 <= i - 1 THEN i - 1 - 1 + 1 ELSE 0
  <2>1. 1 \in 1 .. Len(s) + 1 /\ i - 1 \in 0 .. Len(s)
    BY <1>0
  <2>. QED
    BY <2>1, PartOfRange
<1>2. /\ b \in Seq(S) /\ Range(b) \subseteq Range(s)
      /\ Len(b) = IF i + 1 <= Len(s) THEN Len(s) - (i + 1) + 1 ELSE 0
  <2>1. i + 1 \in 1 .. Len(s) + 1 /\ Len(s) \in 0 .. Len(s)
    BY <1>0
  <2>. QED
    BY <2>1, PartOfRange
<1>3. RemoveAt(s, i) = a \o b
  BY DEF RemoveAt
<1> HIDE DEF a, b
<1>4. /\ a \o b \in Seq(S) /\ Len(a \o b) = Len(a) + Len(b)
      /\ Range(a \o b) = Range(a) \cup Range(b)
  BY <1>1, <1>2, ConcatProperties, RangeConcatenation
<1>5. Len(a) = i - 1 /\ Len(b) = Len(s) - i
  BY <1>0, <1>1, <1>2
<1>6. Len(a) + Len(b) = Len(s) - 1
  BY <1>0, <1>5
<1>. QED
  BY <1>1, <1>2, <1>3, <1>4, <1>6

LEMMA Bounds == ASSUME TypeOK, NEW c \in Caches PROVE Bound(c) \in Nat
BY CacheAssumption DEF TypeOK, Bound

(* A zone that is touched is kept, with others that were, as many as the cache may. *)
LEMMA TouchedIs ==
  ASSUME TypeOK, NEW c \in Caches, NEW k \in Names, NEW z \in Zones
  PROVE  /\ Touched(c, k, z) \in Seq(Zones) /\ Len(Touched(c, k, z)) <= Bound(c)
         /\ Range(Touched(c, k, z)) \subseteq Range(strong[c]) \cup {z}
<1> DEFINE s == strong[c]
           at == {i \in DOMAIN s : s[i].key = k}
           i == CHOOSE j \in at : TRUE
           all == IF at = {} THEN Append(s, z) ELSE Append(RemoveAt(s, i), s[i])
<1>0. s \in Seq(Zones) /\ Len(s) <= Bound(c) /\ Len(s) \in Nat /\ DOMAIN s = 1 .. Len(s)
  BY LenProperties DEF TypeOK
<1>1. /\ all \in Seq(Zones) /\ Len(all) <= Len(s) + 1
      /\ Range(all) \subseteq Range(s) \cup {z}
  <2>1. CASE at = {}
    BY <1>0, <2>1, AppendRange
  <2>2. CASE at # {}
    <3>1. i \in 1 .. Len(s)
      BY <1>0, <2>2
    <3> HIDE DEF i
    <3>2. s[i] \in Zones /\ s[i] \in Range(s)
      BY <1>0, <3>1, RangeIs, ElementOfSeq
    <3>3. /\ RemoveAt(s, i) \in Seq(Zones) /\ Len(RemoveAt(s, i)) = Len(s) - 1
          /\ Range(RemoveAt(s, i)) \subseteq Range(s)
      BY <1>0, <3>1, RemoveRange
    <3> DEFINE r == RemoveAt(s, i)
    <3> HIDE DEF r, s
    <3>4. /\ Append(r, s[i]) \in Seq(Zones) /\ Len(Append(r, s[i])) = Len(r) + 1
          /\ Range(Append(r, s[i])) \subseteq Range(r) \cup {s[i]}
      BY <3>2, <3>3, AppendRange DEF r
    <3>. QED
      BY <1>0, <2>2, <3>2, <3>3, <3>4 DEF r
  <2>. QED
    BY <2>1, <2>2
<1>2. Touched(c, k, z) = IF Len(all) > Bound(c) THEN Tail(all) ELSE all
  BY DEF Touched
<1> HIDE DEF all, s
<1>3. Len(all) \in Nat /\ Bound(c) \in Nat
  BY <1>1, LenProperties, Bounds
<1>4. CASE Len(all) > Bound(c)
  <2>1. all # <<>> /\ 2 \in 1 .. Len(all) + 1 /\ Len(all) \in 0 .. Len(all)
    BY <1>3, <1>4
  <2>2. Tail(all) = SubSeq(all, 2, Len(all))
    BY <1>1, <2>1, TailIsSubSeq
  <2> DEFINE tail == SubSeq(all, 2, Len(all))
  <2>3. /\ tail \in Seq(Zones) /\ Range(tail) \subseteq Range(all)
        /\ Len(tail) = IF 2 <= Len(all) THEN Len(all) - 2 + 1 ELSE 0
    BY <1>1, <2>1, PartOfRange
  <2> HIDE DEF tail
  <2>4. Touched(c, k, z) = tail
    BY <1>2, <1>4, <2>2 DEF tail
  <2>5. Len(tail) <= Bound(c)
    BY <1>0, <1>1, <1>3, <2>3
  <2>. QED
    BY <1>1, <2>3, <2>4, <2>5 DEF s
<1>5. CASE ~(Len(all) > Bound(c))
  BY <1>0, <1>1, <1>2, <1>3, <1>5 DEF s
<1>. QED
  BY <1>4, <1>5

(* A number that nothing alive has is free. *)
LEMMA ImageIsFinite ==
  ASSUME NEW S, IsFiniteSet(S), NEW f, DOMAIN f = S
  PROVE  IsFiniteSet({f[x] : x \in S})
<1> DEFINE T == {f[x] : x \in S}
           g == [x \in S |-> f[x]]
<1>1. g \in Surjection(S, T)
  BY DEF Surjection
<1>. QED
  BY <1>1, FS_Surjection

LEMMA AliveIsFinite ==
  ASSUME Typed, CallInv
  PROVE  IsFiniteSet(Alive)
<1> DEFINE R(c) == Range(strong[c])
           Z == UNION {th[t].zone : t \in Threads}
           K == {r.zone : r \in kept}
<1>1. ASSUME NEW c \in Caches PROVE IsFiniteSet(R(c))
  <2>1. strong[c] \in Seq(Zones) /\ Len(strong[c]) \in Nat /\ DOMAIN strong[c] = 1 .. Len(strong[c])
    BY LenProperties DEF Typed, TypeOK
  <2>2. IsFiniteSet(1 .. Len(strong[c]))
    BY <2>1, FS_Interval
  <2>3. R(c) = {strong[c][i] : i \in 1 .. Len(strong[c])}
    BY <2>1, RangeEquality
  <2>. QED
    BY <2>1, <2>2, <2>3, ImageIsFinite
<1>2. IsFiniteSet(K)
  <2> DEFINE f == [r \in kept |-> r.zone]
  <2>1. K = {f[r] : r \in kept} /\ DOMAIN f = kept
    OBVIOUS
  <2> HIDE DEF f, K
  <2>. QED
    BY <2>1, ImageIsFinite DEF Typed
<1>3. IsFiniteSet(Z)
  <2> DEFINE T == {t \in Threads : th[t].zone # {}}
             f == [t \in T |-> CHOOSE z \in th[t].zone : TRUE]
  <2>1. IsFiniteSet(T)
    BY CacheAssumption, FS_Subset
  <2>2. \A t \in T : th[t].zone = {f[t]}
    BY DEF CallInv
  <2>3. Z = {f[t] : t \in T}
    <3>1. ASSUME NEW z \in Z PROVE z \in {f[t] : t \in T}
      <4>1. PICK t \in Threads : z \in th[t].zone
        OBVIOUS
      <4>2. t \in T /\ z = f[t]
        BY <2>2, <4>1
      <4>. QED
        BY <4>2
    <3>2. ASSUME NEW t \in T PROVE f[t] \in Z
      <4>1. f[t] \in th[t].zone
        BY <2>2
      <4>. QED
        BY <4>1
    <3>. QED
      BY <3>1, <3>2
  <2>4. DOMAIN f = T
    OBVIOUS
  <2> HIDE DEF f, T, Z
  <2>. QED
    BY <2>1, <2>3, <2>4, ImageIsFinite
<1>4. Alive = ((R("gettz") \cup R("tzstr")) \cup Z) \cup K
  BY Cases DEF Alive
<1> HIDE DEF R, Z, K
<1>5. IsFiniteSet(R("gettz") \cup R("tzstr"))
  BY <1>1, Cases, FS_Union
<1>6. IsFiniteSet((R("gettz") \cup R("tzstr")) \cup Z)
  BY <1>3, <1>5, FS_Union
<1>. QED
  BY <1>2, <1>4, <1>6, FS_Union

LEMMA NewIs ==
  ASSUME Typed, CallInv, NEW k \in Names
  PROVE  New(k) \in Zones /\ New(k).key = k
<1> DEFINE same == {y \in Alive : y.key = k}
           used == {z.n : z \in same}
           f == [z \in same |-> z.n]
<1>1. IsFiniteSet(same)
  BY AliveIsFinite, FS_Subset
<1>2. IsFiniteSet(used)
  <2>1. used = {f[z] : z \in same} /\ DOMAIN f = same
    OBVIOUS
  <2> HIDE DEF f, used, same
  <2>. QED
    BY <1>1, <2>1, ImageIsFinite
<1>3. New(k) = [key |-> k, n |-> CHOOSE n \in 0 .. Cardinality(used) : n \notin used]
  BY DEF New
<1> HIDE DEF used
<1>4. Cardinality(used) \in Nat
  BY <1>2, FS_CardinalityType
<1>5. \E n \in 0 .. Cardinality(used) : n \notin used
  <2> SUFFICES ASSUME 0 .. Cardinality(used) \subseteq used PROVE FALSE
    OBVIOUS
  <2>1. Cardinality(0 .. Cardinality(used)) <= Cardinality(used)
    BY <1>2, FS_Subset
  <2>2. Cardinality(0 .. Cardinality(used)) = Cardinality(used) + 1
    BY <1>4, FS_Interval
  <2>. QED
    BY <1>4, <2>1, <2>2
<1>6. (CHOOSE n \in 0 .. Cardinality(used) : n \notin used) \in Nat
  BY <1>4, <1>5
<1>. QED
  BY <1>3, <1>6 DEF Zones

-----------------------------------------------------------------------------
(* The parts of a step.                                                       *)

LEMMA Keepers ==
  /\ \A c \in Caches : Range(strong[c]) \subseteq Alive /\ Range(strong'[c]) \subseteq Alive'
  /\ \A t \in Threads : th[t].zone \subseteq Alive /\ th'[t].zone \subseteq Alive'
  /\ \A r \in kept : r.zone \in Alive
  /\ \A r \in kept' : r.zone \in Alive'
BY DEF Alive

LEMMA CollectedIs ==
  ASSUME NEW refs \in [Caches -> [Names -> SUBSET Zones]], Collected(refs)
  PROVE  /\ weak' \in [Caches -> [Names -> SUBSET Zones]]
         /\ \A c \in Caches, k \in Names : weak'[c][k] = refs[c][k] \cap Alive'
BY DEF Collected

(* What is kept of the weak references still refers to what is alive. *)
LEMMA StillFound ==
  ASSUME NEW c \in Caches, NEW k \in Names, NEW z \in Alive', NEW refs,
         weak'[c][k] = refs[c][k] \cap Alive', refs[c][k] = {z}
  PROVE  weak'[c][k] = {z}
OBVIOUS

(* A call of gettz ends with the zone that was found, or where none was. *)
LEMMA GettzEnds ==
  ASSUME IInv, NEW t \in Threads, NEW k \in Names, NEW z \in Zones, NEW refs,
         z.key = k, weak["gettz"][k] \in {{}, {z}}, lock \subseteq {t},
         refs = [weak EXCEPT !["gettz"][k] = {z}],
         GettzReturns(t, k, z, refs), UNCHANGED <<use, size, cleared, overlapped>>
  PROVE  IInv'
<1> USE DEF GettzReturns, Keeps, Result
<1> USE Cases
<1>1. /\ refs \in [Caches -> [Names -> SUBSET Zones]]
      /\ refs["gettz"][k] = {z}
      /\ \A j \in Names : j # k => refs["gettz"][j] = weak["gettz"][j]
      /\ \A j \in Names : refs["tzstr"][j] = weak["tzstr"][j]
  BY DEF IInv, Typed, TypeOK
<1>2. /\ weak' \in [Caches -> [Names -> SUBSET Zones]]
      /\ \A c \in Caches, j \in Names : weak'[c][j] = refs[c][j] \cap Alive'
  BY <1>1, CollectedIs
<1>3. /\ Touched("gettz", k, z) \in Seq(Zones) /\ Len(Touched("gettz", k, z)) <= Bound("gettz")
      /\ Range(Touched("gettz", k, z)) \subseteq Range(strong["gettz"]) \cup {z}
  BY TouchedIs DEF IInv, Typed
<1>4. /\ strong' = [strong EXCEPT !["gettz"] = Touched("gettz", k, z)]
      /\ strong' \in [Caches -> Seq(Zones)]
      /\ Range(strong'["gettz"]) \subseteq Range(strong["gettz"]) \cup {z}
      /\ strong'["tzstr"] = strong["tzstr"]
  BY <1>3 DEF IInv, Typed, TypeOK
<1>5. Idle \in States /\ Idle.for = "none"
  BY DEF Idle, States
<1>6. th' = [th EXCEPT ![t] = Idle] /\ th' \in [Threads -> States]
  BY <1>5 DEF IInv, Typed, TypeOK
<1>7. \A s \in Threads : th'[s].for # "gettz"
  BY <1>5, <1>6 DEF IInv, Typed, TypeOK
<1>8. TypeOK'
  <2>1. \A c \in Caches : Len(strong'[c]) <= Bound(c)'
    BY <1>3, <1>4 DEF IInv, Typed, TypeOK, Bound
  <2>2. kept' \subseteq [cache : Caches, key : Names, zone : Zones]
    BY DEF IInv, Typed, TypeOK
  <2>3. lock' = {s \in Threads : th'[s].for = "gettz"} /\ \A s, u \in lock' : s = u
    BY <1>7
  <2>. QED
    BY <1>2, <1>4, <1>6, <2>1, <2>2, <2>3 DEF IInv, Typed, TypeOK
<1>9. IsFiniteSet(kept')
  <2>1. IsFiniteSet(kept) /\ \E r : kept' = kept \cup {r}
    BY DEF IInv, Typed
  <2>. QED
    BY <2>1, FS_AddElement
<1>10. KeyInv'
  <2>1. \A c \in Caches, j \in Names : \A x, y \in weak'[c][j] : x = y /\ y.key = j
    BY <1>1, <1>2 DEF IInv, KeyInv
  <2>2. \A s \in Threads : \A j \in th'[s].key, x \in th'[s].zone : x.key = j
    BY <1>6 DEF IInv, KeyInv, Typed, TypeOK, Idle
  <2>3. \A r \in kept' : r.zone.key = r.key
    BY DEF IInv, KeyInv
  <2>. QED
    BY <2>1, <2>2, <2>3 DEF KeyInv
<1>11. CallInv'
  <2>1. th'[t] = Idle /\ \A s \in Threads : s # t => th'[s] = th[s]
    BY <1>6 DEF IInv, Typed, TypeOK
  <2>. QED
    BY <2>1 DEF IInv, CallInv, Idle
<1>12. AloneInv'
  <2> SUFFICES ASSUME NEW s \in Threads, s # t, NEW j \in th[s].key
               PROVE  /\ th[s].pc \in {"read", "write"} /\ Together(s, j)' => j \in overlapped
                      /\ th[s].pc \in {"read", "write"} => j \in overlapped \/ weak'["tzstr"][j] = {}
                      /\ th[s].pc = "strong" => j \in overlapped \/ weak'["tzstr"][j] = th[s].zone
    BY <1>6, <1>7 DEF AloneInv, IInv, Typed, TypeOK, Idle
  <2>1. j \in Names
    BY DEF IInv, Typed, TypeOK, States
  <2>2. Together(s, j)' => Together(s, j)
    BY <1>6 DEF Together, Idle, IInv, Typed, TypeOK
  <2>3. weak'["tzstr"][j] = weak["tzstr"][j] \cap Alive'
    BY <1>1, <1>2, <2>1
  <2>4. th[s].zone \subseteq Alive'
    BY <1>6, Keepers DEF IInv, Typed, TypeOK
  <2>. QED
    BY <2>2, <2>3, <2>4 DEF IInv, AloneInv
<1>13. FoundInv'
  <2> SUFFICES ASSUME NEW r \in kept' PROVE
        \/ weak'[r.cache][r.key] = {r.zone}
        \/ r.cache = "gettz" /\ (r.key \in Locals \/ r.zone \in cleared)
        \/ r.cache = "tzstr" /\ r.key \in overlapped
    BY DEF FoundInv
  <2>1. r \in [cache : Caches, key : Names, zone : Zones] /\ r.zone \in Alive'
    BY <1>8, Keepers DEF TypeOK
  <2>2. weak'[r.cache][r.key] = refs[r.cache][r.key] \cap Alive'
    BY <1>2, <2>1
  <2>3. r \notin kept => r.cache = "gettz" /\ r.key = k /\ r.zone = z
    OBVIOUS
  <2>. QED
    BY <1>1, <2>1, <2>2, <2>3 DEF IInv, FoundInv
<1>14. StrongIsFound'
  <2> SUFFICES ASSUME NEW c \in Caches, NEW y \in Range(strong'[c])
               PROVE  weak'[c][y.key] = {y} \/ (c = "tzstr" /\ y.key \in overlapped)
    BY DEF StrongIsFound
  <2>1. y \in Zones /\ y.key \in Names /\ y \in Alive'
    <3>1. strong'[c] \in Seq(Zones)
      BY <1>4
    <3>2. y \in Zones
      BY <3>1, RangeIs
    <3>. QED
      BY <3>2, Keepers DEF Zones
  <2>2. weak'[c][y.key] = refs[c][y.key] \cap Alive'
    BY <1>2, <2>1
  <2>3. y \in Range(strong[c]) \/ (c = "gettz" /\ y = z)
    BY <1>4
  <2>. QED
    BY <1>1, <2>1, <2>2, <2>3 DEF IInv, StrongIsFound
<1>. QED
  BY <1>8, <1>9, <1>10, <1>11, <1>12, <1>13, <1>14 DEF IInv, Typed

LEMMA GettzStep ==
  ASSUME IInv, NEW t \in Threads, NEW k \in Names, UNCHANGED use,
         GettzHit(t, k) \/ GettzFile(t, k) \/ GettzStore(t)
  PROVE  IInv'
<1>1. CASE GettzHit(t, k)
  <2>1. PICK z \in weak["gettz"][k] : GettzReturns(t, k, z, weak)
    BY <1>1 DEF GettzHit
  <2>2. z \in Zones /\ z.key = k /\ weak["gettz"][k] = {z}
    BY <2>1, Cases DEF IInv, Typed, TypeOK, KeyInv
  <2>3. weak = [weak EXCEPT !["gettz"][k] = {z}]
    BY <2>2, Cases DEF IInv, Typed, TypeOK
  <2>4. lock \subseteq {t} /\ UNCHANGED <<size, cleared, overlapped>>
    BY <1>1 DEF GettzHit
  <2>. QED
    BY <2>1, <2>2, <2>3, <2>4, GettzEnds
<1>2. CASE GettzFile(t, k)
  <2>1. /\ weak["gettz"][k] = {} /\ lock \subseteq {t} /\ UNCHANGED <<size, cleared, overlapped>>
        /\ GettzReturns(t, k, New(k), [weak EXCEPT !["gettz"][k] = {New(k)}])
    BY <1>2 DEF GettzFile
  <2>2. New(k) \in Zones /\ New(k).key = k
    BY NewIs DEF IInv
  <2>. QED
    BY <2>1, <2>2, GettzEnds
<1>3. CASE GettzStore(t)
  <2>1. PICK j \in th[t].key, z \in th[t].zone :
          GettzReturns(t, j, z, [weak EXCEPT !["gettz"][j] = {z}])
    BY <1>3 DEF GettzStore
  <2>2. /\ th[t].pc = "store" /\ th[t].for = "gettz" /\ UNCHANGED <<size, cleared, overlapped>>
        /\ j \in Names /\ z \in Zones /\ z.key = j
    BY <1>3, <2>1, Cases DEF GettzStore, IInv, Typed, TypeOK, KeyInv, CallInv, States
  <2>3. lock \subseteq {t} /\ weak["gettz"][j] = {}
    BY <2>1, <2>2 DEF IInv, Typed, TypeOK, AloneInv
  <2>. QED
    BY <2>1, <2>2, <2>3, GettzEnds
<1>. QED
  BY <1>1, <1>2, <1>3

LEMMA UncachedStep ==
  ASSUME IInv, NEW t \in Threads, NEW k \in Names, UNCHANGED use, GettzUncached(t, k)
  PROVE  IInv'
<1> DEFINE r == Result("gettz", k, New(k))
<1>1. New(k) \in Zones /\ New(k).key = k
  BY NewIs DEF IInv
<1>2. /\ kept' = kept \/ (kept' = kept \cup {r} /\ k \in Locals)
      /\ UNCHANGED <<use, weak, strong, size, lock, th, cleared, overlapped>>
  BY DEF GettzUncached
<1>3. /\ r \in [cache : Caches, key : Names, zone : Zones] /\ r.zone.key = r.key
      /\ r.cache = "gettz" /\ r.key = k
  BY <1>1, Cases DEF Result
<1> HIDE DEF r
<1>4. TypeOK'
  BY <1>2, <1>3 DEF IInv, Typed, TypeOK, Bound
<1>7. IsFiniteSet(kept')
  BY <1>2, FS_AddElement DEF IInv, Typed
<1>5. KeyInv' /\ FoundInv'
  BY <1>2, <1>3 DEF IInv, KeyInv, FoundInv
<1>6. CallInv' /\ AloneInv' /\ StrongIsFound'
  BY <1>2 DEF IInv, CallInv, AloneInv, Together, StrongIsFound
<1>. QED
  BY <1>4, <1>5, <1>6, <1>7 DEF IInv, Typed

(* A call that begins. *)
LEMMA BeginStep ==
  ASSUME IInv, NEW t \in Threads, NEW k \in Rules, UNCHANGED use,
         GettzRule(t, k) \/ FactoryCall(t, k)
  PROVE  IInv'
<1> USE Cases
<1>1. PICK c \in Caches : /\ th' = [th EXCEPT ![t] = [pc |-> "get", key |-> {k}, zone |-> {}, for |-> c]]
                          /\ \/ c = "gettz" /\ lock = {} /\ lock' = {t} /\ weak["gettz"][k] = {}
                             \/ c = "tzstr" /\ lock' = lock
  BY DEF GettzRule, FactoryCall
<1>2. th[t].pc = "idle" /\ th[t].for = "none"
      /\ UNCHANGED <<use, weak, strong, size, kept, cleared, overlapped>>
  BY DEF GettzRule, FactoryCall, Calls, IInv, CallInv, Idle
<1>3. /\ th' \in [Threads -> States] /\ \A s \in Threads : s # t => th'[s] = th[s]
      /\ th'[t] = [pc |-> "get", key |-> {k}, zone |-> {}, for |-> c]
  BY <1>1 DEF IInv, Typed, TypeOK, States
<1>4. lock' = {s \in Threads : th'[s].for = "gettz"} /\ \A s, u \in lock' : s = u
  <2>1. lock = {s \in Threads : th[s].for = "gettz"} /\ \A s, u \in lock : s = u
    BY DEF IInv, Typed, TypeOK
  <2>2. CASE c = "gettz"
    BY <1>1, <1>2, <1>3, <2>1, <2>2
  <2>3. CASE c = "tzstr"
    BY <1>1, <1>2, <1>3, <2>1, <2>3
  <2>. QED
    BY <2>2, <2>3
<1>5. Typed'
  BY <1>2, <1>3, <1>4 DEF IInv, Typed, TypeOK, Bound
<1>6. KeyInv' /\ FoundInv' /\ StrongIsFound'
  BY <1>2, <1>3 DEF IInv, KeyInv, FoundInv, StrongIsFound
<1>8. CallInv'
  BY <1>3 DEF IInv, CallInv
<1>7. AloneInv'
  BY <1>1, <1>2, <1>3 DEF IInv, AloneInv, Together
<1>. QED
  BY <1>5, <1>6, <1>7, <1>8 DEF IInv

(* The look-up: FactoryGet and the reading half of setdefault. *)
LEMMA LookUpStep ==
  ASSUME IInv, NEW t \in Threads, UNCHANGED use, FactoryGet(t) \/ FactoryRead(t)
  PROVE  IInv'
<1> USE Cases
<1>1. PICK k \in Rules : th[t].key = {k}
  BY DEF FactoryGet, FactoryRead, At, IInv, CallInv
<1>2. PICK z \in Zones, pc \in {"read", "write", "strong"} :
        /\ th' = [th EXCEPT ![t].zone = {z}, ![t].pc = pc]
        /\ pc = "strong" => weak["tzstr"][k] = {z}
        /\ pc # "strong" => weak["tzstr"][k] = {} /\ (Together(t, k) => k \in overlapped')
        /\ z.key = k /\ th[t].pc \in {"get", "read"}
  <2>1. CASE weak["tzstr"][k] # {}
    <3>1. PICK z \in Zones : weak["tzstr"][k] = {z} /\ z.key = k
      BY <1>1, <2>1 DEF IInv, Typed, TypeOK, KeyInv
    <3>2. th' = [th EXCEPT ![t].zone = {z}, ![t].pc = "strong"]
      BY <1>1, <2>1, <3>1 DEF FactoryGet, FactoryRead
    <3>. QED
      BY <3>1, <3>2 DEF FactoryGet, FactoryRead, At
  <2>2. CASE weak["tzstr"][k] = {} /\ FactoryGet(t)
    <3>1. New(k) \in Zones /\ New(k).key = k
      BY NewIs DEF IInv
    <3>2. th' = [th EXCEPT ![t].zone = {New(k)}, ![t].pc = "read"] /\ th[t].pc = "get"
      BY <1>1, <2>2 DEF FactoryGet, At
    <3>3. Together(t, k) => k \in overlapped'
      BY <1>1, <2>2 DEF FactoryGet
    <3>. QED
      BY <2>2, <3>1, <3>2, <3>3
  <2>3. CASE weak["tzstr"][k] = {} /\ FactoryRead(t)
    <3>1. PICK z \in Zones : th[t].zone = {z} /\ z.key = k
      BY <1>1, <2>3 DEF FactoryRead, At, IInv, Typed, TypeOK, States, CallInv, KeyInv
    <3>2. th' = [th EXCEPT ![t].zone = {z}, ![t].pc = "write"] /\ th[t].pc = "read"
      BY <1>1, <2>3, <3>1 DEF FactoryRead, At
    <3>3. Together(t, k) => k \in overlapped'
      BY <1>1, <2>3 DEF FactoryRead, At, IInv, AloneInv
    <3>. QED
      BY <2>3, <3>1, <3>2, <3>3
  <2>. QED
    BY <2>1, <2>2, <2>3
<1>3. UNCHANGED <<use, weak, strong, size, lock, kept, cleared>>
  BY DEF FactoryGet, FactoryRead
<1>4. /\ overlapped \subseteq overlapped' /\ overlapped' \subseteq Rules
      /\ \A s \in Threads \ {t} :
           k \in th[s].key /\ th[s].pc \in {"read", "write"} /\ th[t].pc = "get" => k \in overlapped'
  <2>1. CASE FactoryGet(t)
    <3>1. overlapped' = overlapped \cup {j \in {k} : Together(t, j)} /\ overlapped \subseteq Rules
      BY <1>1, <2>1 DEF FactoryGet, IInv, Typed, TypeOK
    <3>2. ASSUME NEW s \in Threads \ {t}, k \in th[s].key, th[s].pc \in {"read", "write"}
          PROVE  Together(t, k)
      BY <3>2 DEF Together, IInv, CallInv
    <3>. QED
      BY <3>1, <3>2
  <2>2. CASE FactoryRead(t)
    BY <2>2 DEF FactoryRead, At, IInv, Typed, TypeOK
  <2>. QED
    BY <2>1, <2>2
<1>5. /\ th' \in [Threads -> States] /\ \A s \in Threads : s # t => th'[s] = th[s]
      /\ th'[t] = [th[t] EXCEPT !.zone = {z}, !.pc = pc]
  <2>1. th \in [Threads -> States] /\ th[t] \in States
    BY DEF IInv, Typed, TypeOK
  <2>2. [th[t] EXCEPT !.zone = {z}, !.pc = pc] \in States
    BY <2>1 DEF States
  <2>3. th' = [th EXCEPT ![t] = [th[t] EXCEPT !.zone = {z}, !.pc = pc]]
    BY <1>2, <2>1
  <2>. QED
    BY <2>1, <2>2, <2>3
<1>6. th'[t].pc = pc /\ th'[t].key = {k} /\ th'[t].zone = {z} /\ th'[t].for = th[t].for
  BY <1>1, <1>5 DEF IInv, Typed, TypeOK, States
<1>7. Typed'
  <2>1. lock' = {s \in Threads : th'[s].for = "gettz"} /\ \A s, u \in lock' : s = u
    BY <1>3, <1>5, <1>6 DEF IInv, Typed, TypeOK
  <2>. QED
    BY <1>3, <1>4, <1>5, <2>1 DEF IInv, Typed, TypeOK, Bound
<1>8. KeyInv' /\ CallInv' /\ FoundInv' /\ StrongIsFound'
  <2>1. KeyInv'
    BY <1>2, <1>3, <1>5, <1>6 DEF IInv, KeyInv
  <2>2. CallInv'
    <3>1. ASSUME NEW s \in Threads PROVE s = t \/ th'[s] = th[s]
      BY <1>5
    <3>2. th[t].for \in Caches
      BY <1>2 DEF IInv, CallInv
    <3>. QED
      BY <1>6, <3>1, <3>2 DEF IInv, CallInv
  <2>3. FoundInv' /\ StrongIsFound'
    BY <1>3, <1>4 DEF IInv, FoundInv, StrongIsFound
  <2>. QED
    BY <2>1, <2>2, <2>3
<1>9. AloneInv'
  <2>1. ASSUME NEW s \in Threads, s # t, NEW j \in th[s].key, th[s].pc \in {"read", "write"}, Together(s, j)'
        PROVE  j \in overlapped'
    <3>1. PICK u \in Threads \ {s} : th'[u].key = {j} /\ th'[u].pc \in {"read", "write"}
      BY <2>1 DEF Together
    <3>2. CASE u # t
      BY <1>4, <1>5, <2>1, <3>1, <3>2 DEF Together, IInv, AloneInv
    <3>3. CASE u = t /\ th[t].pc = "get"
      BY <1>4, <1>6, <2>1, <3>1, <3>3
    <3>4. CASE u = t /\ th[t].pc = "read"
      BY <1>1, <1>4, <1>6, <2>1, <3>1, <3>4 DEF Together, IInv, AloneInv
    <3>. QED
      BY <1>2, <3>2, <3>3, <3>4
  <2>2. Together(t, k)' => Together(t, k)
    BY <1>5 DEF Together
  <2>. QED
    BY <1>1, <1>2, <1>3, <1>4, <1>5, <1>6, <2>1, <2>2 DEF IInv, AloneInv
<1>. QED
  BY <1>7, <1>8, <1>9 DEF IInv

(* The writing half of setdefault: alone, it writes where nothing was. *)
LEMMA WriteStep ==
  ASSUME IInv, NEW t \in Threads, UNCHANGED use, FactoryWrite(t)
  PROVE  IInv'
<1> USE Cases
<1>1. PICK k \in Rules : th[t].key = {k}
  BY DEF FactoryWrite, At, IInv, CallInv
<1>2. PICK z \in Zones : th[t].zone = {z} /\ z.key = k
  <2>1. PICK z \in th[t].zone : th[t].zone = {z}
    BY DEF FactoryWrite, At, IInv, CallInv
  <2>2. z \in Zones
    BY DEF IInv, Typed, TypeOK, States
  <2>. QED
    BY <1>1, <2>1, <2>2 DEF IInv, KeyInv
<1>3. /\ weak' = [weak EXCEPT !["tzstr"][k] = {z}] /\ th[t].pc = "write"
      /\ UNCHANGED <<use, strong, size, lock, kept, cleared, overlapped>>
  BY <1>1, <1>2 DEF FactoryWrite, At
<1>4. /\ weak' \in [Caches -> [Names -> SUBSET Zones]] /\ weak'["tzstr"][k] = {z}
      /\ \A j \in Names : j # k => weak'["tzstr"][j] = weak["tzstr"][j]
      /\ \A j \in Names : weak'["gettz"][j] = weak["gettz"][j]
  BY <1>1, <1>3 DEF IInv, Typed, TypeOK
<1>5. /\ th' \in [Threads -> States] /\ \A s \in Threads : s # t => th'[s] = th[s]
      /\ th'[t].pc = "strong" /\ th'[t].key = {k} /\ th'[t].zone = {z} /\ th'[t].for = th[t].for
  <2>1. th \in [Threads -> States] /\ th[t] \in States
    BY DEF IInv, Typed, TypeOK
  <2>2. [th[t] EXCEPT !.pc = "strong"] \in States
    BY <2>1 DEF States
  <2>3. th' = [th EXCEPT ![t] = [th[t] EXCEPT !.pc = "strong"]]
    BY <2>1 DEF FactoryWrite
  <2>. QED
    BY <1>1, <1>2, <2>1, <2>2, <2>3 DEF States
<1>6. k \in overlapped \/ weak["tzstr"][k] = {}
  BY <1>1, <1>3 DEF IInv, AloneInv
<1>7. Typed'
  <2>1. lock' = {s \in Threads : th'[s].for = "gettz"} /\ \A s, u \in lock' : s = u
    BY <1>3, <1>5 DEF IInv, Typed, TypeOK
  <2>. QED
    BY <1>3, <1>4, <1>5, <2>1 DEF IInv, Typed, TypeOK, Bound
<1>8. KeyInv' /\ CallInv'
  <2>1. KeyInv'
    BY <1>2, <1>3, <1>4, <1>5 DEF IInv, KeyInv
  <2>2. CallInv'
    <3>1. ASSUME NEW s \in Threads PROVE s = t \/ th'[s] = th[s]
      BY <1>5
    <3>2. th[t].for \in Caches
      BY <1>3 DEF IInv, CallInv
    <3>. QED
      BY <1>5, <3>1, <3>2 DEF IInv, CallInv
  <2>. QED
    BY <2>1, <2>2
<1>9. AloneInv'
  <2> SUFFICES ASSUME NEW s \in Threads, NEW j \in th'[s].key
               PROVE  /\ th'[s].pc \in {"read", "write"} /\ Together(s, j)' => j \in overlapped
                      /\ th'[s].pc \in {"read", "write"} => j \in overlapped \/ weak'["tzstr"][j] = {}
                      /\ th'[s].pc = "strong" => j \in overlapped \/ weak'["tzstr"][j] = th'[s].zone
                      /\ th'[s].for = "gettz" => weak'["gettz"][j] = {}
    BY <1>3 DEF AloneInv
  <2>1. CASE s = t
    BY <1>1, <1>4, <1>5, <2>1 DEF IInv, AloneInv
  <2>2. CASE s # t
    <3>1. th'[s] = th[s] /\ j \in Names
      BY <1>5, <2>2 DEF IInv, Typed, TypeOK, States
    <3>2. Together(s, j)' => Together(s, j)
      BY <1>3, <1>5, <2>2 DEF Together
    <3>3. th[s].pc \in {"read", "write"} /\ j = k => k \in overlapped
      BY <1>1, <1>3, <2>2, <3>1 DEF Together, IInv, AloneInv, CallInv
    <3>4. th[s].pc = "strong" /\ j = k => k \in overlapped
      BY <1>6, <3>1 DEF IInv, AloneInv, CallInv
    <3>. QED
      BY <1>4, <3>1, <3>2, <3>3, <3>4 DEF IInv, AloneInv
  <2>. QED
    BY <2>1, <2>2
<1>10. FoundInv'
  <2> SUFFICES ASSUME NEW r \in kept
               PROVE  \/ weak'[r.cache][r.key] = {r.zone}
                      \/ r.cache = "gettz" /\ (r.key \in Locals \/ r.zone \in cleared)
                      \/ r.cache = "tzstr" /\ r.key \in overlapped
    BY <1>3 DEF FoundInv
  <2>1. r.cache \in Caches /\ r.key \in Names
    BY DEF IInv, Typed, TypeOK
  <2>. QED
    BY <1>4, <1>6, <2>1 DEF IInv, FoundInv
<1>11. StrongIsFound'
  <2> SUFFICES ASSUME NEW c \in Caches, NEW y \in Range(strong[c])
               PROVE  weak'[c][y.key] = {y} \/ (c = "tzstr" /\ y.key \in overlapped)
    BY <1>3 DEF StrongIsFound
  <2>1. strong[c] \in Seq(Zones)
    BY DEF IInv, Typed, TypeOK
  <2>2. y \in Zones
    BY <2>1, RangeIs
  <2>3. y.key \in Names
    BY <2>2 DEF Zones
  <2>. QED
    BY <1>4, <1>6, <2>3 DEF IInv, StrongIsFound
<1>. QED
  BY <1>7, <1>8, <1>9, <1>10, <1>11 DEF IInv

(* Steps after which what nothing keeps any longer is collected, while what callers
   and threads have does not change: a weak reference of a strong cache, a caller or a
   thread is to something alive. *)
LEMMA CollectedKeeps ==
  ASSUME IInv, Collected(weak), kept' \subseteq kept, th' = th, overlapped' = overlapped,
         \A c \in Caches : strong'[c] \in Seq(Zones) /\ Range(strong'[c]) \subseteq Range(strong[c]),
         cleared' = cleared \cap {r.zone : r \in kept'} \/ cleared' = cleared
  PROVE  KeyInv' /\ CallInv' /\ AloneInv' /\ FoundInv' /\ StrongIsFound'
<1> USE Cases
<1>1. \A c \in Caches, k \in Names : weak'[c][k] = weak[c][k] \cap Alive'
  BY CollectedIs DEF IInv, Typed, TypeOK
<1>2. KeyInv' /\ CallInv'
  BY <1>1 DEF IInv, KeyInv, CallInv
<1>3. AloneInv'
  <2> SUFFICES ASSUME NEW t \in Threads, NEW k \in th[t].key
               PROVE  /\ th[t].pc \in {"read", "write"} /\ Together(t, k) => k \in overlapped
                      /\ th[t].pc \in {"read", "write"} => k \in overlapped \/ weak'["tzstr"][k] = {}
                      /\ th[t].pc = "strong" => k \in overlapped \/ weak'["tzstr"][k] = th[t].zone
                      /\ th[t].for = "gettz" => weak'["gettz"][k] = {}
    BY DEF AloneInv, Together
  <2>1. k \in Names /\ th[t].zone \subseteq Alive'
    BY Keepers DEF IInv, Typed, TypeOK, States
  <2>2. weak'["tzstr"][k] = weak["tzstr"][k] \cap Alive' /\ weak'["gettz"][k] = weak["gettz"][k] \cap Alive'
    BY <1>1, <2>1
  <2>3. th[t].pc = "strong" => k \in overlapped \/ weak'["tzstr"][k] = th[t].zone
    BY <2>1, <2>2 DEF IInv, AloneInv
  <2>. QED
    BY <2>2, <2>3 DEF IInv, AloneInv
<1>4. FoundInv'
  <2> SUFFICES ASSUME NEW r \in kept'
               PROVE  \/ weak'[r.cache][r.key] = {r.zone}
                      \/ r.cache = "gettz" /\ (r.key \in Locals \/ r.zone \in cleared')
                      \/ r.cache = "tzstr" /\ r.key \in overlapped
    BY DEF FoundInv
  <2>1. r \in kept /\ r.cache \in Caches /\ r.key \in Names /\ r.zone \in Alive'
    BY Keepers DEF IInv, Typed, TypeOK
  <2>. QED
    BY <1>1, <2>1 DEF IInv, FoundInv
<1>5. StrongIsFound'
  <2> SUFFICES ASSUME NEW c \in Caches, NEW y \in Range(strong'[c])
               PROVE  weak'[c][y.key] = {y} \/ (c = "tzstr" /\ y.key \in overlapped)
    BY DEF StrongIsFound
  <2>1. y \in Zones /\ y \in Range(strong[c]) /\ y \in Alive'
    BY RangeIs, Keepers
  <2>2. y.key \in Names
    BY <2>1 DEF Zones
  <2>. QED
    BY <1>1, <2>1, <2>2 DEF IInv, StrongIsFound
<1>. QED
  BY <1>2, <1>3, <1>4, <1>5

(* A caller forgets a zone, or gettz gets another size: nothing new is kept. *)
LEMMA LessKept ==
  ASSUME IInv, UNCHANGED use,
         (\E r \in kept : Forget(r)) \/ (\E n \in Sizes : set_cache_size(n))
  PROVE  IInv'
<1> USE Cases
<1>1. CASE \E r \in kept : Forget(r)
  <2>1. PICK r \in kept : Forget(r)
    BY <1>1
  <2>2. /\ kept' = kept \ {r} /\ cleared' = cleared \cap {q.zone : q \in kept'}
        /\ UNCHANGED <<use, strong, size, lock, th, overlapped>> /\ Collected(weak)
    BY <2>1 DEF Forget
  <2>3. weak' \in [Caches -> [Names -> SUBSET Zones]]
    BY <2>2, CollectedIs DEF IInv, Typed, TypeOK
  <2>4. Typed'
    BY <2>2, <2>3, FS_Subset DEF IInv, Typed, TypeOK, Bound
  <2>5. \A c \in Caches : strong'[c] \in Seq(Zones) /\ Range(strong'[c]) \subseteq Range(strong[c])
    BY <2>2 DEF IInv, Typed, TypeOK
  <2>. QED
    BY <2>2, <2>4, <2>5, CollectedKeeps DEF IInv
<1>2. CASE \E n \in Sizes : set_cache_size(n)
  <2>1. PICK n \in Sizes : set_cache_size(n)
    BY <1>2
  <2> DEFINE s == strong["gettz"]
             m == Len(s) - Min({n, Len(s)}) + 1
             tail == SubSeq(s, m, Len(s))
  <2>2. /\ size' = n /\ strong' = [strong EXCEPT !["gettz"] = tail]
        /\ UNCHANGED <<use, lock, th, kept, cleared, overlapped>> /\ Collected(weak)
    BY <2>1 DEF set_cache_size, IInv, Typed, TypeOK
  <2>3. s \in Seq(Zones) /\ Len(s) \in Nat /\ n \in Nat
    BY CacheAssumption, LenProperties DEF IInv, Typed, TypeOK
  <2> HIDE DEF s
  <2>4. Min({n, Len(s)}) = IF n <= Len(s) THEN n ELSE Len(s)
    BY <2>3 DEF Min
  <2>5. m \in 1 .. Len(s) + 1 /\ Len(s) \in 0 .. Len(s) /\ Len(s) - m + 1 <= n
    BY <2>3, <2>4
  <2> HIDE DEF m
  <2>6. /\ tail \in Seq(Zones) /\ Range(tail) \subseteq Range(s)
        /\ Len(tail) = IF m <= Len(s) THEN Len(s) - m + 1 ELSE 0
    BY <2>3, <2>5, PartOfRange
  <2> HIDE DEF tail
  <2>7. Len(tail) <= n
    BY <2>3, <2>5, <2>6
  <2>8. /\ strong' \in [Caches -> Seq(Zones)] /\ strong'["gettz"] = tail
        /\ strong'["tzstr"] = strong["tzstr"]
    BY <2>2, <2>6 DEF IInv, Typed, TypeOK
  <2>9. \A c \in Caches : Len(strong'[c]) <= Bound(c)'
    BY <2>2, <2>7, <2>8 DEF IInv, Typed, TypeOK, Bound
  <2>10. weak' \in [Caches -> [Names -> SUBSET Zones]]
    BY <2>2, CollectedIs DEF IInv, Typed, TypeOK
  <2>11. Typed'
    BY <2>2, <2>8, <2>9, <2>10 DEF IInv, Typed, TypeOK
  <2>12. \A c \in Caches : strong'[c] \in Seq(Zones) /\ Range(strong'[c]) \subseteq Range(strong[c])
    BY <2>6, <2>8 DEF IInv, Typed, TypeOK, s
  <2>. QED
    BY <2>2, <2>11, <2>12, CollectedKeeps DEF IInv
<1>. QED
  BY <1>1, <1>2

(* cache_clear: gettz forgets everything, and what callers have of it is as before. *)
LEMMA ClearStep ==
  ASSUME IInv, UNCHANGED use, cache_clear
  PROVE  IInv'
<1> USE Cases
<1> DEFINE refs == [weak EXCEPT !["gettz"] = [k \in Names |-> {}]]
<1>1. /\ strong' = [strong EXCEPT !["gettz"] = <<>>] /\ cleared' = {r.zone : r \in kept}
      /\ UNCHANGED <<use, size, lock, th, kept, overlapped>> /\ Collected(refs) /\ lock = {}
  BY DEF cache_clear
<1>2. /\ refs \in [Caches -> [Names -> SUBSET Zones]]
      /\ \A k \in Names : refs["gettz"][k] = {} /\ refs["tzstr"][k] = weak["tzstr"][k]
  BY DEF IInv, Typed, TypeOK
<1> HIDE DEF refs
<1>3. /\ weak' \in [Caches -> [Names -> SUBSET Zones]]
      /\ \A k \in Names : weak'["gettz"][k] = {} /\ weak'["tzstr"][k] = weak["tzstr"][k] \cap Alive'
  BY <1>1, <1>2, CollectedIs
<1>4. /\ strong' \in [Caches -> Seq(Zones)] /\ strong'["gettz"] = <<>>
      /\ strong'["tzstr"] = strong["tzstr"]
  BY <1>1 DEF IInv, Typed, TypeOK
<1>5. Typed'
  <2>1. \A c \in Caches : Len(strong'[c]) <= Bound(c)'
    BY <1>1, <1>4, Bounds DEF IInv, Typed, TypeOK, Bound
  <2>2. cleared' \subseteq Zones
    BY <1>1 DEF IInv, Typed, TypeOK
  <2>. QED
    BY <1>1, <1>3, <1>4, <2>1, <2>2 DEF IInv, Typed, TypeOK
<1>6. KeyInv' /\ CallInv'
  BY <1>1, <1>3 DEF IInv, KeyInv, CallInv
<1>7. AloneInv'
  <2> SUFFICES ASSUME NEW t \in Threads, NEW k \in th[t].key
               PROVE  /\ th[t].pc \in {"read", "write"} /\ Together(t, k) => k \in overlapped
                      /\ th[t].pc \in {"read", "write"} => k \in overlapped \/ weak'["tzstr"][k] = {}
                      /\ th[t].pc = "strong" => k \in overlapped \/ weak'["tzstr"][k] = th[t].zone
                      /\ th[t].for = "gettz" => weak'["gettz"][k] = {}
    BY <1>1 DEF AloneInv, Together
  <2>1. k \in Names /\ th[t].zone \subseteq Alive'
    BY <1>1, Keepers DEF IInv, Typed, TypeOK, States
  <2>2. weak'["tzstr"][k] = weak["tzstr"][k] \cap Alive' /\ weak'["gettz"][k] = {}
    BY <1>3, <2>1
  <2>3. th[t].pc = "strong" => k \in overlapped \/ weak'["tzstr"][k] = th[t].zone
    BY <2>1, <2>2 DEF IInv, AloneInv
  <2>. QED
    BY <2>2, <2>3 DEF IInv, AloneInv
<1>8. FoundInv'
  <2> SUFFICES ASSUME NEW r \in kept
               PROVE  \/ weak'[r.cache][r.key] = {r.zone}
                      \/ r.cache = "gettz" /\ (r.key \in Locals \/ r.zone \in cleared')
                      \/ r.cache = "tzstr" /\ r.key \in overlapped
    BY <1>1 DEF FoundInv
  <2>1. r.cache \in Caches /\ r.key \in Names /\ r.zone \in Alive' /\ r.zone \in cleared'
    BY <1>1, Keepers DEF IInv, Typed, TypeOK
  <2>. QED
    BY <1>3, <2>1 DEF IInv, FoundInv
<1>9. StrongIsFound'
  <2> SUFFICES ASSUME NEW c \in Caches, NEW y \in Range(strong'[c])
               PROVE  weak'[c][y.key] = {y} \/ (c = "tzstr" /\ y.key \in overlapped)
    BY <1>1 DEF StrongIsFound
  <2>1. c = "tzstr" /\ y \in Range(strong["tzstr"])
    <3>1. strong'["gettz"] \in Seq(Zones) /\ Len(strong'["gettz"]) = 0
      BY <1>4
    <3>2. \A x : x \notin Range(strong'["gettz"])
      BY <3>1, RangeIs
    <3>. QED
      BY <1>4, <3>2
  <2>2. strong["tzstr"] \in Seq(Zones) /\ y \in Alive'
    BY <2>1, Keepers DEF IInv, Typed, TypeOK
  <2>3. y \in Zones
    BY <2>1, <2>2, RangeIs
  <2>4. y.key \in Names
    BY <2>3 DEF Zones
  <2>. QED
    BY <1>3, <2>1, <2>2, <2>4 DEF IInv, StrongIsFound
<1>. QED
  BY <1>5, <1>6, <1>7, <1>8, <1>9 DEF IInv

(* The last part of the factory, under its lock: the zone goes to the strong cache, and
   to the caller or back to gettz. *)
LEMMA FactoryStrongStep ==
  ASSUME IInv, NEW t \in Threads, UNCHANGED use, FactoryStrong(t)
  PROVE  IInv'
<1> USE Cases
<1>1. PICK k \in Rules : th[t].key = {k}
  BY DEF FactoryStrong, At, IInv, CallInv
<1>2. PICK z \in Zones : th[t].zone = {z} /\ z.key = k
  <2>1. PICK z \in th[t].zone : th[t].zone = {z}
    BY DEF FactoryStrong, At, IInv, CallInv
  <2>2. z \in Zones
    BY DEF IInv, Typed, TypeOK, States
  <2>. QED
    BY <1>1, <2>1, <2>2 DEF IInv, KeyInv
<1>3. k \in overlapped \/ weak["tzstr"][k] = {z}
  BY <1>1, <1>2 DEF FactoryStrong, At, IInv, AloneInv
<1>4. /\ strong' = [strong EXCEPT !["tzstr"] = Touched("tzstr", k, z)]
      /\ UNCHANGED <<use, size, lock, cleared, overlapped>> /\ Collected(weak)
  BY <1>1, <1>2 DEF FactoryStrong
<1>5. /\ weak' \in [Caches -> [Names -> SUBSET Zones]]
      /\ \A c \in Caches, j \in Names : weak'[c][j] = weak[c][j] \cap Alive'
  BY <1>4, CollectedIs DEF IInv, Typed, TypeOK
<1>6. /\ Touched("tzstr", k, z) \in Seq(Zones) /\ Len(Touched("tzstr", k, z)) <= Bound("tzstr")
      /\ Range(Touched("tzstr", k, z)) \subseteq Range(strong["tzstr"]) \cup {z}
  BY TouchedIs DEF IInv, Typed
<1>7. /\ strong' \in [Caches -> Seq(Zones)] /\ strong'["gettz"] = strong["gettz"]
      /\ strong'["tzstr"] = Touched("tzstr", k, z)
  BY <1>4, <1>6 DEF IInv, Typed, TypeOK
<1>8. /\ th' \in [Threads -> States] /\ \A s \in Threads : s # t => th'[s] = th[s]
      /\ \/ th'[t] = Idle /\ th[t].for = "tzstr" /\ kept' = kept \cup {Result("tzstr", k, z)}
         \/ /\ th'[t].pc = "store" /\ th'[t].key = {k} /\ th'[t].zone = {z}
            /\ th'[t].for = "gettz" /\ th[t].for = "gettz" /\ kept' = kept
  <2>1. th \in [Threads -> States] /\ th[t] \in States
    BY DEF IInv, Typed, TypeOK
  <2>2. CASE th[t].for = "tzstr"
    <3>1. Idle \in States
      BY DEF Idle, States
    <3>. QED
      BY <1>1, <1>2, <2>1, <2>2, <3>1 DEF FactoryStrong, Keeps
  <2>3. CASE th[t].for # "tzstr"
    <3>1. th[t].for = "gettz"
      <4>1. th[t].pc # "idle"
        BY DEF FactoryStrong, At
      <4>. QED
        BY <2>1, <2>3, <4>1 DEF States, IInv, CallInv
    <3>2. th' = [th EXCEPT ![t] = [th[t] EXCEPT !.pc = "store"]] /\ kept' = kept
      BY <1>1, <1>2, <2>1, <2>3 DEF FactoryStrong
    <3>3. [th[t] EXCEPT !.pc = "store"] \in States
      BY <2>1 DEF States
    <3>. QED
      BY <1>1, <1>2, <2>1, <3>1, <3>2, <3>3 DEF States
  <2>. QED
    BY <2>2, <2>3
<1>9. Result("tzstr", k, z) \in [cache : Caches, key : Names, zone : Zones]
  BY DEF Result
<1>10. Typed'
  <2>1. \A c \in Caches : Len(strong'[c]) <= Bound(c)'
    BY <1>4, <1>6, <1>7 DEF IInv, Typed, TypeOK, Bound
  <2>2. lock' = {s \in Threads : th'[s].for = "gettz"} /\ \A s, u \in lock' : s = u
    <3>1. \A s \in Threads : th'[s].for = "gettz" <=> th[s].for = "gettz"
      BY <1>8 DEF Idle
    <3>. QED
      BY <1>4, <3>1 DEF IInv, Typed, TypeOK
  <2>3. kept' \subseteq [cache : Caches, key : Names, zone : Zones]
    BY <1>8, <1>9 DEF IInv, Typed, TypeOK
  <2>4. IsFiniteSet(kept')
    BY <1>8, FS_AddElement DEF IInv, Typed
  <2>. QED
    BY <1>4, <1>5, <1>7, <1>8, <2>1, <2>2, <2>3, <2>4 DEF IInv, Typed, TypeOK
<1>11. KeyInv' /\ CallInv'
  <2>1. KeyInv'
    BY <1>2, <1>5, <1>8 DEF IInv, KeyInv, Idle, Result
  <2>2. CallInv'
    <3>1. ASSUME NEW s \in Threads PROVE s = t \/ th'[s] = th[s]
      BY <1>8
    <3>. QED
      BY <1>8, <3>1 DEF IInv, CallInv, Idle
  <2>. QED
    BY <2>1, <2>2
<1>12. AloneInv'
  <2> SUFFICES ASSUME NEW s \in Threads, NEW j \in th'[s].key
               PROVE  /\ th'[s].pc \in {"read", "write"} /\ Together(s, j)' => j \in overlapped
                      /\ th'[s].pc \in {"read", "write"} => j \in overlapped \/ weak'["tzstr"][j] = {}
                      /\ th'[s].pc = "strong" => j \in overlapped \/ weak'["tzstr"][j] = th'[s].zone
                      /\ th'[s].for = "gettz" => weak'["gettz"][j] = {}
    BY <1>4 DEF AloneInv
  <2>1. CASE s = t
    BY <1>1, <1>5, <1>8, <2>1 DEF IInv, AloneInv, Idle
  <2>2. CASE s # t
    <3>1. th'[s] = th[s] /\ j \in Names /\ th[s].zone \subseteq Alive'
      BY <1>8, <2>2, Keepers DEF IInv, Typed, TypeOK, States
    <3>2. Together(s, j)' => Together(s, j)
      BY <1>8 DEF Together, Idle
    <3>3. weak'["tzstr"][j] = weak["tzstr"][j] \cap Alive' /\ weak'["gettz"][j] = weak["gettz"][j] \cap Alive'
      BY <1>5, <3>1
    <3>4. th[s].pc = "strong" => j \in overlapped \/ weak'["tzstr"][j] = th[s].zone
      BY <3>1, <3>3 DEF IInv, AloneInv
    <3>. QED
      BY <3>1, <3>2, <3>3, <3>4 DEF IInv, AloneInv
  <2>. QED
    BY <2>1, <2>2
<1>13. FoundInv'
  <2> SUFFICES ASSUME NEW r \in kept'
               PROVE  \/ weak'[r.cache][r.key] = {r.zone}
                      \/ r.cache = "gettz" /\ (r.key \in Locals \/ r.zone \in cleared)
                      \/ r.cache = "tzstr" /\ r.key \in overlapped
    BY <1>4 DEF FoundInv
  <2>1. r.cache \in Caches /\ r.key \in Names /\ r.zone \in Alive'
    BY <1>10, Keepers DEF Typed, TypeOK
  <2>2. CASE r \in kept
    BY <1>5, <2>1, <2>2 DEF IInv, FoundInv
  <2>3. CASE r = Result("tzstr", k, z)
    BY <1>3, <1>5, <2>1, <2>3 DEF Result
  <2>. QED
    BY <1>8, <2>2, <2>3
<1>14. StrongIsFound'
  <2> SUFFICES ASSUME NEW c \in Caches, NEW y \in Range(strong'[c])
               PROVE  weak'[c][y.key] = {y} \/ (c = "tzstr" /\ y.key \in overlapped)
    BY <1>4 DEF StrongIsFound
  <2>1. y \in Zones /\ y \in Alive'
    <3>1. strong'[c] \in Seq(Zones)
      BY <1>7
    <3>. QED
      BY <3>1, RangeIs, Keepers
  <2>2. y.key \in Names
    BY <2>1 DEF Zones
  <2>3. y \in Range(strong[c]) \/ (c = "tzstr" /\ y = z)
    BY <1>6, <1>7
  <2>. QED
    BY <1>2, <1>3, <1>5, <2>1, <2>2, <2>3 DEF IInv, StrongIsFound
<1>. QED
  BY <1>10, <1>11, <1>12, <1>13, <1>14 DEF IInv

-----------------------------------------------------------------------------

LEMMA InitOK == Init => IInv
<1> SUFFICES ASSUME Init PROVE IInv
  OBVIOUS
<1> USE Cases
<1>1. \A c \in Caches : strong[c] = <<>>
  BY DEF Init
<1>2. Typed
  <2>1. strong \in [Caches -> Seq(Zones)] /\ \A c \in Caches : Len(strong[c]) <= Bound(c)
    BY CacheAssumption DEF Init, Bound
  <2>2. th \in [Threads -> States] /\ \A t \in Threads : th[t].for = "none"
    BY DEF Init, Idle, States
  <2>3. IsFiniteSet(kept)
    BY FS_EmptySet DEF Init
  <2>. QED
    BY <2>1, <2>2, <2>3 DEF Init, Typed, TypeOK
<1>3. KeyInv /\ CallInv /\ AloneInv /\ FoundInv
  BY DEF Init, KeyInv, CallInv, AloneInv, FoundInv, Idle
<1>4. StrongIsFound
  <2>1. ASSUME NEW c \in Caches PROVE \A x : x \notin Range(strong[c])
    <3>1. strong[c] \in Seq(Zones) /\ Len(strong[c]) = 0
      BY <1>1, <1>2 DEF Typed, TypeOK
    <3>. QED
      BY <3>1, RangeIs
  <2>. QED
    BY <2>1 DEF StrongIsFound
<1>. QED
  BY <1>2, <1>3, <1>4 DEF IInv

LEMMA NextOK == IInv /\ [Next]_vars => IInv'
<1> SUFFICES ASSUME IInv, [Next]_vars PROVE IInv'
  OBVIOUS
<1>1. CASE UNCHANGED vars
  <2> USE <1>1 DEF vars, IInv
  <2>1. Typed'
    BY DEF Typed, TypeOK, Bound
  <2>2. KeyInv' /\ CallInv'
    BY DEF KeyInv, CallInv
  <2>3. AloneInv'
    BY DEF AloneInv, Together
  <2>4. FoundInv' /\ StrongIsFound'
    BY DEF FoundInv, StrongIsFound
  <2>. QED
    BY <2>1, <2>2, <2>3, <2>4
<1>2. CASE Next
  <2> USE DEF Next
  <2>1. UNCHANGED use /\ use \in [gettz : SUBSET Names, tzstr : SUBSET Rules]
    BY <1>2, CacheAssumption DEF IInv, Typed, TypeOK
  <2>2. ASSUME NEW t \in Threads, Proceed(t) PROVE IInv'
    <3>1. CASE GettzStore(t)
      <4>1. PICK k \in Names : k \in th[t].key
        BY <3>1, Cases DEF GettzStore, IInv, Typed, TypeOK, States
      <4>. QED
        BY <2>1, <3>1, <4>1, GettzStep
    <3>. QED
      BY <2>1, <2>2, <3>1, LookUpStep, WriteStep, FactoryStrongStep DEF Proceed
  <2>3. ASSUME NEW t \in Threads, NEW k \in use.gettz,
               GettzHit(t, k) \/ GettzFile(t, k) \/ GettzUncached(t, k) \/ GettzRule(t, k)
        PROVE  IInv'
    <3>1. k \in Names /\ (GettzRule(t, k) => k \in Rules)
      BY <2>1 DEF GettzRule
    <3>. QED
      BY <2>1, <2>3, <3>1, GettzStep, UncachedStep, BeginStep
  <2>4. ASSUME NEW t \in Threads, NEW k \in use.tzstr, FactoryCall(t, k) PROVE IInv'
    BY <2>1, <2>4, BeginStep
  <2>5. ASSUME cache_clear \/ (\E n \in Sizes : set_cache_size(n)) \/ (\E r \in kept : Forget(r))
        PROVE  IInv'
    BY <2>1, <2>5, ClearStep, LessKept
  <2>. QED
    BY <1>2, <2>2, <2>3, <2>4, <2>5
<1>. QED
  BY <1>1, <1>2

(* The inductive invariant. *)
THEOREM Invariance == Spec => []IInv
BY InitOK, NextOK, PTL DEF Spec

(* A call of gettz that has not returned, and no other, has the lock of gettz, and a
   strong cache is never larger than it may be. *)
THEOREM CachesTyped == Spec => []TypeOK
<1>1. IInv => TypeOK
  BY DEF IInv, Typed
<1>. QED
  BY <1>1, Invariance, PTL

(* There is one zone for a name or rule, and what a strong cache keeps is found. *)
THEOREM OneZone == Spec => []OneZonePerName
<1>1. IInv => SameResults
  <2> SUFFICES ASSUME IInv, NEW p \in kept, NEW q \in kept, Distinct(p, q)
               PROVE  IF p.cache = "gettz"
                      THEN p.key \in Locals \/ {p.zone, q.zone} \cap cleared # {}
                      ELSE p.key \in overlapped
    BY DEF SameResults
  <2>. QED
    BY Cases DEF IInv, FoundInv, Distinct, Typed, TypeOK
<1>2. IInv => OneZonePerName
  BY <1>1 DEF IInv, OneZonePerName
<1>. QED
  BY <1>2, Invariance, PTL
=============================================================================
