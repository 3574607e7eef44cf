------------------------------- MODULE ZoneCache -------------------------------
(***************************************************************************)
(* dateutil's caches of time zones: gettz (dateutil/tz/tz.py), which does  *)
(* all of its work under a lock, and the factory of tzstr                  *)
(* (dateutil/tz/_factories.py; that of tzoffset does the same), which      *)
(* takes its lock for the last part only.                                  *)
(*                                                                         *)
(* Each has a weak dictionary, which finds an object as long as somebody   *)
(* else keeps it, and a strong one, which keeps the objects that were      *)
(* asked for last.  A zone is a record of what it was made for and a       *)
(* number; the number of a zone that nothing refers to is used again.      *)
(***************************************************************************)
EXTENDS Integers, FiniteSets, FiniteSetsExt, SequencesExt

CONSTANTS Threads,     \* the threads that ask for zones
          Files,       \* names of zone files
          Rules,       \* names that are POSIX rules, which tzstr takes
          Locals,      \* names in time.tzname without a file, for tzlocal
          Unknown,     \* names for which there is nothing
          Uses,        \* what may be asked for in a behaviour: cache -> its names
          StrongSize,  \* __strong_cache_size, 8 in the code
          Sizes,       \* what set_cache_size may be called with
          MaxKept      \* bound: so many results of calls are kept at a time

Names == Files \cup Rules \cup Locals \cup Unknown

ASSUME CacheAssumption ==
  /\ IsFiniteSet(Threads) /\ Uses \subseteq [gettz : SUBSET Names, tzstr : SUBSET Rules]
  /\ StrongSize \in Nat /\ Sizes \subseteq Nat /\ MaxKept \in Nat

VARIABLES use,         \* what is asked for
          weak,        \* cache -> key -> what its weak reference is to, or {}
          strong,      \* cache -> its zones in the order of their use
          size,        \* __strong_cache_size of gettz
          lock,        \* _cache_lock of gettz: {} or the thread that has it
          th,          \* thread -> where it is in its call, and the zone it has
          kept,        \* results that callers still have
          cleared,     \* zones that were found before the last cache_clear
          overlapped   \* keys that two threads looked up in the factory at a time

vars == <<use, weak, strong, size, lock, th, kept, cleared, overlapped>>

Caches == {"gettz", "tzstr"}
Idle   == [pc |-> "idle", key |-> {}, zone |-> {}, for |-> "none"]

-----------------------------------------------------------------------------
(* What keeps a zone: a strong cache, a thread in its call, a caller.         *)

Alive ==
  (UNION {Range(strong[c]) : c \in Caches}) \cup (UNION {th[t].zone : t \in Threads})
    \cup {r.zone : r \in kept}
New(k) ==
  LET used == {z.n : z \in {y \in Alive : y.key = k}} IN
  [key |-> k, n |-> CHOOSE n \in 0 .. Cardinality(used) : n \notin used]

(* A weak reference goes with the last of the others. *)
Collected(refs) == weak' = [c \in Caches |-> [k \in Names |-> refs[c][k] \cap Alive']]

Bound(c) == IF c = "gettz" THEN size ELSE StrongSize

(* Faulty: nothing is dropped from a strong cache. *)
TouchedUnlimited(c, k, z) == Append(SelectSeq(strong[c], LAMBDA y : y.key # k), z)

(* strong[key] = strong.pop(key, zone); popitem(last=False) if there are too many. *)
Touched(c, k, z) ==
  LET s   == strong[c]
      at  == {i \in DOMAIN s : s[i].key = k}
      i   == CHOOSE j \in at : TRUE
      all == IF at = {} THEN Append(s, z) ELSE Append(RemoveAt(s, i), s[i]) IN
  IF Len(all) > Bound(c) THEN Tail(all) ELSE all

Result(c, k, z) == [cache |-> c, key |-> k, zone |-> z]
Keeps(c, k, z)  == kept' = kept \cup {Result(c, k, z)}
MayKeep         == Cardinality(kept) < MaxKept

Init ==
  /\ use \in Uses
  /\ weak = [c \in Caches |-> [k \in Names |-> {}]]
  /\ strong = [c \in Caches |-> <<>>]
  /\ size = StrongSize
  /\ lock = {}
  /\ th = [t \in Threads |-> Idle]
  /\ kept = {}
  /\ cleared = {}
  /\ overlapped = {}

-----------------------------------------------------------------------------
(* gettz: what happens under its lock without leaving it is one step.         *)

(* Faulty: the lock is not given back. *)
GettzReturnsLocked(t, k, z, refs) ==
  /\ strong' = [strong EXCEPT !["gettz"] = Touched("gettz", k, z)]
  /\ Keeps("gettz", k, z)
  /\ th' = [th EXCEPT ![t] = Idle]
  /\ UNCHANGED lock
  /\ Collected(refs)

(* The end of a call that found or made a zone worth caching. *)
GettzReturns(t, k, z, refs) ==
  /\ strong' = [strong EXCEPT !["gettz"] = Touched("gettz", k, z)]
  /\ Keeps("gettz", k, z)
  /\ th' = [th EXCEPT ![t] = Idle]
  /\ lock' = {}
  /\ Collected(refs)

Calls(t) == th[t].pc = "idle" /\ MayKeep

GettzHit(t, k) ==
  /\ Calls(t) /\ lock = {} /\ weak["gettz"][k] # {}
  /\ \E z \in weak["gettz"][k] : GettzReturns(t, k, z, weak)
  /\ UNCHANGED <<size, cleared, overlapped>>

GettzFile(t, k) ==
  /\ Calls(t) /\ lock = {} /\ weak["gettz"][k] = {} /\ k \in Files
  /\ GettzReturns(t, k, New(k), [weak EXCEPT !["gettz"][k] = {New(k)}])
  /\ UNCHANGED <<size, cleared, overlapped>>

(* tzlocal depends on the environment and is not cached; None cannot be. *)
GettzUncached(t, k) ==
  /\ Calls(t) /\ lock = {} /\ k \in Locals \cup Unknown
  /\ kept' = IF k \in Unknown THEN kept ELSE kept \cup {Result("gettz", k, New(k))}
  /\ UNCHANGED <<weak, strong, size, lock, th, cleared, overlapped>>

(* nocache calls tzstr with gettz's lock taken; the zone is stored when it is back. *)
GettzRule(t, k) ==
  /\ Calls(t) /\ lock = {} /\ weak["gettz"][k] = {} /\ k \in Rules
  /\ lock' = {t}
  /\ th' = [th EXCEPT ![t] = [pc |-> "get", key |-> {k}, zone |-> {}, for |-> "gettz"]]
  /\ UNCHANGED <<weak, strong, size, kept, cleared, overlapped>>

GettzStore(t) ==
  /\ th[t].pc = "store"
  /\ \E k \in th[t].key, z \in th[t].zone :
       GettzReturns(t, k, z, [weak EXCEPT !["gettz"][k] = {z}])
  /\ UNCHANGED <<size, cleared, overlapped>>

(* Faulty: what does not fit is dropped from both dictionaries. *)
set_both_sizes(n) ==
  /\ lock = {} /\ n # size
  /\ size' = n
  /\ LET kept_ == SubSeq(strong["gettz"], Len(strong["gettz"]) - Min({n, Len(strong["gettz"])}) + 1,
                           Len(strong["gettz"])) IN
     /\ strong' = [strong EXCEPT !["gettz"] = kept_]
     /\ weak' = [weak EXCEPT !["gettz"] = [k \in Names |-> @[k] \cap Range(kept_)]]
  /\ UNCHANGED <<lock, th, kept, cleared, overlapped>>

set_cache_size(n) ==
  /\ lock = {} /\ n # size
  /\ size' = n
  /\ strong' = [strong EXCEPT !["gettz"] = SubSeq(@, Len(@) - Min({n, Len(@)}) + 1, Len(@))]
  /\ UNCHANGED <<lock, th, kept, cleared, overlapped>>
  /\ Collected(weak)

cache_clear ==
  /\ lock = {}
  /\ strong' = [strong EXCEPT !["gettz"] = <<>>]
  /\ cleared' = {r.zone : r \in kept}
  /\ UNCHANGED <<size, lock, th, kept, overlapped>>
  /\ Collected([weak EXCEPT !["gettz"] = [k \in Names |-> {}]])

-----------------------------------------------------------------------------
(* The factory of tzstr: the weak dictionary is used without a lock.          *)

At(t, pc) == th[t].pc = pc

FactoryCall(t, k) ==
  /\ Calls(t)
  /\ th' = [th EXCEPT ![t] = [pc |-> "get", key |-> {k}, zone |-> {}, for |-> "tzstr"]]
  /\ UNCHANGED <<weak, strong, size, lock, kept, cleared, overlapped>>

(* Another thread is between its look-up of the key and its end. *)
Together(t, k) == \E s \in Threads \ {t} : th[s].key = {k} /\ th[s].pc \in {"read", "write"}

FactoryGet(t) ==
  /\ At(t, "get")
  /\ \E k \in th[t].key :
       /\ th' = [th EXCEPT ![t].zone = IF weak["tzstr"][k] # {} THEN weak["tzstr"][k] ELSE {New(k)},
                           ![t].pc = IF weak["tzstr"][k] # {} THEN "strong" ELSE "read"]
       /\ overlapped' = overlapped \cup {j \in {k} : Together(t, j)}
  /\ UNCHANGED <<weak, strong, size, lock, kept, cleared>>

(* WeakValueDictionary.setdefault: it reads the entry, then it writes it. *)
FactoryRead(t) ==
  /\ At(t, "read")
  /\ \E k \in th[t].key :
       th' = [th EXCEPT ![t].zone = IF weak["tzstr"][k] # {} THEN weak["tzstr"][k] ELSE @,
                        ![t].pc = IF weak["tzstr"][k] # {} THEN "strong" ELSE "write"]
  /\ UNCHANGED <<weak, strong, size, lock, kept, cleared, overlapped>>

FactoryWrite(t) ==
  /\ At(t, "write")
  /\ \E k \in th[t].key : weak' = [weak EXCEPT !["tzstr"][k] = th[t].zone]
  /\ th' = [th EXCEPT ![t].pc = "strong"]
  /\ UNCHANGED <<strong, size, lock, kept, cleared, overlapped>>

FactoryStrong(t) ==
  /\ At(t, "strong")
  /\ \E k \in th[t].key, z \in th[t].zone :
       /\ strong' = [strong EXCEPT !["tzstr"] = Touched("tzstr", k, z)]
       /\ IF th[t].for = "tzstr"
          THEN th' = [th EXCEPT ![t] = Idle] /\ Keeps("tzstr", k, z)
          ELSE th' = [th EXCEPT ![t].pc = "store"] /\ UNCHANGED kept
  /\ UNCHANGED <<size, lock, cleared, overlapped>>
  /\ Collected(weak)

(* A caller forgets a zone. *)
Forget(r) ==
  /\ r \in kept
  /\ kept' = kept \ {r}
  /\ cleared' = cleared \cap {q.zone : q \in kept'}
  /\ UNCHANGED <<strong, size, lock, th, overlapped>>
  /\ Collected(weak)

Proceed(t) == FactoryGet(t) \/ FactoryRead(t) \/ FactoryWrite(t) \/ FactoryStrong(t) \/ GettzStore(t)
Next ==
  /\ UNCHANGED use
  /\ \/ \E t \in Threads :
          \/ Proceed(t)
          \/ \E k \in use.gettz : GettzHit(t, k) \/ GettzFile(t, k) \/ GettzUncached(t, k)
                                    \/ GettzRule(t, k)
          \/ \E k \in use.tzstr : FactoryCall(t, k)
     \/ use.gettz # {} /\ (cache_clear \/ \E n \in Sizes : set_cache_size(n))
     \/ \E r \in kept : Forget(r)

(* Who has called goes on. *)
Spec == Init /\ [][Next]_vars /\ \A t \in Threads : WF_vars(Proceed(t) /\ UNCHANGED use)

-----------------------------------------------------------------------------
Zones == [key : Names, n : Nat]
States == [pc : {"idle", "get", "read", "write", "strong", "store"},
           key : SUBSET Rules, zone : SUBSET Zones, for : {"none"} \cup Caches]

(* The type of the variables; what a strong cache keeps is within its size, and who
   has the lock of gettz is in a call of gettz that has not returned. *)
TypeOK ==
  /\ use \in Uses
  /\ weak \in [Caches -> [Names -> SUBSET Zones]]
  /\ strong \in [Caches -> Seq(Zones)] /\ \A c \in Caches : Len(strong[c]) <= Bound(c)
  /\ size \in Sizes \cup {StrongSize}
  /\ th \in [Threads -> States]
  /\ lock = {t \in Threads : th[t].for = "gettz"} /\ \A s, t \in lock : s = t
  /\ kept \subseteq [cache : Caches, key : Names, zone : Zones]
  /\ cleared \subseteq Zones /\ overlapped \subseteq Rules

(* There is one zone for a name or rule: two results that callers still have are the
   same object, whatever a strong cache dropped meanwhile; and what a strong cache
   keeps is what a look-up finds, otherwise it would be kept for nothing, and each call
   would make another.  Except in gettz (tz.py:1527) when the cache was cleared after
   the first, or for a tzlocal, which the documentation does not except; and in the
   factory, when two threads made the zone at a time. *)
Distinct(p, q) == p.cache = q.cache /\ p.key = q.key /\ p.zone # q.zone
SameResults ==
  \A p, q \in kept : Distinct(p, q) =>
    IF p.cache = "gettz" THEN p.key \in Locals \/ {p.zone, q.zone} \cap cleared # {}
    ELSE p.key \in overlapped
StrongIsFound ==
  \A c \in Caches : \A z \in Range(strong[c]) :
    weak[c][z.key] = {z} \/ (c = "tzstr" /\ z.key \in overlapped)
OneZonePerName == SameResults /\ StrongIsFound

(* Every call returns and leaves gettz's lock: gettz waits for tzstr with it taken,
   never the other way round. *)
CallsReturn ==
  \A t \in Threads :
    (th[t].pc # "idle" \/ t \in lock) ~> (th[t].pc = "idle" /\ t \notin lock)
=============================================================================
