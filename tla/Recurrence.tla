------------------------------ MODULE Recurrence ------------------------------
(***************************************************************************)
(* dateutil's rrulebase and rruleset (dateutil/rrule.py): iterators over a *)
(* rule, or over a set of rules and dates that is changed meanwhile, with  *)
(* the cache that iterators of different threads fill under a lock.        *)
(*                                                                         *)
(* A generator object is a record that has the generator (RRule) of every  *)
(* rule in it, and is advanced by one turn of its loops at a time.         *)
(*                                                                         *)
(* Nothing but the loop that fills the cache is under the lock.  A change  *)
(* of a set replaces the cache and the generator one after the other, and  *)
(* an iterator reads them one after the other; who has read keeps what it  *)
(* read.  A cache and a generator are named by the number of the change    *)
(* that made them, 0 for those that the set began with.                    *)
(***************************************************************************)
EXTENDS RRuleReference

CONSTANTS Readers,     \* iterators, each driven by a thread of its own
          Objects,     \* the rules and sets to begin with, who may read them, and
                       \* the dates that they may be given
          Chunk,       \* so many occurrences are cached at a time, 10 in the code
          MaxChanges   \* bound: changes of a set

VARIABLES obj,         \* the rule or the set; its lists of dates
          changes,     \* how many changes of it have begun
          change,      \* the next step of the one that goes on
          cacheNow,    \* _cache, the number of a cache
          genNow,      \* _cache_gen, the number of a generator object, {} for None
          gens,        \* number or reader -> generator object
          caches,      \* number -> list
          complete,    \* _cache_complete
          len,         \* _len, {} for None
          lock,        \* _cache_lock: {} or the reader that took it
          stolen,      \* whether a reader has released what another took
          rd           \* reader -> its iterator

vars == <<obj, changes, change, cacheNow, genNow, gens, caches, complete, len, lock, stolen, rd>>
theSet  == <<obj, changes, change>>
current == <<cacheNow, genNow>>

Epochs == 0..MaxChanges
Steps  == {"none", "cache", "flag", "gen", "check", "unlock", "len"}

(* The arguments of a rule: see NewRule. *)
Arguments ==
  [ freq : YEARLY..SECONDLY, dtstart : Int, interval : Nat \ {0}, wkst : 0..6,
    count : SUBSET Nat, until : SUBSET Int, byweekday : SUBSET ((0..6) \X Int),
    bysetpos : SUBSET Int, bymonth : SUBSET Int, bymonthday : SUBSET Int,
    byyearday : SUBSET Int, byeaster : SUBSET Int, byweekno : SUBSET Int,
    byhour : SUBSET Int, byminute : SUBSET Int, bysecond : SUBSET Int, empty : SUBSET STRING ]

ASSUME RecurrenceAssumption ==
  /\ Chunk \in Nat \ {0} /\ MaxChanges \in Nat
  /\ Readers \cap Epochs = {}
  /\ Objects \subseteq [isset : BOOLEAN, cached : BOOLEAN, readers : SUBSET Readers,
                        rules : Seq(Arguments), exrules : Seq(Arguments),
                        rdate : Seq(Int), exdate : Seq(Int),
                        additions : SUBSET ({"rdate", "exdate"} \X Int)]
  /\ \A o \in Objects : ~o.isset => o.additions = {} /\ (o.readers # {} => Len(o.rules) = 1)

-----------------------------------------------------------------------------
(* Generator objects: rrule._iter, and rruleset._iter with its _genitems.   *)

(* A _genitem over a list of dates: the date it is at, and how far its list
   iterator is; the list iterator sees later changes of the list until it ends. *)
FirstOf(list) == [dt |-> IF list = <<>> THEN {} ELSE {list[1]}, next |-> 2]
NextOf(item, list) ==
  IF item.next \in DOMAIN list THEN [dt |-> {list[item.next]}, next |-> item.next + 1]
  ELSE [dt |-> {}, next |-> item.next]

NewObject(o) ==
  [ started |-> FALSE, over |-> FALSE, caller |-> {},
    rules   |-> [k \in DOMAIN o.rules |-> NewGenerator(NewRule(o.rules[k]))],
    exrules |-> [k \in DOMAIN o.exrules |-> NewGenerator(NewRule(o.exrules[k]))],
    rdate   |-> FirstOf(<<>>), exdate |-> FirstOf(<<>>), last |-> {}, total |-> 0 ]

Unready(gs) == {k \in DOMAIN gs : gs[k].pending = <<>> /\ ~gs[k].done}
Failed(gs)  == \E k \in DOMAIN gs : gs[k].pending = <<>> /\ gs[k].raised
Heads(gs, item) == item.dt \cup {Head(gs[k].pending) : k \in {j \in DOMAIN gs : gs[j].pending # <<>>}}
Drop(gs, t) ==
  [k \in DOMAIN gs |-> IF gs[k].pending # <<>> /\ Head(gs[k].pending) = t
                       THEN [gs[k] EXCEPT !.pending = Tail(@)] ELSE gs[k]]

(* A turn: the object, what it yields, whether it stops, whether it raises. *)
Goes(s)     == [gen |-> s, yields |-> {}, stops |-> FALSE, raises |-> FALSE]
Yields(s, t) == [Goes(s) EXCEPT !.yields = {t}]
Stops(s)    == [Goes([s EXCEPT !.over = TRUE]) EXCEPT !.stops = TRUE]
Raises(s)   == [Goes([s EXCEPT !.over = TRUE]) EXCEPT !.raises = TRUE]

RuleTurn(s) ==
  LET g == s.rules[1] IN
  IF g.pending # <<>>
  THEN Yields([s EXCEPT !.rules[1].pending = Tail(@), !.total = @ + 1], Head(g.pending))
  ELSE IF g.raised THEN Raises(s) ELSE IF g.done THEN Stops(s)
  ELSE Goes([s EXCEPT !.rules[1] = Fill(g)])

(* The generator of a set sorts the lists, then merges: of what is equal to what
   was considered before nothing is yielded, nor of what the exclusions have. *)
SetTurn(s, o) ==
  LET dts  == Heads(s.rules, s.rdate)
      exs  == Heads(s.exrules, s.exdate)
      t    == Min(dts)
      past == {x \in exs : x < t} IN
  IF ~s.started
  THEN Goes([s EXCEPT !.started = TRUE, !.rdate = FirstOf(o.rdate), !.exdate = FirstOf(o.exdate)])
  ELSE IF Failed(s.rules) \/ Failed(s.exrules) THEN Raises(s)
  ELSE IF Unready(s.rules) # {}
  THEN LET k == Min(Unready(s.rules)) IN Goes([s EXCEPT !.rules[k] = Fill(s.rules[k])])
  ELSE IF Unready(s.exrules) # {}
  THEN LET k == Min(Unready(s.exrules)) IN Goes([s EXCEPT !.exrules[k] = Fill(s.exrules[k])])
  ELSE IF dts = {} THEN Stops(s)
  ELSE IF s.last = {t}
  THEN Goes([s EXCEPT !.rules = Drop(@, t),
                      !.rdate = IF @.dt = {t} THEN NextOf(@, o.rdate) ELSE @])
  ELSE IF past # {}
  THEN Goes([s EXCEPT !.exrules = Drop(@, Min(past)),
                      !.exdate = IF @.dt = {Min(past)} THEN NextOf(@, o.exdate) ELSE @])
  ELSE IF t \in exs THEN Goes([s EXCEPT !.last = {t}])
  ELSE Yields([s EXCEPT !.last = {t}, !.total = @ + 1], t)

(* next() of a generator object; one that has ended stops at once. *)
Turn(s, o) ==
  IF s.over THEN Stops(s) ELSE IF o.isset THEN SetTurn(s, o) ELSE RuleTurn(s)

(* Its first turn sorts the lists of dates in place, its last one sets _len. *)
Sorted(s, o) ==
  IF s.started \/ s.over \/ ~o.isset THEN o
  ELSE [o EXCEPT !.rdate = SortSeq(@, <), !.exdate = SortSeq(@, <)]
LenAfter(s, turn) == IF turn.stops /\ ~s.over THEN {s.total} ELSE len

-----------------------------------------------------------------------------
NewReader == [pc |-> "idle", since |-> 0, gen |-> {}, of |-> 0, i |-> 0, j |-> 0,
              got |-> {}, out |-> <<>>]

(* No generator object has begun: what it is does not depend on the lists of dates,
   which it reads on its first turn, so that a change has only to take the next. *)
Init ==
  /\ obj \in Objects
  /\ changes = 0 /\ change = "none"
  /\ cacheNow = 0 /\ genNow = {0}
  /\ gens = [x \in Epochs \cup Readers |-> NewObject(obj)]
  /\ caches = [e \in Epochs |-> <<>>]
  /\ complete = FALSE /\ len = {} /\ lock = {} /\ stolen = FALSE
  /\ rd = [r \in Readers |-> NewReader]

To(r, pc) == rd' = [rd EXCEPT ![r].pc = pc]
Yield(r, t, pc) == rd' = [rd EXCEPT ![r].pc = pc, ![r].i = @ + 1, ![r].out = Append(@, t)]

(* __iter__ looks at _cache_complete.  `since` is the last change that had ended. *)
Iter(r) ==
  /\ rd[r].pc = "idle" /\ r \in obj.readers
  /\ rd' = [rd EXCEPT ![r].since = IF change = "none" THEN changes ELSE changes - 1,
                      ![r].pc = IF complete THEN "taking" ELSE IF obj.cached THEN "new" ELSE "own"]
  /\ UNCHANGED <<theSet, current, gens, caches, complete, len, lock, stolen>>

(* iter(self._cache), whatever _cache is by now. *)
TakeList(r) ==
  /\ rd[r].pc = "taking"
  /\ rd' = [rd EXCEPT ![r].of = cacheNow, ![r].pc = "list"]
  /\ UNCHANGED <<theSet, current, gens, caches, complete, len, lock, stolen>>

(* The next date of a list that is complete. *)
NextOfList(r) ==
  LET cache == caches[rd[r].of] IN
  /\ rd[r].pc = "list"
  /\ IF rd[r].i < Len(cache) THEN Yield(r, cache[rd[r].i + 1], "list") ELSE To(r, "ended")
  /\ UNCHANGED <<theSet, current, gens, caches, complete, len, lock, stolen>>

(* Without a cache every iterator has its own generator. *)
NextOfOwn(r) ==
  LET s == gens[r] IN
  /\ rd[r].pc = "own"
  /\ obj' = Sorted(s, obj)
  /\ \E turn \in {Turn(s, Sorted(s, obj))} :
       /\ gens' = [gens EXCEPT ![r] = turn.gen]
       /\ len' = LenAfter(s, turn)
       /\ IF turn.stops THEN To(r, "ended") ELSE IF turn.raises THEN To(r, "raised")
          ELSE \/ turn.yields = {} /\ UNCHANGED rd
               \/ \E t \in turn.yields : Yield(r, t, "own")
  /\ UNCHANGED <<changes, change, current, caches, complete, lock, stolen>>

(* _iter_cached begins with its first next(): it reads _cache_gen, then _cache. *)
Begin(r) ==
  /\ rd[r].pc = "new"
  /\ rd' = [rd EXCEPT ![r].gen = genNow, ![r].pc = "begun"]
  /\ UNCHANGED <<theSet, current, gens, caches, complete, len, lock, stolen>>
TakeCache(r) ==
  /\ rd[r].pc = "begun"
  /\ rd' = [rd EXCEPT ![r].of = cacheNow, ![r].pc = IF rd[r].gen = {} THEN "tail" ELSE "cached"]
  /\ UNCHANGED <<theSet, current, gens, caches, complete, len, lock, stolen>>

(* What is cached is yielded, more is cached under the lock. *)
NextOfCache(r) ==
  LET cache == caches[rd[r].of] IN
  /\ rd[r].pc = "cached"
  /\ IF rd[r].i = Len(cache) THEN To(r, "waiting") ELSE Yield(r, cache[rd[r].i + 1], "cached")
  /\ UNCHANGED <<theSet, current, gens, caches, complete, len, lock, stolen>>

AcquireAnyway(r) ==   \* faulty: the lock is not waited for
  /\ rd[r].pc = "waiting"
  /\ lock' = {r} /\ To(r, "holding")
  /\ UNCHANGED <<theSet, current, gens, caches, complete, len, stolen>>
Acquire(r) ==
  /\ rd[r].pc = "waiting" /\ lock = {}
  /\ lock' = {r} /\ To(r, "holding")
  /\ UNCHANGED <<theSet, current, gens, caches, complete, len, stolen>>

FillCounting(r) ==   \* faulty: the count of the last chunk is kept
  /\ rd[r].pc = "holding"
  /\ To(r, IF complete THEN "tail" ELSE "filling")
  /\ UNCHANGED <<theSet, current, gens, caches, complete, len, lock, stolen>>
(* Who finds the cache complete leaves the loop, and does not release. *)
StartFill(r) ==
  /\ rd[r].pc = "holding"
  /\ IF complete THEN To(r, "tail") ELSE rd' = [rd EXCEPT ![r].pc = "filling", ![r].j = 0]
  /\ UNCHANGED <<theSet, current, gens, caches, complete, len, lock, stolen>>

(* A generator that another thread is in cannot be advanced: ValueError. *)
Busy(r) == \E n \in rd[r].gen : gens[n].caller \notin {{}, {r}}
CacheBusy(r) ==
  /\ rd[r].pc = "filling" /\ Busy(r)
  /\ To(r, "raised")
  /\ UNCHANGED <<theSet, current, gens, caches, complete, len, lock, stolen>>

(* A turn of the generator of this iterator. *)
CacheTurn(r) ==
  /\ rd[r].pc = "filling" /\ ~Busy(r)
  /\ \E n \in rd[r].gen :
     LET s == gens[n] IN
     /\ obj' = Sorted(s, obj)
     /\ \E turn \in {Turn(s, Sorted(s, obj))} :
          LET inside == turn.yields = {} /\ ~turn.stops /\ ~turn.raises IN
          /\ gens' = [gens EXCEPT ![n] = [turn.gen EXCEPT !.caller = IF inside THEN {r} ELSE {}]]
          /\ len' = LenAfter(s, turn)
          /\ rd' = [rd EXCEPT ![r].got = turn.yields,
                              ![r].pc = IF turn.stops THEN "over" ELSE IF turn.raises THEN "raised"
                                        ELSE IF inside THEN "filling" ELSE "appending"]
  /\ UNCHANGED <<changes, change, current, caches, complete, lock, stolen>>

(* What the generator gave is appended to the cache of this iterator. *)
CacheAppend(r) ==
  /\ rd[r].pc = "appending"
  /\ \E t \in rd[r].got : caches' = [caches EXCEPT ![rd[r].of] = Append(@, t)]
  /\ rd' = [rd EXCEPT ![r].got = {}, ![r].j = @ + 1,
                      ![r].pc = IF rd[r].j + 1 = Chunk THEN "releasing" ELSE "filling"]
  /\ UNCHANGED <<theSet, current, gens, complete, len, lock, stolen>>

(* StopIteration: _cache_gen is None, then the cache is complete; not released. *)
DropGen(r) ==
  /\ rd[r].pc = "over"
  /\ genNow' = {} /\ rd' = [rd EXCEPT ![r].gen = {}, ![r].pc = "closing"]
  /\ UNCHANGED <<theSet, cacheNow, gens, caches, complete, len, lock, stolen>>
Complete(r) ==
  /\ rd[r].pc = "closing"
  /\ complete' = TRUE /\ To(r, "tail")
  /\ UNCHANGED <<theSet, current, gens, caches, len, lock, stolen>>

(* Faulty: what was cached last is yielded, by whoever cached it. *)
ReleaseLast(r) ==
  /\ rd[r].pc = "releasing"
  /\ lock' = {} /\ stolen' = (stolen \/ lock \notin {{}, {r}})
  /\ IF lock = {} THEN To(r, "raised")
     ELSE Yield(r, Last(caches[rd[r].of]), "cached")
  /\ UNCHANGED <<theSet, current, gens, caches, complete, len>>
ReleaseForgotten(r) ==
  /\ rd[r].pc = "releasing"
  /\ Yield(r, caches[rd[r].of][rd[r].i + 1], "cached")
  /\ UNCHANGED <<theSet, current, gens, caches, complete, len, lock, stolen>>
(* Whoever has it, the lock is released; a change of the set may have done so
   before: RuntimeError. *)
Release(r) ==
  /\ rd[r].pc = "releasing"
  /\ lock' = {} /\ stolen' = (stolen \/ lock \notin {{}, {r}})
  /\ IF lock = {} THEN To(r, "raised")
     ELSE Yield(r, caches[rd[r].of][rd[r].i + 1], "cached")
  /\ UNCHANGED <<theSet, current, gens, caches, complete, len>>

(* The last loop, up to _len: TypeError if that is None, IndexError if it is more
   than there is. *)
NextOfTail(r) ==
  LET cache == caches[rd[r].of] IN
  /\ rd[r].pc = "tail"
  /\ IF len = {} \/ rd[r].i \in Len(cache) .. Max(len \cup {0}) - 1 THEN To(r, "raised")
     ELSE IF rd[r].i < Max(len) THEN Yield(r, cache[rd[r].i + 1], "tail") ELSE To(r, "ended")
  /\ UNCHANGED <<theSet, current, gens, caches, complete, len, lock, stolen>>

-----------------------------------------------------------------------------
(* A change of a set, by the one thread that makes them: the date is appended, and
   _invalidate_cache, of whose steps none is under the lock.                  *)

Change(list, t) ==
  /\ <<list, t>> \in obj.additions /\ change = "none" /\ changes < MaxChanges
  /\ obj' = [obj EXCEPT ![list] = Append(@, t)] /\ changes' = changes + 1
  /\ change' = IF obj.cached THEN "cache" ELSE "len"
  /\ UNCHANGED <<current, gens, caches, complete, len, lock, stolen, rd>>
Rdate(t)  == Change("rdate", t)
Exdate(t) == Change("exdate", t)

NewCache ==
  /\ change = "cache" /\ change' = "flag"
  /\ cacheNow' = changes
  /\ UNCHANGED <<obj, changes, genNow, gens, caches, complete, len, lock, stolen, rd>>
Incomplete ==
  /\ change = "flag" /\ change' = "gen"
  /\ complete' = FALSE
  /\ UNCHANGED <<obj, changes, current, gens, caches, len, lock, stolen, rd>>
OldGen ==   \* faulty: the generator is kept
  /\ change = "gen" /\ change' = "check"
  /\ UNCHANGED <<obj, changes, current, gens, caches, complete, len, lock, stolen, rd>>
NewGen ==
  /\ change = "gen" /\ change' = "check"
  /\ genNow' = {changes}
  /\ UNCHANGED <<obj, changes, cacheNow, gens, caches, complete, len, lock, stolen, rd>>

(* The lock is released if it was found taken, by whomever; if it is not taken any
   more this raises, and _len is left. *)
CheckLock ==
  /\ change = "check" /\ change' = IF lock = {} THEN "len" ELSE "unlock"
  /\ UNCHANGED <<obj, changes, current, gens, caches, complete, len, lock, stolen, rd>>
Unlock ==
  /\ change = "unlock" /\ change' = IF lock = {} THEN "none" ELSE "len"
  /\ lock' = {}
  /\ UNCHANGED <<obj, changes, current, gens, caches, complete, len, stolen, rd>>
ForgetLen ==
  /\ change = "len" /\ change' = "none"
  /\ len' = {}
  /\ UNCHANGED <<obj, changes, current, gens, caches, complete, lock, stolen, rd>>

Invalidate == NewCache \/ Incomplete \/ NewGen \/ CheckLock \/ Unlock \/ ForgetLen

Read(r) ==
  \/ TakeList(r) \/ NextOfList(r) \/ NextOfOwn(r)
  \/ Begin(r) \/ TakeCache(r) \/ NextOfCache(r) \/ Acquire(r) \/ StartFill(r)
  \/ CacheBusy(r) \/ CacheTurn(r) \/ CacheAppend(r) \/ DropGen(r) \/ Complete(r)
  \/ Release(r) \/ NextOfTail(r)

Next ==
  \/ \E r \in Readers : Iter(r) \/ Read(r)
  \/ \E a \in obj.additions : Rdate(a[2]) \/ Exdate(a[2])
  \/ Invalidate

(* Who has begun to read reads on; nobody has to begin, or to change a set.  This
   is WF_vars(Read(r)), with its ENABLED spelled out. *)
CanRead(r) == /\ rd[r].pc \notin {"idle", "ended", "raised"}
              /\ rd[r].pc = "waiting" => lock = {}
Fairness == \A r \in Readers : []<>~CanRead(r) \/ []<><<Read(r)>>_vars
Spec == Init /\ [][Next]_vars /\ Fairness

-----------------------------------------------------------------------------
(* What an object stands for. *)

Horizon == Time(NewYear(MaxYear + 1), 0) - 1
RuleTimes(a) == Recurrences(a, Min(a.until \cup {Horizon}))
AllTimes(rules) == UNION {RuleTimes(rules[k]) : k \in DOMAIN rules}
Expected(o) ==
  (AllTimes(o.rules) \cup ToSet(o.rdate)) \ (AllTimes(o.exrules) \cup ToSet(o.exdate))
InOrder(times, set) ==
  ToSet(times) = set /\ \A k \in 2 .. Len(times) : times[k - 1] < times[k]

(* Rules that the generator reads in another way than RFC 5545 (see README). *)
MixedWeekdays(a) == /\ a.freq <= MONTHLY
                    /\ {0} \subseteq {w[2] : w \in a.byweekday} /\ {0} # {w[2] : w \in a.byweekday}
LastWeeks(a)     == a.byweekno \cap {-53, -52, 52, 53} # {}
CutWeek(a)       == a.freq = WEEKLY /\ a.bysetpos # {} /\ Weekday(DayOf(a.dtstart)) # a.wkst
Known(o) == \A k \in DOMAIN o.rules : LET a == o.rules[k] IN
              a.empty = {} /\ ~MixedWeekdays(a) /\ ~LastWeeks(a) /\ ~CutWeek(a)

(* Iterators that began before a change of the set had ended. *)
Outdated == {r \in Readers : rd[r].pc # "idle" /\ rd[r].since < changes}
HasRead(r) == rd[r].pc = "ended" /\ r \notin Outdated

(* The types of the variables; who is about to release the lock has found more to
   yield, and an iterator has counted what it has yielded. *)
TypeOK ==
  /\ changes \in Epochs /\ change \in Steps /\ complete \in BOOLEAN /\ stolen \in BOOLEAN
  /\ cacheNow \in Epochs /\ genNow \in {{}} \cup {{n} : n \in Epochs}
  /\ lock \in {{}} \cup {{r} : r \in Readers}
  /\ \A r \in Readers :
       /\ rd[r].of \in Epochs /\ rd[r].gen \in {{}} \cup {{n} : n \in Epochs}
       /\ rd[r].since \in Epochs /\ rd[r].j \in 0..Chunk /\ rd[r].i = Len(rd[r].out)
       /\ rd[r].pc = "releasing" => rd[r].i < Len(caches[rd[r].of])

(* Who reads a cache has yielded what it begins with: iterators of different threads
   agree on the occurrences, whoever of them cached which, while others fail, a
   chunk is incomplete, or the set is given another cache. *)
ReadsAgree ==
  obj.cached => \A r \in Readers : IsPrefix(rd[r].out, caches[rd[r].of])

(* A plain rule, read to its end, has given the recurrences that RFC 5545 means (the
   masks, the walk from period to period and the positions of _iter), and a set what
   its rules and dates include and do not exclude, each time once and in order,
   whoever else read it meanwhile; of a cached set only while no iterator that a
   change has overtaken shares the flag, the lock and _len with it. *)
ReadsAreExact ==
  \A r \in Readers : HasRead(r) =>
    \/ IF obj.isset THEN obj.cached /\ Outdated # {} ELSE ~Known(obj)
    \/ InOrder(rd[r].out, Expected(obj))

(* The documentation of byweekno (rrule.py:399-402): week numbers are those of
   ISO 8601, where weeks start on Mondays.  No exception for the last weeks. *)
WeekNumbersAreIso ==
  \A r \in Readers : HasRead(r) /\ ~obj.isset =>
    \A a \in ToSet(obj.rules) : a.byweekno # {} /\ a.wkst = 0 => InOrder(rd[r].out, Expected(obj))

(* When a generator ends, _len is the number of all recurrences, and when a cache is
   marked complete, that is what is in it: unless this is done by an iterator that a
   change has overtaken, or such a one shares the cache - it began within the change
   and may fill the new cache from the old generator - or has released the lock of
   another. *)
WholeWhenComplete ==
  [][Known(obj) =>
       /\ len' \notin {len, {}} =>
            \/ len' = {Cardinality(Expected(obj'))}
            \/ \E r \in Outdated : rd'[r] # rd[r]
       /\ complete' # complete /\ complete' =>
            \/ InOrder(caches'[cacheNow], Expected(obj))
            \/ \E r \in Outdated : rd'[r] # rd[r] \/ rd[r].of = cacheNow
            \/ stolen]_vars

(* An iterator fails only where a set with a cache was changed under an iterator, or
   a rule cannot be continued. *)
FailuresHaveCause ==
  \A r \in Readers : rd[r].pc = "raised" =>
    \/ obj.cached /\ Outdated # {}
    \/ \E x \in DOMAIN gens : \/ \E k \in DOMAIN gens[x].rules : gens[x].rules[k].raised
                             \/ \E k \in DOMAIN gens[x].exrules : gens[x].exrules[k].raised

(* An iteration ends, or fails, or waits for a lock that will never be released:
   whoever found the cache complete, or failed, holds it. *)
IterationsEnd ==
  \A r \in Readers : rd[r].pc # "idle" ~>
    \/ rd[r].pc \in {"ended", "raised"}
    \/ rd[r].pc = "waiting" /\ \E h \in lock : rd[h].pc \in {"tail", "ended", "raised"}
=============================================================================
