------------------------------ MODULE DatesProofs ------------------------------
(***************************************************************************)
(* Recurrences and relative deltas.                                        *)
(*                                                                         *)
(* For any rules and sets, any number of iterators and of changes, and     *)
(* chunks of any size: the protocol of _iter_cached between the iterators, *)
(* the lock, the cache and its generator.  Nothing is said of the          *)
(* occurrences themselves: what Fill computes is left to the runs.         *)
(*                                                                         *)
(* For all datetimes there are, any deltas and any number of operations:   *)
(* the calendar, what overflows between the fields of a delta, and that    *)
(* the difference of two datetimes leads from the one to the other.        *)
(***************************************************************************)
EXTENDS Recurrence, RelativeDelta, TLAPS, SequenceTheorems

Ids      == Epochs \cup Readers
Listed(s) == \E S : s \in Seq(S)
RaisedIn(s) == \/ \E k \in DOMAIN s.rules : s.rules[k].raised
               \/ \E k \in DOMAIN s.exrules : s.exrules[k].raised

ObjectFields ==
  {"started", "over", "caller", "rules", "exrules", "rdate", "exdate", "last", "total"}
Fields == {"isset", "cached", "readers", "rules", "exrules", "rdate", "exdate", "additions"}
ReaderFields == {"pc", "since", "gen", "of", "i", "j", "got", "out"}

(* Where an iterator of a cache is, and one that has its own generator; where it has
   the lock, unless a change has released it; and before it has read _cache. *)
Cached == {"idle", "taking", "list", "new", "begun", "cached", "waiting", "holding", "filling",
           "appending", "over", "closing", "releasing", "tail", "ended", "raised"}
Alone  == {"idle", "own", "ended", "raised"}
Holders == {"holding", "filling", "appending", "over", "closing", "releasing"}
Unread == {"idle", "taking", "new", "begun"}
Numbers == {{}} \cup {{n} : n \in 0..changes}

(* The shape of the variables; the rules of a generator object are those of the set. *)
ObjInv ==
  /\ DOMAIN obj = Fields /\ obj.isset \in BOOLEAN /\ obj.cached \in BOOLEAN
  /\ obj.readers \subseteq Readers
  /\ ~obj.isset /\ obj.readers # {} => 1 \in DOMAIN obj.rules
GensInv ==
  /\ DOMAIN gens = Ids
  /\ \A x \in Ids : /\ DOMAIN gens[x] = ObjectFields /\ DOMAIN gens[x].rules = DOMAIN obj.rules
                    /\ gens[x].over \in BOOLEAN /\ gens[x].total \in Nat
CachesInv == DOMAIN caches = Epochs /\ \A e \in Epochs : Listed(caches[e])
ReadersInv ==
  /\ DOMAIN rd = Readers
  /\ \A r \in Readers :
       /\ DOMAIN rd[r] = ReaderFields
       /\ rd[r].pc \in IF obj.cached THEN Cached ELSE Alone
       /\ rd[r].pc # "idle" => obj.readers # {}
       /\ rd[r].of \in 0..changes /\ rd[r].since \in 0..changes /\ rd[r].gen \in Numbers
       /\ rd[r].j \in 0..Chunk /\ Listed(rd[r].out) /\ rd[r].i = Len(rd[r].out)
       /\ rd[r].pc \in Unread => rd[r].out = <<>>
       /\ rd[r].pc \in Unread \ {"begun"} => rd[r].gen = {}
Shapes ==
  /\ changes \in Epochs /\ complete \in BOOLEAN /\ stolen \in BOOLEAN
  /\ cacheNow \in 0..changes /\ genNow \in Numbers
  /\ lock \in {{}} \cup {{r} : r \in Readers}
  /\ len = {} \/ \E n \in Nat : len = {n}
  /\ ~obj.cached => ~complete
  /\ ObjInv /\ GensInv /\ CachesInv /\ ReadersInv

(* An iterator of a cache has yielded what it begins with, and while it fills the
   cache this grows by what it has counted. *)
PrefixInv ==
  obj.cached => \A r \in Readers :
    /\ rd[r].i <= Len(caches[rd[r].of])
    /\ \A k \in 1 .. rd[r].i : rd[r].out[k] = caches[rd[r].of][k]
    /\ rd[r].pc \in {"filling", "appending"} =>
         rd[r].j < Chunk /\ rd[r].i + rd[r].j <= Len(caches[rd[r].of])
    /\ rd[r].pc = "releasing" => rd[r].i < Len(caches[rd[r].of])

(* A generator is only within one iterator, which is filling its cache. *)
CallerInv ==
  \A n \in Epochs :
    /\ gens[n].caller \subseteq {r \in Readers : rd[r].pc = "filling" /\ rd[r].gen = {n}}
    /\ \A q, r \in gens[n].caller : q = r

(* How far a change of the set has come. *)
ChangeInv ==
  /\ change \in IF obj.cached THEN Steps ELSE {"none", "len"}
  /\ change # "none" => changes > 0
  /\ obj.cached /\ change # "cache" => cacheNow = changes
  /\ obj.cached /\ change \notin {"cache", "flag", "gen"} => genNow \subseteq {changes}

(* Before anybody has read, a change has nothing to invalidate. *)
IdleInv ==
  (\A r \in Readers : rd[r].pc = "idle") =>
    /\ ~complete /\ genNow # {}
    /\ \A e \in Epochs : caches[e] = <<>> /\ gens[e].total = 0 /\ ~gens[e].over

(* An iterator, where no change has overtaken any: it reads the present cache, it
   fills that under the lock, and leaves the loop when the generator is over. *)
Sound(r) ==
  /\ rd[r].pc \notin Unread => rd[r].of = changes
  /\ rd[r].gen \subseteq {changes}
  /\ rd[r].pc \in Holders => lock = {r}
  /\ rd[r].pc \in {"over", "closing", "tail"} => gens[changes].over
  /\ rd[r].pc = "begun" /\ rd[r].gen = {} => gens[changes].over
  /\ rd[r].pc = "appending" =>
       ~gens[changes].over /\ gens[changes].total = Len(caches[changes]) + 1
FlowInv ==
  obj.cached /\ Outdated = {} =>
    /\ \A r \in Readers : rd[r].pc # "idle" => change = "none" /\ Sound(r)
    /\ (\A r \in Readers : rd[r].pc # "appending") => gens[changes].total = Len(caches[changes])
    /\ gens[changes].over => len = {gens[changes].total} \/ RaisedIn(gens[changes])
    /\ complete \/ genNow = {} => gens[changes].over

FailInv ==
  \A r \in Readers : rd[r].pc = "raised" =>
    \/ obj.cached /\ Outdated # {}
    \/ \E x \in Ids : gens[x].over /\ RaisedIn(gens[x])

IInv == Shapes /\ PrefixInv /\ CallerInv /\ ChangeInv /\ IdleInv /\ FlowInv /\ FailInv

-----------------------------------------------------------------------------
(* Sequences whose elements nothing is known of.                              *)

LEMMA ListedIs == ASSUME NEW s, Listed(s)
                  PROVE  Len(s) \in Nat /\ DOMAIN s = 1 .. Len(s)
BY LenProperties DEF Listed

LEMMA AppendListed ==
  ASSUME NEW s, Listed(s), NEW e
  PROVE  /\ Listed(Append(s, e)) /\ Len(Append(s, e)) = Len(s) + 1
         /\ \A k \in 1 .. Len(s) : Append(s, e)[k] = s[k]
         /\ Append(s, e)[Len(s) + 1] = e
<1>1. PICK S : s \in Seq(S)
  BY DEF Listed
<1>2. s \in Seq(S \cup {e}) /\ e \in S \cup {e}
  BY <1>1, ElementOfSeq, SeqDef
<1> DEFINE T == S \cup {e}
<1> HIDE DEF T
<1>3. s \in Seq(T) /\ e \in T
  BY <1>2 DEF T
<1>. QED
  BY <1>3, AppendProperties DEF Listed

LEMMA EmptyIs == Listed(<<>>) /\ Len(<<>>) = 0
<1>1. <<>> \in Seq({})
  OBVIOUS
<1>. QED
  BY <1>1 DEF Listed

-----------------------------------------------------------------------------
(* A turn of a generator object.                                              *)

LEMMA NewObjectIs ==
  ASSUME NEW o
  PROVE  /\ DOMAIN NewObject(o) = ObjectFields /\ DOMAIN NewObject(o).rules = DOMAIN o.rules
         /\ NewObject(o).total = 0 /\ NewObject(o).caller = {}
         /\ NewObject(o).over = FALSE /\ NewObject(o).over \in BOOLEAN
BY DEF NewObject, ObjectFields

TurnOK(s, turn) ==
  /\ DOMAIN turn.gen = ObjectFields /\ DOMAIN turn.gen.rules = DOMAIN s.rules
  /\ turn.stops \in BOOLEAN /\ turn.raises \in BOOLEAN
  /\ \/ turn.yields = {} /\ turn.gen.total = s.total
     \/ /\ \E t : turn.yields = {t}
        /\ turn.gen.total = s.total + 1 /\ ~turn.stops /\ ~turn.raises
  /\ turn.gen.over = (turn.stops \/ turn.raises)
  /\ turn.stops => ~turn.raises
  /\ turn.raises => RaisedIn(turn.gen)
  /\ s.over => turn.stops /\ turn.gen = [s EXCEPT !.over = TRUE]

LEMMA GoesOn ==
  ASSUME NEW s, NEW g, DOMAIN g = ObjectFields, DOMAIN g.rules = DOMAIN s.rules,
         s.over = FALSE, g.over = FALSE
  PROVE  /\ g.total = s.total => TurnOK(s, Goes(g))
         /\ \A t : g.total = s.total + 1 => TurnOK(s, Yields(g, t))
BY DEF TurnOK, Goes, Yields

LEMMA EndsWith ==
  ASSUME NEW s, DOMAIN s = ObjectFields
  PROVE  /\ TurnOK(s, Stops(s))
         /\ s.over = FALSE /\ RaisedIn(s) => TurnOK(s, Raises(s))
<1> DEFINE g == [s EXCEPT !.over = TRUE]
<1>1. /\ DOMAIN g = ObjectFields /\ g.over = TRUE /\ g.total = s.total
      /\ g.rules = s.rules /\ g.exrules = s.exrules
  BY DEF ObjectFields
<1>2. RaisedIn(s) => RaisedIn(g)
  BY <1>1 DEF RaisedIn
<1> HIDE DEF g
<1>3. Stops(s) = [Goes(g) EXCEPT !.stops = TRUE] /\ Raises(s) = [Goes(g) EXCEPT !.raises = TRUE]
  BY DEF Stops, Raises, g
<1>4. /\ Stops(s).gen = g /\ Stops(s).yields = {} /\ Stops(s).stops = TRUE /\ Stops(s).raises = FALSE
      /\ Raises(s).gen = g /\ Raises(s).yields = {} /\ Raises(s).stops = FALSE /\ Raises(s).raises = TRUE
  BY <1>3 DEF Goes
<1>5. TurnOK(s, Stops(s))
  BY <1>1, <1>4 DEF TurnOK, g
<1>6. s.over = FALSE /\ RaisedIn(s) => TurnOK(s, Raises(s))
  BY <1>1, <1>2, <1>4 DEF TurnOK
<1>. QED
  BY <1>5, <1>6

LEMMA RuleTurnIs ==
  ASSUME NEW s, DOMAIN s = ObjectFields, s.over = FALSE, 1 \in DOMAIN s.rules
  PROVE  TurnOK(s, RuleTurn(s))
<1> DEFINE g == s.rules[1]
           read == [s EXCEPT !.rules[1].pending = Tail(@), !.total = @ + 1]
           filled == [s EXCEPT !.rules[1] = Fill(g)]
<1>1. RuleTurn(s) = IF g.pending # <<>> THEN Yields(read, Head(g.pending))
                    ELSE IF g.raised THEN Raises(s) ELSE IF g.done THEN Stops(s) ELSE Goes(filled)
  BY DEF RuleTurn
<1>2. /\ DOMAIN read = ObjectFields /\ DOMAIN read.rules = DOMAIN s.rules
      /\ read.over = FALSE /\ read.total = s.total + 1
  BY DEF ObjectFields
<1>3. /\ DOMAIN filled = ObjectFields /\ DOMAIN filled.rules = DOMAIN s.rules
      /\ filled.over = FALSE /\ filled.total = s.total
  BY DEF ObjectFields
<1>4. g.raised => RaisedIn(s)
  BY DEF RaisedIn
<1> HIDE DEF read, filled, g
<1>5. TurnOK(s, Yields(read, Head(g.pending))) /\ TurnOK(s, Goes(filled)) /\ TurnOK(s, Stops(s))
  BY <1>2, <1>3, GoesOn, EndsWith
<1>6. g.raised => TurnOK(s, Raises(s))
  BY <1>4, EndsWith
<1>. QED
  BY <1>1, <1>5, <1>6

LEMMA DropIs == ASSUME NEW gs, NEW t PROVE DOMAIN Drop(gs, t) = DOMAIN gs
BY DEF Drop

LEMMA SetTurnIs ==
  ASSUME NEW s, NEW o, DOMAIN s = ObjectFields, s.over = FALSE
  PROVE  TurnOK(s, SetTurn(s, o))
<1> DEFINE dts  == Heads(s.rules, s.rdate)
           exs  == Heads(s.exrules, s.exdate)
           t    == Min(dts)
           past == {x \in exs : x < t}
           sorted == [s EXCEPT !.started = TRUE, !.rdate = FirstOf(o.rdate), !.exdate = FirstOf(o.exdate)]
           k == Min(Unready(s.rules))
           l == Min(Unready(s.exrules))
           ruled == [s EXCEPT !.rules[k] = Fill(s.rules[k])]
           excluded == [s EXCEPT !.exrules[l] = Fill(s.exrules[l])]
           again == [s EXCEPT !.rules = Drop(@, t),
                              !.rdate = IF @.dt = {t} THEN NextOf(@, o.rdate) ELSE @]
           passed == [s EXCEPT !.exrules = Drop(@, Min(past)),
                               !.exdate = IF @.dt = {Min(past)} THEN NextOf(@, o.exdate) ELSE @]
           left == [s EXCEPT !.last = {t}]
           given == [s EXCEPT !.last = {t}, !.total = @ + 1]
<1>1. SetTurn(s, o) =
        IF ~s.started THEN Goes(sorted)
        ELSE IF Failed(s.rules) \/ Failed(s.exrules) THEN Raises(s)
        ELSE IF Unready(s.rules) # {} THEN Goes(ruled)
        ELSE IF Unready(s.exrules) # {} THEN Goes(excluded)
        ELSE IF dts = {} THEN Stops(s)
        ELSE IF s.last = {t} THEN Goes(again)
        ELSE IF past # {} THEN Goes(passed)
        ELSE IF t \in exs THEN Goes(left)
        ELSE Yields(given, t)
  BY DEF SetTurn
<1>2. \A g \in {sorted, ruled, excluded, left} :
        DOMAIN g = ObjectFields /\ DOMAIN g.rules = DOMAIN s.rules /\ g.over = FALSE /\ g.total = s.total
  BY DEF ObjectFields
<1>3. /\ DOMAIN passed = ObjectFields /\ DOMAIN passed.rules = DOMAIN s.rules
      /\ passed.over = FALSE /\ passed.total = s.total
  BY DEF ObjectFields
<1>4. DOMAIN again = ObjectFields /\ DOMAIN again.rules = DOMAIN s.rules
      /\ again.over = FALSE /\ again.total = s.total
  BY DropIs DEF ObjectFields
<1>5. /\ DOMAIN given = ObjectFields /\ DOMAIN given.rules = DOMAIN s.rules
      /\ given.over = FALSE /\ given.total = s.total + 1
  BY DEF ObjectFields
<1>6. Failed(s.rules) \/ Failed(s.exrules) => RaisedIn(s)
  BY DEF Failed, RaisedIn
<1> HIDE DEF dts, exs, t, past, sorted, k, l, ruled, excluded, again, passed, left, given
<1>7. \A g \in {sorted, ruled, excluded, passed, left, again} : TurnOK(s, Goes(g))
  BY <1>2, <1>4, <1>3, GoesOn
<1>8. TurnOK(s, Yields(given, t)) /\ TurnOK(s, Stops(s))
  BY <1>5, GoesOn, EndsWith
<1>9. Failed(s.rules) \/ Failed(s.exrules) => TurnOK(s, Raises(s))
  BY <1>6, EndsWith
<1>. QED
  BY <1>1, <1>7, <1>8, <1>9

LEMMA TurnIs ==
  ASSUME NEW s, NEW o, DOMAIN s = ObjectFields, s.over \in BOOLEAN,
         ~o.isset => 1 \in DOMAIN s.rules
  PROVE  TurnOK(s, Turn(s, o))
<1>1. CASE s.over
  BY <1>1, EndsWith DEF Turn
<1>2. CASE ~s.over
  BY <1>2, RuleTurnIs, SetTurnIs DEF Turn
<1>. QED
  BY <1>1, <1>2

-----------------------------------------------------------------------------
LEMMA MaxIs == ASSUME NEW n \in Nat PROVE Max({n}) = n /\ Max({n} \cup {0}) = n
BY DEF Max

LEMMA SortedIs ==
  ASSUME ObjInv, NEW s
  PROVE  /\ DOMAIN Sorted(s, obj) = Fields
         /\ \A f \in {"isset", "cached", "readers", "rules", "exrules"} : Sorted(s, obj)[f] = obj[f]
<1>1. DOMAIN obj = Fields
  BY DEF ObjInv
<1> DEFINE sorted == [obj EXCEPT !.rdate = SortSeq(@, <), !.exdate = SortSeq(@, <)]
<1>2. /\ DOMAIN sorted = Fields
      /\ \A f \in {"isset", "cached", "readers", "rules", "exrules"} : sorted[f] = obj[f]
  BY <1>1 DEF Fields
<1> HIDE DEF sorted
<1>3. Sorted(s, obj) \in {obj, sorted}
  BY DEF Sorted, sorted
<1>. QED
  BY <1>1, <1>2, <1>3

LEMMA Bounds ==
  /\ MaxChanges \in Nat /\ Chunk \in Nat \ {0} /\ Epochs = 0..MaxChanges
  /\ \A r \in Readers : r \notin Epochs
BY RecurrenceAssumption DEF Epochs

LEMMA NumbersAre ==
  ASSUME Shapes
  PROVE  /\ changes \in Nat /\ changes \in Epochs /\ changes \in 0..changes /\ 0..changes \subseteq Epochs
         /\ cacheNow \in 0..changes /\ cacheNow \in Epochs
         /\ \A n \in Epochs : n \in Ids /\ n \in Int
         /\ \A g \in Numbers : g = {} \/ \E n \in Epochs : g = {n}
<1>1. changes \in Nat /\ changes <= MaxChanges /\ MaxChanges \in Nat /\ changes \in Epochs
  BY Bounds DEF Shapes
<1>2. changes \in 0..changes /\ 0..changes \subseteq Epochs
  BY <1>1, Bounds
<1>3. cacheNow \in 0..changes /\ cacheNow \in Epochs
  BY <1>2 DEF Shapes
<1>4. \A n \in Epochs : n \in Ids /\ n \in Int
  BY Bounds DEF Ids
<1>5. \A g \in Numbers : g = {} \/ \E n \in Epochs : g = {n}
  BY <1>2 DEF Numbers
<1>. QED
  BY <1>1, <1>2, <1>3, <1>4, <1>5

LEMMA ReaderTyped ==
  ASSUME Shapes, NEW r \in Readers
  PROVE  /\ rd[r].of \in 0..changes /\ rd[r].of \in Epochs /\ rd[r].of \in Ids
         /\ rd[r].since \in 0..changes /\ rd[r].since \in Int /\ rd[r].gen \in Numbers
         /\ DOMAIN rd = Readers /\ DOMAIN rd[r] = ReaderFields
         /\ rd[r].j \in 0..Chunk /\ rd[r].j \in Nat
         /\ Listed(rd[r].out) /\ rd[r].i = Len(rd[r].out) /\ rd[r].i \in Nat
         /\ Listed(caches[rd[r].of]) /\ Len(caches[rd[r].of]) \in Nat
<1>1. /\ rd[r].of \in 0..changes /\ rd[r].since \in 0..changes /\ rd[r].gen \in Numbers
      /\ DOMAIN rd = Readers /\ DOMAIN rd[r] = ReaderFields
      /\ rd[r].j \in 0..Chunk /\ Listed(rd[r].out) /\ rd[r].i = Len(rd[r].out)
  BY DEF Shapes, ReadersInv
<1>2. rd[r].of \in Epochs /\ rd[r].of \in Ids /\ rd[r].since \in Int
  BY <1>1, NumbersAre
<1>3. Listed(caches[rd[r].of])
  BY <1>2 DEF Shapes, CachesInv
<1>4. rd[r].j \in Nat /\ rd[r].i \in Nat /\ Len(caches[rd[r].of]) \in Nat
  BY <1>1, <1>3, Bounds, ListedIs
<1>. QED
  BY <1>1, <1>2, <1>3, <1>4

-----------------------------------------------------------------------------
(* Steps of one iterator.                                                     *)

(* Who is outdated stays so. *)
LEMMA OutdatedGrows ==
  ASSUME Shapes, changes' \in Nat, changes <= changes',
         \A r \in Readers : rd[r].pc # "idle" => rd'[r].pc # "idle" /\ rd'[r].since = rd[r].since
  PROVE  Outdated \subseteq Outdated'
<1>1. \A r \in Readers : rd[r].since \in Int
  BY ReaderTyped
<1>. QED
  BY <1>1, NumbersAre DEF Outdated

LockMoves(r) == lock' = lock \/ (lock = {} /\ lock' = {r}) \/ (lock' = {} /\ rd[r].pc = "releasing")

(* Who has the lock, or has raised, what is complete: while generators and caches
   rest, this is what an iterator of a cache may do besides moving on. *)
Quiet(r) ==
  /\ UNCHANGED <<obj, changes, change, cacheNow, gens, caches, len>>
  /\ LockMoves(r) /\ stolen' \in BOOLEAN
  /\ complete' \in {complete, TRUE} /\ genNow' \in {genNow, {}}
  /\ Outdated = {} /\ (complete' \/ genNow' = {}) => gens[changes].over

(* Where no change has overtaken an iterator, all are sound. *)
LEMMA AllSound ==
  ASSUME IInv, obj.cached, Outdated = {}, NEW r \in Readers, rd[r].pc # "idle"
  PROVE  /\ change = "none" /\ cacheNow = changes /\ genNow \subseteq {changes}
         /\ \A s \in Readers : rd[s].pc # "idle" => Sound(s)
         /\ (\A s \in Readers : rd[s].pc # "appending") => gens[changes].total = Len(caches[changes])
         /\ gens[changes].over => len = {gens[changes].total} \/ RaisedIn(gens[changes])
         /\ complete \/ genNow = {} => gens[changes].over
BY DEF IInv, FlowInv, ChangeInv

LEMMA ReaderStep ==
  ASSUME IInv, obj.cached, NEW r \in Readers, NEW q,
         DOMAIN q = ReaderFields, rd' = [rd EXCEPT ![r] = q], Quiet(r),
         rd[r].pc \notin {"idle", "appending"},
         q.pc \in Cached \ {"idle", "taking", "new", "appending", "releasing"},
         q.since = rd[r].since, q.j \in 0..Chunk, q.gen \in {rd[r].gen, genNow, {}},
         q.pc = "begun" => q.out = <<>>,
         \/ q.of = rd[r].of
         \/ q.of = cacheNow /\ rd[r].pc \in Unread /\ q.i = rd[r].i,
         \/ q.i = rd[r].i /\ q.out = rd[r].out
         \/ /\ q.i = rd[r].i + 1 /\ rd[r].i < Len(caches[rd[r].of])
            /\ q.out = Append(rd[r].out, caches[rd[r].of][rd[r].i + 1]),
         q.pc = "filling" => q.j = 0,
         rd[r].pc = "filling" => \A n \in Epochs : r \notin gens[n].caller,
         Outdated = {} => Sound(r)',
         q.pc = "raised" => Outdated # {} \/ \E x \in Ids : gens[x].over /\ RaisedIn(gens[x])
  PROVE  IInv'
<1> USE DEF IInv
<1>1. /\ DOMAIN rd = Readers /\ DOMAIN rd' = Readers /\ rd'[r] = q
      /\ \A s \in Readers : s # r => rd'[s] = rd[s]
  BY ReaderTyped
<1>2. changes \in Nat /\ changes \in Epochs /\ cacheNow \in 0..changes /\ Chunk \in Nat \ {0}
  BY NumbersAre, Bounds
<1>3. Outdated' = Outdated
  BY <1>1 DEF Outdated, Quiet
<1>4. /\ Listed(q.out) /\ q.i = Len(q.out) /\ q.of \in 0..changes
      /\ q.i <= Len(caches[q.of]) /\ \A k \in 1 .. q.i : q.out[k] = caches[q.of][k]
  <2>1. /\ Listed(rd[r].out) /\ rd[r].i = Len(rd[r].out) /\ rd[r].i \in Nat
        /\ rd[r].of \in 0..changes /\ rd[r].of \in Epochs
        /\ Listed(caches[rd[r].of]) /\ Len(caches[rd[r].of]) \in Nat
        /\ rd[r].pc \in Unread => rd[r].out = <<>>
    BY ReaderTyped DEF Shapes, ReadersInv
  <2>2. /\ rd[r].i <= Len(caches[rd[r].of])
        /\ \A k \in 1 .. rd[r].i : rd[r].out[k] = caches[rd[r].of][k]
    BY DEF PrefixInv
  <2>3. CASE q.of = rd[r].of /\ q.i = rd[r].i /\ q.out = rd[r].out
    BY <2>1, <2>2, <2>3
  <2>4. CASE q.of = cacheNow /\ rd[r].pc \in Unread /\ q.i = rd[r].i
    <3>1. rd[r].i = 0 /\ q.out = rd[r].out
      BY <2>1, <2>4, EmptyIs
    <3>2. Len(caches[cacheNow]) \in Nat
      BY NumbersAre, ListedIs DEF Shapes, CachesInv
    <3>. QED
      BY <1>2, <2>1, <2>4, <3>1, <3>2
  <2>5. CASE /\ q.of = rd[r].of /\ q.i = rd[r].i + 1 /\ rd[r].i < Len(caches[rd[r].of])
             /\ q.out = Append(rd[r].out, caches[rd[r].of][rd[r].i + 1])
    <3> DEFINE t == caches[rd[r].of][rd[r].i + 1]
    <3>0. q.out = Append(rd[r].out, t)
      BY <2>5
    <3> HIDE DEF t
    <3>1. /\ Listed(q.out) /\ Len(q.out) = Len(rd[r].out) + 1
          /\ \A k \in 1 .. Len(rd[r].out) : q.out[k] = rd[r].out[k]
          /\ q.out[Len(rd[r].out) + 1] = t
      BY <2>1, <3>0, AppendListed
    <3>2. \A k \in 1 .. q.i : k \in 1 .. rd[r].i \/ k = rd[r].i + 1
      BY <2>1, <2>5
    <3>3. \A k \in 1 .. q.i : q.out[k] = caches[q.of][k]
      BY <2>1, <2>2, <2>5, <3>1, <3>2 DEF t
    <3>. QED
      BY <2>1, <2>5, <3>1, <3>3
  <2>. QED
    BY <2>3, <2>4, <2>5
<1>5. Shapes'
  <2>1. q.gen \in Numbers /\ genNow' \in Numbers
    BY ReaderTyped DEF Shapes, Numbers, Quiet
  <2>2. /\ q.pc \in Cached /\ q.pc # "idle" /\ obj.readers # {} /\ q.since \in 0..changes
        /\ q.pc \in Unread => q.pc = "begun"
    BY ReaderTyped DEF Shapes, ReadersInv, Unread
  <2>3. ReadersInv'
    BY <1>1, <1>4, <2>1, <2>2 DEF Shapes, ReadersInv, Numbers, Quiet
  <2>4. ObjInv' /\ GensInv' /\ CachesInv'
    BY DEF Shapes, ObjInv, GensInv, CachesInv, Quiet
  <2>5. lock' \in {{}} \cup {{s} : s \in Readers}
    BY DEF Shapes, Quiet, LockMoves
  <2>. QED
    BY <2>1, <2>3, <2>4, <2>5 DEF Shapes, Numbers, Quiet
<1>6. PrefixInv'
  <2>1. q.pc \in {"filling", "appending"} => q.j < Chunk /\ q.i + q.j <= Len(caches[q.of])
    BY <1>2, <1>4, ListedIs
  <2>. QED
    BY <1>1, <1>4, <2>1 DEF PrefixInv, Quiet
<1>7. CallerInv'
  <2>1. \A n \in Epochs : gens'[n].caller \subseteq {s \in Readers : rd'[s].pc = "filling" /\ rd'[s].gen = {n}}
    BY <1>1 DEF CallerInv, Quiet
  <2>. QED
    BY <2>1 DEF CallerInv, Quiet
<1>8. ChangeInv' /\ IdleInv'
  BY <1>1 DEF ChangeInv, IdleInv, Quiet
<1>9. FlowInv'
  <2> SUFFICES ASSUME Outdated = {} PROVE FlowInv'
    BY <1>3 DEF FlowInv
  <2>1. /\ change = "none"
        /\ \A s \in Readers : rd[s].pc # "idle" => Sound(s)
        /\ (\A s \in Readers : rd[s].pc # "appending") => gens[changes].total = Len(caches[changes])
        /\ gens[changes].over => len = {gens[changes].total} \/ RaisedIn(gens[changes])
    BY AllSound
  <2>2. ASSUME NEW s \in Readers, rd'[s].pc # "idle" PROVE Sound(s)'
    <3>1. CASE s = r
      BY <3>1
    <3>2. CASE s # r
      <4>1. rd'[s] = rd[s] /\ Sound(s)
        BY <1>1, <2>1, <2>2, <3>2
      <4>2. rd[s].pc \in Holders => lock' = {s}
        <5>1. rd[r].pc = "releasing" => lock = {r}
          BY <2>1 DEF Sound, Holders
        <5>. QED
          BY <3>2, <4>1, <5>1 DEF Sound, Quiet, LockMoves
      <4>. QED
        BY <4>1, <4>2 DEF Sound, Quiet
    <3>. QED
      BY <3>1, <3>2
  <2>3. (\A s \in Readers : rd'[s].pc # "appending") => \A s \in Readers : rd[s].pc # "appending"
    BY <1>1
  <2>. QED
    BY <2>1, <2>2, <2>3 DEF FlowInv, Quiet
<1>10. FailInv'
  BY <1>1, <1>3 DEF FailInv, Quiet
<1>. QED
  BY <1>5, <1>6, <1>7, <1>8, <1>9, <1>10

(* An iterator that has read what it reads from moves on, *)
LEMMA MoveStep ==
  ASSUME IInv, obj.cached, NEW r \in Readers, Quiet(r),
         NEW pc \in Cached \ (Unread \cup {"filling", "appending", "releasing"}), To(r, pc),
         rd[r].pc \notin Unread \cup {"appending"},
         Outdated = {} /\ pc \in Holders => lock' = {r},
         Outdated = {} /\ pc \in {"over", "closing", "tail"} => gens[changes].over,
         rd[r].pc = "filling" => \A n \in Epochs : r \notin gens[n].caller,
         pc = "raised" => Outdated # {} \/ \E x \in Ids : gens[x].over /\ RaisedIn(gens[x])
  PROVE  IInv'
<1> DEFINE q == [rd[r] EXCEPT !.pc = pc]
<1>1. /\ rd' = [rd EXCEPT ![r] = q] /\ DOMAIN rd = Readers /\ DOMAIN rd[r] = ReaderFields
      /\ rd[r].j \in 0..Chunk
  BY ReaderTyped DEF IInv, To
<1>2. /\ DOMAIN q = ReaderFields /\ q.pc = pc /\ q.since = rd[r].since /\ q.gen = rd[r].gen
      /\ q.of = rd[r].of /\ q.i = rd[r].i /\ q.j = rd[r].j /\ q.out = rd[r].out
  BY <1>1 DEF ReaderFields
<1> HIDE DEF q
<1>3. rd'[r] = q
  BY <1>1
<1>4. Outdated = {} => Sound(r)'
  <2> SUFFICES ASSUME Outdated = {} PROVE Sound(r)'
    OBVIOUS
  <2>1. Sound(r)
    BY AllSound DEF Unread
  <2>. QED
    BY <1>2, <1>3, <2>1 DEF Sound, Unread, Quiet
<1>. QED
  BY <1>1, <1>2, <1>4, ReaderStep DEF Unread

(* or yields the next of its cache. *)
LEMMA YieldStep ==
  ASSUME IInv, obj.cached, NEW r \in Readers, Quiet(r), NEW pc \in {"list", "cached", "tail"},
         Yield(r, caches[rd[r].of][rd[r].i + 1], pc), rd[r].i < Len(caches[rd[r].of]),
         rd[r].pc \notin Unread \cup {"filling", "appending"},
         Outdated = {} /\ pc = "tail" => gens[changes].over
  PROVE  IInv'
<1> DEFINE q == [rd[r] EXCEPT !.pc = pc, !.i = @ + 1,
                              !.out = Append(@, caches[rd[r].of][rd[r].i + 1])]
<1>1. /\ rd' = [rd EXCEPT ![r] = q] /\ DOMAIN rd = Readers /\ DOMAIN rd[r] = ReaderFields
      /\ rd[r].j \in 0..Chunk
  BY ReaderTyped DEF IInv, Yield
<1>2. /\ DOMAIN q = ReaderFields /\ q.pc = pc /\ q.since = rd[r].since /\ q.gen = rd[r].gen
      /\ q.of = rd[r].of /\ q.i = rd[r].i + 1 /\ q.j = rd[r].j
      /\ q.out = Append(rd[r].out, caches[rd[r].of][rd[r].i + 1])
  BY <1>1 DEF ReaderFields
<1> HIDE DEF q
<1>3. rd'[r] = q /\ pc \in Cached \ (Unread \cup Holders \cup {"raised"})
  BY <1>1 DEF Cached, Unread, Holders
<1>4. Outdated = {} => Sound(r)'
  <2> SUFFICES ASSUME Outdated = {} PROVE Sound(r)'
    OBVIOUS
  <2>1. Sound(r)
    BY AllSound DEF Unread
  <2>. QED
    BY <1>2, <1>3, <2>1 DEF Sound, Unread, Holders, Quiet
<1>. QED
  BY <1>1, <1>2, <1>3, <1>4, ReaderStep DEF Unread, Holders

(* Iterators of a cache: what their actions say at once. *)
LEMMA OfCache ==
  ASSUME IInv, NEW r \in Readers, rd[r].pc \in Cached \ Alone
  PROVE  /\ obj.cached /\ rd[r].pc \notin {"idle", "ended", "raised"}
         /\ rd[r].i <= Len(caches[rd[r].of])
         /\ complete \in BOOLEAN /\ complete \in {complete, TRUE} /\ stolen \in BOOLEAN
         /\ Outdated = {} /\ (complete \/ genNow = {}) => gens[changes].over
<1>1. obj.cached
  BY DEF IInv, Shapes, ObjInv, ReadersInv
<1>. QED
  BY <1>1 DEF IInv, Shapes, PrefixInv, FlowInv, Alone

(* It reads what the set has at present. *)
LEMMA TakeSteps ==
  ASSUME IInv, NEW r \in Readers, TakeList(r) \/ Begin(r) \/ TakeCache(r) \/ DropGen(r)
  PROVE  IInv'
<1>1. rd[r].pc \in {"taking", "new", "begun", "over"}
  BY DEF TakeList, Begin, TakeCache, DropGen
<1>2. rd[r].pc \in Cached \ Alone
  BY <1>1 DEF Cached, Alone
<1>3. /\ obj.cached /\ complete \in {complete, TRUE} /\ stolen \in BOOLEAN
      /\ Outdated = {} /\ (complete \/ genNow = {}) => gens[changes].over
  BY <1>2, OfCache
<1>4. /\ DOMAIN rd = Readers /\ DOMAIN rd[r] = ReaderFields /\ rd[r].j \in 0..Chunk
      /\ rd[r].pc \in Unread => rd[r].out = <<>>
  BY ReaderTyped DEF IInv, Shapes, ReadersInv
<1>5. Outdated = {} =>
        /\ Sound(r) /\ change = "none" /\ cacheNow = changes /\ genNow \subseteq {changes}
        /\ complete \/ genNow = {} => gens[changes].over
  BY <1>1, <1>3, AllSound
<1>6. CASE TakeList(r)
  <2> DEFINE q == [rd[r] EXCEPT !.of = cacheNow, !.pc = "list"]
  <2>1. rd' = [rd EXCEPT ![r] = q] /\ rd[r].pc = "taking" /\ Quiet(r) /\ UNCHANGED <<lock, genNow>>
    BY <1>3, <1>6 DEF TakeList, Quiet, LockMoves, theSet, current
  <2>2. /\ DOMAIN q = ReaderFields /\ q.pc = "list" /\ q.of = cacheNow /\ q.since = rd[r].since
        /\ q.gen = rd[r].gen /\ q.i = rd[r].i /\ q.j = rd[r].j /\ q.out = rd[r].out
    BY <1>4 DEF ReaderFields
  <2> HIDE DEF q
  <2>3. rd'[r] = q
    BY <1>4, <2>1
  <2>4. Outdated = {} => Sound(r)'
    BY <1>5, <2>1, <2>2, <2>3 DEF Sound, Holders, Quiet
  <2>. QED
    BY <1>3, <1>4, <2>1, <2>2, <2>4, ReaderStep DEF Cached, Unread
<1>7. CASE Begin(r)
  <2> DEFINE q == [rd[r] EXCEPT !.gen = genNow, !.pc = "begun"]
  <2>1. rd' = [rd EXCEPT ![r] = q] /\ rd[r].pc = "new" /\ Quiet(r) /\ UNCHANGED <<lock, genNow>>
    BY <1>3, <1>7 DEF Begin, Quiet, LockMoves, theSet, current
  <2>2. /\ DOMAIN q = ReaderFields /\ q.pc = "begun" /\ q.of = rd[r].of /\ q.since = rd[r].since
        /\ q.gen = genNow /\ q.i = rd[r].i /\ q.j = rd[r].j /\ q.out = rd[r].out
    BY <1>4 DEF ReaderFields
  <2> HIDE DEF q
  <2>3. rd'[r] = q
    BY <1>4, <2>1
  <2>4. Outdated = {} => Sound(r)'
    BY <1>5, <2>1, <2>2, <2>3 DEF Sound, Holders, Unread, Quiet
  <2>. QED
    BY <1>3, <1>4, <2>1, <2>2, <2>4, ReaderStep DEF Cached, Unread
<1>8. CASE TakeCache(r)
  <2> DEFINE q == [rd[r] EXCEPT !.of = cacheNow, !.pc = IF rd[r].gen = {} THEN "tail" ELSE "cached"]
  <2>1. rd' = [rd EXCEPT ![r] = q] /\ rd[r].pc = "begun" /\ Quiet(r) /\ UNCHANGED <<lock, genNow>>
    BY <1>3, <1>8 DEF TakeCache, Quiet, LockMoves, theSet, current
  <2>2. /\ DOMAIN q = ReaderFields /\ q.pc \in {"tail", "cached"} /\ q.of = cacheNow /\ q.since = rd[r].since
        /\ q.pc = "tail" => rd[r].gen = {}
        /\ q.gen = rd[r].gen /\ q.i = rd[r].i /\ q.j = rd[r].j /\ q.out = rd[r].out
    BY <1>4 DEF ReaderFields
  <2> HIDE DEF q
  <2>3. rd'[r] = q
    BY <1>4, <2>1
  <2>4. Outdated = {} => Sound(r)'
    BY <1>5, <2>1, <2>2, <2>3 DEF Sound, Holders, Quiet
  <2>. QED
    BY <1>3, <1>4, <2>1, <2>2, <2>4, ReaderStep DEF Cached, Unread
<1>9. CASE DropGen(r)
  <2> DEFINE q == [rd[r] EXCEPT !.gen = {}, !.pc = "closing"]
  <2>1. /\ rd' = [rd EXCEPT ![r] = q] /\ rd[r].pc = "over" /\ genNow' = {} /\ lock' = lock
        /\ UNCHANGED <<obj, changes, change, cacheNow, gens, caches, len, complete, stolen>>
    BY <1>9 DEF DropGen, theSet
  <2>2. /\ DOMAIN q = ReaderFields /\ q.pc = "closing" /\ q.of = rd[r].of /\ q.since = rd[r].since
        /\ q.gen = {} /\ q.i = rd[r].i /\ q.j = rd[r].j /\ q.out = rd[r].out
    BY <1>4 DEF ReaderFields
  <2> HIDE DEF q
  <2>3. rd'[r] = q
    BY <1>4, <2>1
  <2>4. Outdated = {} => Sound(r)' /\ gens[changes].over
    BY <1>5, <2>1, <2>2, <2>3 DEF Sound, Holders, Unread
  <2>5. Quiet(r)
    BY <1>3, <2>1, <2>4 DEF Quiet, LockMoves
  <2>. QED
    BY <1>3, <1>4, <2>1, <2>2, <2>4, <2>5, ReaderStep DEF Cached, Unread
<1>. QED
  BY <1>6, <1>7, <1>8, <1>9

(* It moves through its cache, and takes and leaves the lock. *)
LEMMA WalkSteps ==
  ASSUME IInv, NEW r \in Readers,
         \/ NextOfList(r) \/ NextOfCache(r) \/ Acquire(r) \/ StartFill(r) \/ Complete(r) \/ Release(r)
  PROVE  IInv'
<1> DEFINE i == rd[r].i
           cache == caches[rd[r].of]
<1>1. rd[r].pc \in {"list", "cached", "waiting", "holding", "closing", "releasing"}
  BY DEF NextOfList, NextOfCache, Acquire, StartFill, Complete, Release
<1>2. rd[r].pc \in Cached \ Alone /\ rd[r].pc \notin Unread \cup {"filling", "appending"}
  BY <1>1 DEF Cached, Alone, Unread
<1>3. /\ obj.cached /\ complete \in {complete, TRUE} /\ stolen \in BOOLEAN
      /\ Outdated = {} /\ (complete \/ genNow = {}) => gens[changes].over
      /\ i \in Nat /\ Len(cache) \in Nat /\ i <= Len(cache)
  BY <1>2, OfCache, ReaderTyped DEF IInv
<1>4. Outdated = {} => Sound(r) /\ (complete => gens[changes].over)
  BY <1>1, <1>3, AllSound
<1>5. UNCHANGED <<obj, changes, change, cacheNow, genNow, gens, caches, len>>
  BY DEF NextOfList, NextOfCache, Acquire, StartFill, Complete, Release, theSet, current
<1>6. CASE NextOfList(r) \/ NextOfCache(r)
  <2>0. UNCHANGED <<complete, lock, stolen>>
    BY <1>6 DEF NextOfList, NextOfCache
  <2>1. Quiet(r)
    BY <1>3, <1>5, <2>0 DEF Quiet, LockMoves
  <2>2. \/ \E pc \in {"ended", "waiting"} : To(r, pc)
        \/ \E pc \in {"list", "cached"} : i < Len(cache) /\ Yield(r, cache[i + 1], pc)
    BY <1>3, <1>6 DEF NextOfList, NextOfCache
  <2>. QED
    BY <1>2, <1>3, <2>1, <2>2, MoveStep, YieldStep DEF Cached, Unread, Holders
<1>7. CASE Acquire(r)
  <2>1. Quiet(r) /\ lock' = {r} /\ To(r, "holding")
    BY <1>3, <1>5, <1>7 DEF Acquire, Quiet, LockMoves
  <2>. QED
    BY <1>2, <1>3, <2>1, MoveStep DEF Cached, Unread
<1>8. CASE StartFill(r)
  <2>1. Quiet(r) /\ lock' = lock /\ rd[r].pc = "holding"
    BY <1>3, <1>5, <1>8 DEF StartFill, Quiet, LockMoves
  <2>2. CASE complete
    <3>1. To(r, "tail")
      BY <1>8, <2>2 DEF StartFill
    <3>. QED
      BY <1>2, <1>3, <1>4, <2>1, <2>2, <3>1, MoveStep DEF Cached, Unread, Holders
  <2>3. CASE ~complete
    <3> DEFINE q == [rd[r] EXCEPT !.pc = "filling", !.j = 0]
    <3>1. rd' = [rd EXCEPT ![r] = q] /\ DOMAIN rd = Readers /\ DOMAIN rd[r] = ReaderFields
      BY <1>8, <2>3, ReaderTyped DEF StartFill, IInv
    <3>2. /\ DOMAIN q = ReaderFields /\ q.pc = "filling" /\ q.of = rd[r].of /\ q.since = rd[r].since
          /\ q.gen = rd[r].gen /\ q.i = rd[r].i /\ q.j = 0 /\ q.out = rd[r].out
      BY <3>1 DEF ReaderFields
    <3> HIDE DEF q
    <3>3. rd'[r] = q /\ 0 \in 0..Chunk
      BY <3>1, Bounds
    <3>4. Outdated = {} => Sound(r)'
      BY <1>4, <2>1, <3>2, <3>3 DEF Sound, Holders, Unread, Quiet
    <3>. QED
      BY <1>2, <1>3, <2>1, <3>1, <3>2, <3>3, <3>4, ReaderStep DEF Cached
  <2>. QED
    BY <2>2, <2>3
<1>9. CASE Complete(r)
  <2>1. /\ complete' = TRUE /\ To(r, "tail") /\ rd[r].pc = "closing"
        /\ UNCHANGED <<lock, stolen>>
    BY <1>9 DEF Complete
  <2>2. Outdated = {} => gens[changes].over
    BY <1>4, <2>1 DEF Sound
  <2>3. Quiet(r)
    BY <1>3, <1>5, <2>1, <2>2 DEF Quiet, LockMoves
  <2>. QED
    BY <1>2, <1>3, <2>1, <2>2, <2>3, MoveStep DEF Cached, Unread, Holders
<1>10. CASE Release(r)
  <2>1. /\ lock' = {} /\ rd[r].pc = "releasing" /\ complete' = complete /\ stolen' \in BOOLEAN
        /\ IF lock = {} THEN To(r, "raised") ELSE Yield(r, cache[i + 1], "cached")
    BY <1>3, <1>10 DEF Release
  <2>2. Quiet(r)
    BY <1>3, <1>5, <2>1 DEF Quiet, LockMoves
  <2>3. i < Len(cache)
    BY <1>3, <2>1 DEF IInv, PrefixInv
  <2>4. lock = {} => Outdated # {}
    BY <1>4, <2>1 DEF Sound, Holders
  <2>. QED
    BY <1>2, <1>3, <2>1, <2>2, <2>3, <2>4, MoveStep, YieldStep DEF Cached, Unread, Holders
<1>. QED
  BY <1>1, <1>6, <1>7, <1>8, <1>9, <1>10

(* The generator is busy only where a change has overtaken an iterator. *)
LEMMA BusyStep ==
  ASSUME IInv, NEW r \in Readers, CacheBusy(r)
  PROVE  IInv'
<1>1. rd[r].pc = "filling" /\ To(r, "raised") /\ Busy(r)
  BY DEF CacheBusy
<1>2. rd[r].pc \in Cached \ Alone /\ rd[r].pc \notin Unread \cup {"appending"}
  BY <1>1 DEF Cached, Alone, Unread
<1>3. obj.cached /\ Quiet(r)
  BY <1>2, OfCache DEF CacheBusy, Quiet, LockMoves, theSet, current
<1>4. PICK n \in rd[r].gen : gens[n].caller \notin {{}, {r}}
  BY <1>1 DEF Busy
<1>5. rd[r].gen = {n} /\ n \in Epochs
  BY <1>4, ReaderTyped, NumbersAre DEF IInv
<1>6. /\ gens[n].caller \subseteq {s \in Readers : rd[s].pc = "filling" /\ rd[s].gen = {n}}
      /\ \A q, s \in gens[n].caller : q = s
  BY <1>5 DEF IInv, CallerInv
<1>7. PICK s \in Readers : s \in gens[n].caller /\ s # r /\ rd[s].pc = "filling"
  BY <1>4, <1>6
<1>8. \A m \in Epochs : r \notin gens[m].caller
  <2>1. ASSUME NEW m \in Epochs, r \in gens[m].caller PROVE m = n
    BY <1>5, <2>1 DEF IInv, CallerInv
  <2>. QED
    BY <1>6, <1>7, <2>1
<1>9. Outdated # {}
  <2> SUFFICES ASSUME Outdated = {} PROVE FALSE
    OBVIOUS
  <2>1. Sound(r) /\ Sound(s)
    BY <1>1, <1>3, <1>7, AllSound
  <2>. QED
    BY <1>1, <1>7, <2>1 DEF Sound, Holders
<1>. QED
  BY <1>1, <1>2, <1>3, <1>8, <1>9, MoveStep DEF Cached, Unread, Holders

(* The last loop fails only if the generator of its cache was not the last to set _len. *)
LEMMA TailStep ==
  ASSUME IInv, NEW r \in Readers, NextOfTail(r)
  PROVE  IInv'
<1> DEFINE i == rd[r].i
           cache == caches[rd[r].of]
           m == Len(cache)
<1>1. rd[r].pc = "tail"
  BY DEF NextOfTail
<1>2. rd[r].pc \in Cached \ Alone /\ rd[r].pc \notin Unread \cup {"filling", "appending"}
  BY <1>1 DEF Cached, Alone, Unread
<1>3. obj.cached /\ Quiet(r)
  BY <1>2, OfCache DEF NextOfTail, Quiet, LockMoves, theSet, current
<1>4. i \in Nat /\ m \in Nat /\ i <= m
  BY <1>2, OfCache, ReaderTyped DEF IInv
<1>5. Outdated = {} => /\ gens[changes].over /\ rd[r].of = changes
                       /\ len = {gens[changes].total} \/ RaisedIn(gens[changes])
                       /\ gens[changes].total = m
  <2> SUFFICES ASSUME Outdated = {} PROVE <1>5!2
    OBVIOUS
  <2>1. /\ \A s \in Readers : rd[s].pc # "idle" => Sound(s)
        /\ (\A s \in Readers : rd[s].pc # "appending") => gens[changes].total = Len(caches[changes])
        /\ gens[changes].over => len = {gens[changes].total} \/ RaisedIn(gens[changes])
    BY <1>1, <1>3, AllSound
  <2>2. gens[changes].over /\ rd[r].of = changes
    BY <1>1, <2>1 DEF Sound, Unread
  <2>3. \A s \in Readers : rd[s].pc # "appending"
    BY <2>1, <2>2 DEF Sound
  <2>. QED
    BY <2>1, <2>2, <2>3
<1>6. CASE len = {} \/ i \in m .. Max(len \cup {0}) - 1
  <2>1. To(r, "raised")
    BY <1>6 DEF NextOfTail
  <2>2. Outdated # {} \/ \E x \in Ids : gens[x].over /\ RaisedIn(gens[x])
    <3> SUFFICES ASSUME Outdated = {}, ~RaisedIn(gens[changes]) PROVE FALSE
      BY <1>5, NumbersAre DEF IInv
    <3>1. len = {m}
      BY <1>5
    <3> HIDE DEF m
    <3>2. Max(len \cup {0}) = m
      BY <1>4, <3>1, MaxIs
    <3>3. i \in m .. m - 1
      BY <1>6, <3>1, <3>2
    <3>. QED
      BY <1>4, <3>3
  <2>. QED
    BY <1>2, <1>3, <2>1, <2>2, MoveStep DEF Cached, Unread, Holders
<1>7. CASE ~(len = {} \/ i \in m .. Max(len \cup {0}) - 1)
  <2>1. PICK n \in Nat : len = {n}
    BY <1>7 DEF IInv, Shapes
  <2>2. Max(len) = n /\ Max(len \cup {0}) = n
    BY <2>1, MaxIs
  <2>3. IF i < n THEN Yield(r, cache[i + 1], "tail") ELSE To(r, "ended")
    BY <1>7, <2>2 DEF NextOfTail
  <2>4. i < n => i < m
    <3> HIDE DEF m
    <3>. QED
      BY <1>4, <1>7, <2>2
  <2>. QED
    BY <1>2, <1>3, <1>5, <2>3, <2>4, MoveStep, YieldStep DEF Cached, Unread, Holders
<1>. QED
  BY <1>6, <1>7

LEMMA IterStep ==
  ASSUME IInv, NEW r \in Readers, Iter(r)
  PROVE  IInv'
<1> USE DEF IInv
<1> DEFINE since == IF change = "none" THEN changes ELSE changes - 1
           pc == IF complete THEN "taking" ELSE IF obj.cached THEN "new" ELSE "own"
           q == [rd[r] EXCEPT !.since = since, !.pc = pc]
<1>1. /\ rd[r].pc = "idle" /\ obj.readers # {} /\ rd' = [rd EXCEPT ![r] = q]
      /\ UNCHANGED <<obj, changes, change, cacheNow, genNow, gens, caches, complete, len, lock, stolen>>
  BY DEF Iter, theSet, current
<1>2. /\ DOMAIN rd[r] = ReaderFields /\ DOMAIN rd = Readers /\ changes \in Nat
      /\ rd[r].gen = {} /\ rd[r].out = <<>> /\ rd[r].i = 0
      /\ Len(caches[rd[r].of]) \in Nat /\ rd[r].of \in 0..changes /\ rd[r].j \in 0..Chunk
  BY <1>1, NumbersAre, ReaderTyped, EmptyIs DEF Shapes, ReadersInv, Unread
<1>3. /\ since \in 0..changes /\ (change # "none" => since < changes)
      /\ pc \in IF obj.cached THEN {"taking", "new"} ELSE {"own"}
  BY <1>2 DEF ChangeInv, Shapes, ObjInv
<1>4. /\ DOMAIN q = ReaderFields /\ q.pc = pc /\ q.since = since /\ q.gen = {} /\ q.of = rd[r].of
      /\ q.i = 0 /\ q.out = <<>> /\ q.j = rd[r].j
  BY <1>2 DEF ReaderFields
<1> HIDE DEF q, pc, since
<1>5. DOMAIN rd' = Readers /\ rd'[r] = q /\ \A s \in Readers : s # r => rd'[s] = rd[s]
  BY <1>1, <1>2
<1>6. q.pc \notin Holders \cup {"idle", "raised", "begun", "tail", "appending", "releasing"}
  BY <1>3, <1>4 DEF Holders
<1>7. Outdated' = {} => Outdated = {} /\ change = "none"
  <2>1. Outdated \subseteq Outdated'
    BY <1>1, <1>2, <1>5, OutdatedGrows
  <2>2. change # "none" => r \in Outdated'
    BY <1>1, <1>3, <1>4, <1>5, <1>6 DEF Outdated
  <2>. QED
    BY <2>1, <2>2
<1>8. Shapes'
  <2>1. ReadersInv'
    BY <1>1, <1>2, <1>3, <1>4, <1>5, <1>6, EmptyIs
    DEF Shapes, ReadersInv, Numbers, Cached, Alone, Unread
  <2>2. ObjInv' /\ GensInv' /\ CachesInv'
    BY <1>1 DEF Shapes, ObjInv, GensInv, CachesInv
  <2>. QED
    BY <1>1, <2>1, <2>2 DEF Shapes, Numbers
<1>9. PrefixInv'
  BY <1>1, <1>2, <1>4, <1>5, <1>6 DEF PrefixInv, Holders
<1>10. CallerInv' /\ ChangeInv' /\ IdleInv'
  BY <1>1, <1>5, <1>6 DEF CallerInv, ChangeInv, IdleInv
<1>11. FlowInv'
  <2> SUFFICES ASSUME obj.cached, Outdated = {}, change = "none" PROVE FlowInv'
    BY <1>1, <1>7 DEF FlowInv
  <2>1. Sound(r)'
    BY <1>1, <1>3, <1>4, <1>5, <1>6 DEF Sound, Unread
  <2>2. ASSUME NEW s \in Readers, s # r, rd'[s].pc # "idle" PROVE Sound(s)'
    BY <1>1, <1>5, <2>2 DEF FlowInv, Sound
  <2>3. (\A s \in Readers : rd'[s].pc # "appending") => \A s \in Readers : rd[s].pc # "appending"
    BY <1>1, <1>5
  <2>. QED
    BY <1>1, <2>1, <2>2, <2>3 DEF FlowInv
<1>12. FailInv'
  BY <1>1, <1>5, <1>6, <1>7 DEF FailInv
<1>. QED
  BY <1>8, <1>9, <1>10, <1>11, <1>12

(* A turn keeps what a generator object has failed of. *)
LEMMA StaysRaised ==
  ASSUME NEW s, NEW turn, TurnOK(s, turn), DOMAIN s = ObjectFields, s.over, RaisedIn(s)
  PROVE  turn.gen.over /\ RaisedIn(turn.gen)
<1>1. turn.gen = [s EXCEPT !.over = TRUE] /\ turn.gen.over
  BY DEF TurnOK
<1>2. turn.gen.rules = s.rules /\ turn.gen.exrules = s.exrules
  BY <1>1 DEF ObjectFields
<1>. QED
  BY <1>1, <1>2 DEF RaisedIn

(* What is turned, and the set it is turned for. *)
LEMMA TurnOf ==
  ASSUME IInv, NEW x \in Ids, obj.readers # {}
  PROVE  LET s == gens[x]   o == Sorted(s, obj)   turn == Turn(s, o) IN
         /\ DOMAIN o = Fields /\ o.isset = obj.isset /\ o.cached = obj.cached
         /\ o.readers = obj.readers /\ o.rules = obj.rules
         /\ TurnOK(s, turn) /\ s.total \in Nat /\ s.over \in BOOLEAN
         /\ DOMAIN s = ObjectFields /\ DOMAIN s.rules = DOMAIN obj.rules
<1> DEFINE s == gens[x]
           o == Sorted(s, obj)
<1>1. /\ DOMAIN o = Fields /\ o.isset = obj.isset /\ o.cached = obj.cached
      /\ o.readers = obj.readers /\ o.rules = obj.rules
  BY SortedIs DEF IInv, Shapes
<1>2. DOMAIN s = ObjectFields /\ s.over \in BOOLEAN /\ s.total \in Nat /\ DOMAIN s.rules = DOMAIN obj.rules
  BY DEF IInv, Shapes, GensInv
<1>3. ~o.isset => 1 \in DOMAIN s.rules
  BY <1>1, <1>2 DEF IInv, Shapes, ObjInv
<1>4. TurnOK(s, Turn(s, o))
  BY <1>2, <1>3, TurnIs
<1>. QED
  BY <1>1, <1>2, <1>4

LEMMA OwnStep ==
  ASSUME IInv, NEW r \in Readers, NextOfOwn(r)
  PROVE  IInv'
<1> USE DEF IInv
<1> DEFINE s == gens[r]
           o == Sorted(s, obj)
           turn == Turn(s, o)
<1>1. /\ rd[r].pc = "own" /\ obj' = o /\ gens' = [gens EXCEPT ![r] = turn.gen]
      /\ len' = LenAfter(s, turn)
      /\ UNCHANGED <<changes, change, cacheNow, genNow, caches, complete, lock, stolen>>
      /\ \/ turn.stops /\ To(r, "ended")
         \/ turn.raises /\ To(r, "raised")
         \/ UNCHANGED rd
         \/ \E t \in turn.yields : Yield(r, t, "own")
  BY DEF NextOfOwn, current
<1>2. ~obj.cached /\ obj.readers # {} /\ changes \in Nat /\ r \in Ids
  BY <1>1, NumbersAre DEF Shapes, ReadersInv, ObjInv, Cached, Ids
<1>3. /\ DOMAIN o = Fields /\ o.isset = obj.isset /\ o.cached = obj.cached
      /\ o.readers = obj.readers /\ o.rules = obj.rules
      /\ TurnOK(s, turn) /\ s.total \in Nat
      /\ DOMAIN s = ObjectFields /\ DOMAIN s.rules = DOMAIN obj.rules
  BY <1>2, TurnOf
<1>4. /\ DOMAIN gens' = Ids /\ gens'[r] = turn.gen
      /\ \A x \in Ids : x # r => gens'[x] = gens[x]
      /\ \A e \in Epochs : gens'[e] = gens[e]
  BY <1>1, <1>2, Bounds DEF Shapes, GensInv, Ids
<1> HIDE DEF s, o, turn
<1>5. len' = {} \/ \E n \in Nat : len' = {n}
  BY <1>1, <1>3 DEF LenAfter, Shapes
<1>6. DOMAIN rd' = Readers /\ \A u \in Readers : u # r => rd'[u] = rd[u]
  BY <1>1, ReaderTyped DEF To, Yield
<1>7. /\ DOMAIN rd'[r] = ReaderFields /\ rd'[r].of = rd[r].of /\ rd'[r].j = rd[r].j
      /\ rd'[r].since = rd[r].since /\ rd'[r].gen = rd[r].gen
      /\ rd'[r].pc \in {"own", "ended", "raised"}
      /\ rd'[r].pc = "raised" => turn.raises
      /\ Listed(rd'[r].out) /\ rd'[r].i = Len(rd'[r].out)
  <2>1. DOMAIN rd[r] = ReaderFields /\ DOMAIN rd = Readers /\ Listed(rd[r].out) /\ rd[r].i = Len(rd[r].out)
    BY ReaderTyped
  <2>2. CASE (turn.stops /\ To(r, "ended")) \/ (turn.raises /\ To(r, "raised"))
    BY <2>1, <2>2 DEF To, ReaderFields
  <2>3. CASE UNCHANGED rd
    BY <1>1, <2>1, <2>3
  <2>4. CASE \E t \in turn.yields : Yield(r, t, "own")
    <3>1. PICK t \in turn.yields : Yield(r, t, "own")
      BY <2>4
    <3>2. /\ DOMAIN rd'[r] = DOMAIN rd[r] /\ rd'[r].of = rd[r].of /\ rd'[r].j = rd[r].j
          /\ rd'[r].since = rd[r].since /\ rd'[r].gen = rd[r].gen
          /\ rd'[r].pc = "own" /\ rd'[r].i = rd[r].i + 1 /\ rd'[r].out = Append(rd[r].out, t)
      BY <2>1, <3>1 DEF Yield, ReaderFields
    <3>3. Listed(rd'[r].out) /\ rd'[r].i = Len(rd'[r].out)
      BY <2>1, <3>2, AppendListed
    <3>. QED
      BY <2>1, <3>2, <3>3
  <2>. QED
    BY <1>1, <2>2, <2>3, <2>4
<1>8. Shapes'
  <2>1. ObjInv' /\ CachesInv'
    BY <1>1, <1>3 DEF Shapes, ObjInv, CachesInv
  <2>2. GensInv'
    BY <1>1, <1>3, <1>4 DEF Shapes, GensInv, TurnOK
  <2>3. ReadersInv'
    <3>1. /\ rd'[r].pc \in Alone /\ rd'[r].pc \notin Unread /\ rd'[r].gen \in Numbers
          /\ rd'[r].of \in 0..changes /\ rd'[r].since \in 0..changes /\ rd'[r].j \in 0..Chunk
      BY <1>7, ReaderTyped DEF Alone, Unread
    <3>2. obj'.cached = obj.cached /\ obj'.readers = obj.readers /\ Numbers' = Numbers
      BY <1>1, <1>3 DEF Numbers
    <3>. QED
      BY <1>1, <1>2, <1>6, <1>7, <3>1, <3>2 DEF Shapes, ReadersInv
  <2>. QED
    BY <1>1, <1>3, <1>5, <2>1, <2>2, <2>3 DEF Shapes, Numbers
<1>9. PrefixInv' /\ FlowInv'
  BY <1>1, <1>2, <1>3 DEF PrefixInv, FlowInv
<1>10. CallerInv' /\ ChangeInv' /\ IdleInv'
  BY <1>1, <1>2, <1>3, <1>4, <1>6, <1>7 DEF CallerInv, ChangeInv, IdleInv
<1>11. FailInv'
  <2> SUFFICES ASSUME NEW u \in Readers, rd'[u].pc = "raised"
               PROVE  \E x \in Ids : gens'[x].over /\ RaisedIn(gens'[x])
    BY DEF FailInv
  <2>1. CASE u = r
    BY <1>2, <1>3, <1>4, <1>7, <2>1 DEF TurnOK
  <2>2. CASE u # r
    <3>1. PICK x \in Ids : gens[x].over /\ RaisedIn(gens[x])
      BY <1>2, <1>6, <2>2 DEF FailInv
    <3>2. gens'[x].over /\ RaisedIn(gens'[x])
      BY <1>3, <1>4, <3>1, StaysRaised DEF s
    <3>. QED
      BY <3>2
  <2>. QED
    BY <2>1, <2>2
<1>. QED
  BY <1>8, <1>9, <1>10, <1>11

(* An iterator that has the lock advances its generator, *)
LEMMA TurnStep ==
  ASSUME IInv, NEW r \in Readers, CacheTurn(r)
  PROVE  IInv'
<1> USE DEF IInv
<1>1. PICK n \in rd[r].gen :
        LET s == gens[n]   o == Sorted(s, obj)   turn == Turn(s, o)
            inside == turn.yields = {} /\ ~turn.stops /\ ~turn.raises IN
        /\ rd[r].pc = "filling" /\ s.caller \in {{}, {r}} /\ obj' = o
        /\ gens' = [gens EXCEPT ![n] = [turn.gen EXCEPT !.caller = IF inside THEN {r} ELSE {}]]
        /\ len' = LenAfter(s, turn)
        /\ rd' = [rd EXCEPT ![r].got = turn.yields,
                            ![r].pc = IF turn.stops THEN "over" ELSE IF turn.raises THEN "raised"
                                      ELSE IF inside THEN "filling" ELSE "appending"]
        /\ UNCHANGED <<changes, change, cacheNow, genNow, caches, complete, lock, stolen>>
  BY DEF CacheTurn, Busy, current
<1> DEFINE s == gens[n]
           o == Sorted(s, obj)
           turn == Turn(s, o)
           inside == turn.yields = {} /\ ~turn.stops /\ ~turn.raises
           gen == [turn.gen EXCEPT !.caller = IF inside THEN {r} ELSE {}]
           pc == IF turn.stops THEN "over" ELSE IF turn.raises THEN "raised"
                 ELSE IF inside THEN "filling" ELSE "appending"
           q == [rd[r] EXCEPT !.got = turn.yields, !.pc = pc]
<1>2. /\ rd[r].pc = "filling" /\ s.caller \in {{}, {r}} /\ obj' = o
      /\ gens' = [gens EXCEPT ![n] = gen] /\ len' = LenAfter(s, turn)
      /\ UNCHANGED <<changes, change, cacheNow, genNow, caches, complete, lock, stolen>>
  BY <1>1
<1>3. rd' = [rd EXCEPT ![r] = q]
  <2>1. DOMAIN rd[r] = ReaderFields /\ DOMAIN rd = Readers
    BY ReaderTyped
  <2>. QED
    BY <1>1, <2>1
<1>4. /\ obj.cached /\ obj.readers # {} /\ rd[r].gen = {n} /\ n \in Epochs /\ n \in Ids
      /\ DOMAIN rd[r] = ReaderFields /\ DOMAIN rd = Readers /\ changes \in Nat /\ changes \in Epochs
  <2>1. obj.cached /\ obj.readers # {}
    BY <1>2 DEF Shapes, ReadersInv, ObjInv, Alone
  <2>2. rd[r].gen = {n} /\ n \in Epochs
    BY ReaderTyped, NumbersAre
  <2>. QED
    BY <2>1, <2>2, NumbersAre, ReaderTyped
<1>5. /\ DOMAIN o = Fields /\ o.isset = obj.isset /\ o.cached = obj.cached
      /\ o.readers = obj.readers /\ o.rules = obj.rules
      /\ TurnOK(s, turn) /\ s.total \in Nat /\ s.over \in BOOLEAN
      /\ DOMAIN s = ObjectFields /\ DOMAIN s.rules = DOMAIN obj.rules
  BY <1>4, TurnOf
<1> HIDE DEF turn, o, s
<1>6. /\ DOMAIN gen = ObjectFields /\ gen.rules = turn.gen.rules /\ gen.exrules = turn.gen.exrules
      /\ gen.total = turn.gen.total /\ gen.over = turn.gen.over
      /\ gen.caller = IF inside THEN {r} ELSE {}
  BY <1>5 DEF TurnOK, ObjectFields
<1>7. /\ DOMAIN q = ReaderFields /\ q.of = rd[r].of /\ q.i = rd[r].i /\ q.j = rd[r].j
      /\ q.out = rd[r].out /\ q.gen = {n} /\ q.since = rd[r].since /\ q.pc = pc
  BY <1>4 DEF ReaderFields
<1>8. /\ pc \in {"over", "raised", "filling", "appending"}
      /\ pc = "over" => gen.over
      /\ pc = "raised" => turn.raises /\ gen.over /\ RaisedIn(gen)
      /\ inside => pc = "filling"
      /\ pc = "appending" => ~gen.over /\ gen.total = s.total + 1
      /\ pc # "appending" => gen.total = s.total
  BY <1>5, <1>6 DEF TurnOK, RaisedIn
<1>9. s.over /\ RaisedIn(s) => gen.over /\ RaisedIn(gen)
  BY <1>5, <1>6, StaysRaised DEF RaisedIn
<1>10. /\ s.over => gen.over
       /\ gen.over /\ ~RaisedIn(gen) => \/ s.over /\ len' = len /\ gen.total = s.total /\ ~RaisedIn(s)
                                        \/ len' = {gen.total}
  <2>1. s.over => gen.over
    BY <1>5, <1>6 DEF TurnOK
  <2>2. gen.over /\ ~RaisedIn(gen) => turn.stops /\ gen.total = s.total
    BY <1>5, <1>6, <1>8 DEF TurnOK, RaisedIn
  <2>. QED
    BY <1>2, <1>5, <1>9, <2>1, <2>2 DEF LenAfter
<1> HIDE DEF gen, q, pc, inside
<1>11. /\ DOMAIN gens' = Ids /\ gens'[n] = gen /\ \A x \in Ids : x # n => gens'[x] = gens[x]
  BY <1>2, <1>4 DEF Shapes, GensInv
<1>12. DOMAIN rd' = Readers /\ rd'[r] = q /\ \A u \in Readers : u # r => rd'[u] = rd[u]
  BY <1>3, <1>4
<1>13. Outdated' = Outdated
  BY <1>2, <1>7, <1>8, <1>12 DEF Outdated
<1>14. Shapes'
  <2>1. ObjInv' /\ CachesInv'
    BY <1>2, <1>5 DEF Shapes, ObjInv, CachesInv
  <2>2. GensInv'
    <3>1. /\ DOMAIN gen = ObjectFields /\ DOMAIN gen.rules = DOMAIN obj.rules
          /\ gen.over \in BOOLEAN /\ gen.total \in Nat
      BY <1>5, <1>6, <1>8 DEF TurnOK
    <3>. QED
      BY <1>2, <1>5, <1>11, <3>1 DEF Shapes, GensInv
  <2>3. ReadersInv'
    <3>1. /\ q.pc \in Cached /\ q.pc \notin Unread /\ q.gen \in Numbers
          /\ q.of \in 0..changes /\ q.since \in 0..changes /\ q.j \in 0..Chunk
          /\ Listed(q.out) /\ q.i = Len(q.out)
      BY <1>4, <1>7, <1>8, ReaderTyped DEF Cached, Unread
    <3>2. obj'.cached = obj.cached /\ obj'.readers = obj.readers /\ Numbers' = Numbers
      BY <1>2, <1>5 DEF Numbers
    <3>3. obj.cached /\ obj.readers # {} /\ DOMAIN q = ReaderFields
      BY <1>4, <1>7
    <3>4. DOMAIN rd' = Readers /\ rd'[r] = q /\ \A u \in Readers : u # r => rd'[u] = rd[u]
      BY <1>12
    <3>. QED
      BY <1>2, <3>1, <3>2, <3>3, <3>4 DEF Shapes, ReadersInv
  <2>4. len' = {} \/ \E m \in Nat : len' = {m}
    BY <1>2, <1>5 DEF LenAfter, Shapes
  <2>. QED
    BY <1>2, <1>5, <2>1, <2>2, <2>3, <2>4 DEF Shapes, Numbers
<1>15. PrefixInv'
  BY <1>2, <1>4, <1>7, <1>8, <1>12 DEF PrefixInv
<1>16. CallerInv'
  <2> SUFFICES ASSUME NEW d \in Epochs
               PROVE  /\ gens'[d].caller \subseteq {u \in Readers : rd'[u].pc = "filling" /\ rd'[u].gen = {d}}
                      /\ \A p, u \in gens'[d].caller : p = u
    BY DEF CallerInv
  <2>1. CASE d = n
    BY <1>6, <1>7, <1>8, <1>11, <1>12, <2>1
  <2>2. CASE d # n
    <3>1. gens'[d] = gens[d]
      BY <1>11, <2>2 DEF Ids
    <3>2. r \notin gens[d].caller
      BY <1>4, <2>2 DEF CallerInv
    <3>. QED
      BY <1>12, <3>1, <3>2 DEF CallerInv
  <2>. QED
    BY <2>1, <2>2
<1>17. ChangeInv' /\ IdleInv'
  BY <1>2, <1>5, <1>7, <1>8, <1>12 DEF ChangeInv, IdleInv
<1>18. FlowInv'
  <2> SUFFICES ASSUME Outdated = {} PROVE FlowInv'
    BY <1>13 DEF FlowInv
  <2>1. /\ change = "none"
        /\ \A u \in Readers : rd[u].pc # "idle" => Sound(u)
        /\ (\A u \in Readers : rd[u].pc # "appending") => gens[changes].total = Len(caches[changes])
        /\ gens[changes].over => len = {gens[changes].total} \/ RaisedIn(gens[changes])
        /\ complete \/ genNow = {} => gens[changes].over
    BY <1>2, <1>4, AllSound
  <2>2. Sound(r) /\ lock = {r} /\ n = changes
    BY <1>2, <1>4, <2>1 DEF Sound, Holders
  <2>3. \A u \in Readers : u # r => rd[u].pc \notin Holders /\ rd[u].pc # "appending"
    BY <2>1, <2>2 DEF Sound, Holders
  <2>4. s.total = Len(caches[changes]) /\ (s.over => len = {s.total} \/ RaisedIn(s))
    BY <1>2, <2>1, <2>2, <2>3 DEF s
  <2>5. ASSUME NEW u \in Readers, rd'[u].pc # "idle" PROVE Sound(u)'
    <3>1. CASE u = r
      BY <1>2, <1>7, <1>8, <1>11, <1>12, <2>2, <2>4, <3>1 DEF Sound, Unread
    <3>2. CASE u # r
      <4>1. rd'[u] = rd[u] /\ Sound(u) /\ rd[u].pc \notin Holders /\ rd[u].pc # "appending"
        BY <1>12, <2>1, <2>3, <2>5, <3>2
      <4>2. gens[changes].over => gens'[changes].over
        BY <1>10, <1>11, <2>2 DEF s
      <4>. QED
        BY <1>2, <4>1, <4>2 DEF Sound
    <3>. QED
      BY <3>1, <3>2
  <2>6. (\A u \in Readers : rd'[u].pc # "appending") => gens'[changes].total = Len(caches[changes])
    BY <1>7, <1>8, <1>11, <1>12, <2>2, <2>4
  <2>7. gens'[changes].over => len' = {gens'[changes].total} \/ RaisedIn(gens'[changes])
    BY <1>10, <1>11, <2>2, <2>4
  <2>8. complete \/ genNow = {} => gens'[changes].over
    BY <1>10, <1>11, <2>1, <2>2 DEF s
  <2>. QED
    BY <1>2, <2>1, <2>5, <2>6, <2>7, <2>8 DEF FlowInv
<1>19. FailInv'
  <2> SUFFICES ASSUME NEW u \in Readers, rd'[u].pc = "raised", Outdated = {}
               PROVE  \E x \in Ids : gens'[x].over /\ RaisedIn(gens'[x])
    <3>1. obj'.cached
      BY <1>2, <1>4, <1>5
    <3>. QED
      BY <1>13, <3>1 DEF FailInv
  <2>1. CASE u = r
    BY <1>4, <1>7, <1>8, <1>11, <1>12, <2>1
  <2>2. CASE u # r
    <3>1. PICK x \in Ids : gens[x].over /\ RaisedIn(gens[x])
      BY <1>12, <2>2 DEF FailInv
    <3>2. gens'[x].over /\ RaisedIn(gens'[x])
      BY <1>9, <1>11, <3>1 DEF s
    <3>. QED
      BY <3>2
  <2>. QED
    BY <2>1, <2>2
<1>. QED
  BY <1>14, <1>15, <1>16, <1>17, <1>18, <1>19

(* and appends what this gives to its cache. *)
LEMMA AppendStep ==
  ASSUME IInv, NEW r \in Readers, CacheAppend(r)
  PROVE  IInv'
<1> USE DEF IInv
<1> DEFINE e == rd[r].of
           pc == IF rd[r].j + 1 = Chunk THEN "releasing" ELSE "filling"
           q == [rd[r] EXCEPT !.got = {}, !.j = @ + 1, !.pc = pc]
<1>1. PICK t : caches' = [caches EXCEPT ![e] = Append(@, t)]
  BY DEF CacheAppend
<1>2. /\ DOMAIN rd = Readers /\ DOMAIN rd[r] = ReaderFields /\ e \in 0..changes /\ e \in Epochs
      /\ rd[r].j \in Nat /\ rd[r].i \in Nat /\ Listed(caches[e]) /\ Len(caches[e]) \in Nat
      /\ changes \in Nat /\ changes \in Epochs /\ Chunk \in Nat \ {0} /\ DOMAIN caches = Epochs
  BY ReaderTyped, NumbersAre, Bounds DEF Shapes, CachesInv
<1>3. /\ rd[r].pc = "appending" /\ rd' = [rd EXCEPT ![r] = q]
      /\ UNCHANGED <<obj, changes, change, cacheNow, genNow, gens, complete, len, lock, stolen>>
  BY <1>2 DEF CacheAppend, theSet, current
<1>4. obj.cached /\ obj.readers # {}
  BY <1>3 DEF Shapes, ReadersInv, ObjInv, Alone
<1>5. rd[r].j < Chunk /\ rd[r].i + rd[r].j <= Len(caches[e]) /\ rd[r].i <= Len(caches[e])
  BY <1>3, <1>4 DEF PrefixInv
<1>6. /\ DOMAIN q = ReaderFields /\ q.of = e /\ q.i = rd[r].i /\ q.out = rd[r].out
      /\ q.j = rd[r].j + 1 /\ q.gen = rd[r].gen /\ q.since = rd[r].since /\ q.pc = pc
      /\ pc = "releasing" => rd[r].j + 1 = Chunk
      /\ pc = "filling" => rd[r].j + 1 < Chunk
      /\ pc \in {"releasing", "filling"}
  BY <1>2, <1>5 DEF ReaderFields
<1> HIDE DEF q, pc, e
<1>7. DOMAIN rd' = Readers /\ rd'[r] = q /\ \A u \in Readers : u # r => rd'[u] = rd[u]
  BY <1>2, <1>3
<1>8. /\ DOMAIN caches' = Epochs /\ \A d \in Epochs : d # e => caches'[d] = caches[d]
      /\ Listed(caches'[e]) /\ Len(caches'[e]) = Len(caches[e]) + 1
      /\ \A k \in 1 .. Len(caches[e]) : caches'[e][k] = caches[e][k]
  <2>1. caches'[e] = Append(caches[e], t) /\ DOMAIN caches' = Epochs
        /\ \A d \in Epochs : d # e => caches'[d] = caches[d]
    BY <1>1, <1>2 DEF e
  <2>. QED
    BY <1>2, <2>1, AppendListed
<1>9. Outdated' = Outdated
  BY <1>3, <1>6, <1>7 DEF Outdated
<1>10. Shapes'
  <2>1. ObjInv' /\ GensInv'
    BY <1>3 DEF Shapes, ObjInv, GensInv
  <2>2. CachesInv'
    BY <1>8 DEF Shapes, CachesInv
  <2>3. ReadersInv'
    <3>1. q.pc \in Cached /\ q.pc \notin Unread /\ q.j \in 0..Chunk
      BY <1>2, <1>5, <1>6 DEF Cached, Unread
    <3>. QED
      BY <1>3, <1>4, <1>6, <1>7, <3>1 DEF Shapes, ReadersInv, Numbers, e
  <2>. QED
    BY <1>3, <2>1, <2>2, <2>3 DEF Shapes, Numbers
<1>11. PrefixInv'
  <2> SUFFICES ASSUME NEW u \in Readers
               PROVE  /\ rd'[u].i <= Len(caches'[rd'[u].of])
                      /\ \A k \in 1 .. rd'[u].i : rd'[u].out[k] = caches'[rd'[u].of][k]
                      /\ rd'[u].pc \in {"filling", "appending"} =>
                           rd'[u].j < Chunk /\ rd'[u].i + rd'[u].j <= Len(caches'[rd'[u].of])
                      /\ rd'[u].pc = "releasing" => rd'[u].i < Len(caches'[rd'[u].of])
    BY DEF PrefixInv
  <2>1. /\ rd[u].i <= Len(caches[rd[u].of]) /\ rd[u].of \in Epochs
        /\ rd[u].i \in Nat /\ rd[u].j \in Nat
        /\ \A k \in 1 .. rd[u].i : rd[u].out[k] = caches[rd[u].of][k]
    BY <1>4, ReaderTyped DEF PrefixInv
  <2>2. CASE u = r
    <3>1. \A k \in 1 .. rd[r].i : k \in 1 .. Len(caches[e])
      BY <1>2, <1>5
    <3>2. \A k \in 1 .. q.i : q.out[k] = caches'[e][k]
      BY <1>6, <1>8, <2>1, <2>2, <3>1 DEF e
    <3>3. /\ q.i <= Len(caches'[e])
          /\ q.pc = "filling" => q.j < Chunk /\ q.i + q.j <= Len(caches'[e])
          /\ q.pc = "releasing" => q.i < Len(caches'[e])
      BY <1>2, <1>5, <1>6, <1>8
    <3>. QED
      BY <1>6, <1>7, <2>2, <3>2, <3>3
  <2>3. CASE u # r /\ rd[u].of = e
    <3>1. /\ rd[u].pc \in {"filling", "appending"} => rd[u].j < Chunk /\ rd[u].i + rd[u].j <= Len(caches[e])
          /\ rd[u].pc = "releasing" => rd[u].i < Len(caches[e])
      BY <1>4, <2>3 DEF PrefixInv
    <3>2. \A k \in 1 .. rd[u].i : k \in 1 .. Len(caches[e])
      BY <1>2, <2>1, <2>3
    <3>3. \A k \in 1 .. rd[u].i : rd[u].out[k] = caches'[e][k]
      BY <1>8, <2>1, <2>3, <3>2
    <3>4. /\ rd[u].i <= Len(caches'[e])
          /\ rd[u].pc \in {"filling", "appending"} => rd[u].j < Chunk /\ rd[u].i + rd[u].j <= Len(caches'[e])
          /\ rd[u].pc = "releasing" => rd[u].i < Len(caches'[e])
      BY <1>2, <1>8, <2>1, <2>3, <3>1
    <3>. QED
      BY <1>7, <2>3, <3>3, <3>4
  <2>4. CASE u # r /\ rd[u].of # e
    <3>1. rd'[u] = rd[u] /\ caches'[rd[u].of] = caches[rd[u].of]
      BY <1>7, <1>8, <2>1, <2>4
    <3>. QED
      BY <1>4, <3>1 DEF PrefixInv
  <2>. QED
    BY <2>2, <2>3, <2>4
<1>12. CallerInv'
  <2>1. \A n \in Epochs : r \notin gens[n].caller
    BY <1>3 DEF CallerInv
  <2>. QED
    BY <1>3, <1>7, <2>1 DEF CallerInv
<1>13. ChangeInv' /\ IdleInv'
  BY <1>3, <1>6, <1>7 DEF ChangeInv, IdleInv
<1>14. FlowInv'
  <2> SUFFICES ASSUME Outdated = {} PROVE FlowInv'
    BY <1>9 DEF FlowInv
  <2>1. /\ change = "none"
        /\ \A u \in Readers : rd[u].pc # "idle" => Sound(u)
        /\ gens[changes].over => len = {gens[changes].total} \/ RaisedIn(gens[changes])
        /\ complete \/ genNow = {} => gens[changes].over
    BY <1>3, <1>4, AllSound
  <2>2. /\ Sound(r) /\ lock = {r} /\ e = changes
        /\ ~gens[changes].over /\ gens[changes].total = Len(caches[changes]) + 1
    BY <1>3, <2>1 DEF Sound, Holders, Unread, e
  <2>3. \A u \in Readers : u # r => rd[u].pc # "appending"
    BY <2>1, <2>2 DEF Sound, Holders
  <2>4. ASSUME NEW u \in Readers, rd'[u].pc # "idle" PROVE Sound(u)'
    <3>1. CASE u = r
      BY <1>3, <1>6, <1>7, <2>2, <3>1 DEF Sound, Unread
    <3>2. CASE u # r
      BY <1>3, <1>7, <2>1, <2>3, <2>4, <3>2 DEF Sound
    <3>. QED
      BY <3>1, <3>2
  <2>5. gens'[changes].total = Len(caches'[changes])
    BY <1>3, <1>8, <2>2
  <2>. QED
    BY <1>3, <2>1, <2>4, <2>5 DEF FlowInv
<1>15. FailInv'
  BY <1>3, <1>6, <1>7, <1>9 DEF FailInv
<1>. QED
  BY <1>10, <1>11, <1>12, <1>13, <1>14, <1>15

-----------------------------------------------------------------------------
(* Steps of a change of the set: who has begun before is outdated, and where nobody
   has begun, there is nothing to invalidate.                                 *)

LEMMA ChangeStep ==
  ASSUME IInv, DOMAIN obj' = Fields,
         \A f \in {"isset", "cached", "readers", "rules", "exrules"} : obj'[f] = obj[f],
         UNCHANGED <<gens, caches, stolen, rd>>,
         changes' \in Epochs, (changes' = changes /\ change # "none") \/ changes' = changes + 1,
         cacheNow' \in {cacheNow, changes}, genNow' \in {genNow, {changes}},
         complete' = complete \/ complete' = FALSE,
         len' = len \/ len' = {}, lock' = lock \/ lock' = {},
         ChangeInv'
  PROVE  IInv'
<1> USE DEF IInv
<1>1. /\ obj'.isset = obj.isset /\ obj'.cached = obj.cached /\ obj'.readers = obj.readers
      /\ obj'.rules = obj.rules
  OBVIOUS
<1>2. /\ changes \in Nat /\ changes' \in Nat /\ changes <= changes' /\ changes' \in Epochs
      /\ 0..changes \subseteq 0..changes' /\ changes \in 0..changes'
  BY NumbersAre
<1>3. Numbers \subseteq Numbers' /\ {changes} \in Numbers'
  BY <1>2 DEF Numbers
<1>4. Outdated \subseteq Outdated'
  BY <1>2, OutdatedGrows
<1>5. Shapes'
  <2>1. ObjInv'
    BY <1>1 DEF Shapes, ObjInv
  <2>2. GensInv' /\ CachesInv'
    BY <1>1 DEF Shapes, GensInv, CachesInv
  <2>3. ReadersInv'
    <3>1. \A r \in Readers : rd[r].of \in 0..changes' /\ rd[r].since \in 0..changes' /\ rd[r].gen \in Numbers'
      BY <1>2, <1>3, ReaderTyped
    <3>. QED
      BY <1>1, <3>1 DEF Shapes, ReadersInv
  <2>4. genNow' \in Numbers' /\ cacheNow' \in 0..changes'
    BY <1>2, <1>3 DEF Shapes
  <2>5. stolen' \in BOOLEAN /\ complete' \in BOOLEAN /\ (~obj'.cached => ~complete')
    <3>1. CASE complete' = complete
      BY <1>1, <3>1 DEF Shapes
    <3>2. CASE complete' = FALSE
      BY <3>2 DEF Shapes
    <3>. QED
      BY <3>1, <3>2
  <2>6. lock' \in {{}} \cup {{r} : r \in Readers} /\ (len' = {} \/ \E n \in Nat : len' = {n})
    BY DEF Shapes
  <2>. QED
    BY <1>2, <2>1, <2>2, <2>3, <2>4, <2>5, <2>6 DEF Shapes
<1>6. PrefixInv' /\ CallerInv'
  BY <1>1 DEF PrefixInv, CallerInv
<1>7. IdleInv'
  <2>1. genNow # {} => genNow' # {}
    OBVIOUS
  <2>. QED
    BY <2>1 DEF IdleInv
<1>8. FlowInv'
  <2>1. CASE \A r \in Readers : rd[r].pc = "idle"
    <3>1. /\ ~complete' /\ genNow' # {}
          /\ gens[changes'].total = 0 /\ ~gens[changes'].over /\ caches[changes'] = <<>>
      BY <1>2, <1>7, <2>1 DEF IdleInv
    <3>. QED
      BY <2>1, <3>1, EmptyIs DEF FlowInv
  <2>2. CASE ~\A r \in Readers : rd[r].pc = "idle"
    <3>1. PICK r \in Readers : rd[r].pc # "idle"
      BY <2>2
    <3>2. CASE changes' = changes + 1
      <4>1. rd[r].since < changes'
        BY <1>2, <3>2, ReaderTyped
      <4>. QED
        BY <3>1, <4>1 DEF FlowInv, Outdated
    <3>3. CASE change # "none"
      <4>1. obj.cached => Outdated # {}
        BY <3>1, <3>3, AllSound
      <4>. QED
        BY <1>1, <1>4, <4>1 DEF FlowInv
    <3>. QED
      BY <3>2, <3>3
  <2>. QED
    BY <2>1, <2>2
<1>9. FailInv'
  BY <1>1, <1>4 DEF FailInv
<1>. QED
  BY <1>5, <1>6, <1>7, <1>8, <1>9

LEMMA DateStep ==
  ASSUME IInv, NEW t, Rdate(t) \/ Exdate(t)
  PROVE  IInv'
<1>1. PICK f \in {"rdate", "exdate"} : Change(f, t)
  BY DEF Rdate, Exdate
<1>2. /\ changes < MaxChanges /\ changes' = changes + 1 /\ obj' = [obj EXCEPT ![f] = Append(@, t)]
      /\ change' = IF obj.cached THEN "cache" ELSE "len"
      /\ UNCHANGED <<cacheNow, genNow, gens, caches, complete, len, lock, stolen, rd>>
  BY <1>1 DEF Change, current
<1>3. /\ DOMAIN obj' = Fields
      /\ \A g \in {"isset", "cached", "readers", "rules", "exrules"} : obj'[g] = obj[g]
  BY <1>1, <1>2 DEF IInv, Shapes, ObjInv, Fields
<1>4. changes' \in Epochs /\ changes \in Nat
  BY <1>2, NumbersAre, Bounds DEF IInv
<1>5. ChangeInv'
  BY <1>2, <1>3, <1>4 DEF IInv, Shapes, ObjInv, ChangeInv, Steps
<1>6. /\ UNCHANGED <<gens, caches, stolen, rd>>
      /\ cacheNow' \in {cacheNow, changes} /\ genNow' \in {genNow, {changes}}
      /\ complete' = complete /\ len' = len /\ lock' = lock
  BY <1>2
<1>. QED
  BY <1>2, <1>3, <1>4, <1>5, <1>6, ChangeStep

LEMMA InvalidateStep ==
  ASSUME IInv, Invalidate
  PROVE  IInv'
<1>1. /\ UNCHANGED <<obj, changes, gens, caches, stolen, rd>> /\ change # "none"
      /\ cacheNow' \in {cacheNow, changes} /\ genNow' \in {genNow, {changes}}
      /\ complete' = complete \/ complete' = FALSE
      /\ len' = len \/ len' = {}
      /\ lock' = lock \/ lock' = {}
  BY DEF Invalidate, NewCache, Incomplete, NewGen, CheckLock, Unlock, ForgetLen, current
<1>2. /\ DOMAIN obj' = Fields /\ changes' \in Epochs
      /\ \A g \in {"isset", "cached", "readers", "rules", "exrules"} : obj'[g] = obj[g]
  BY <1>1 DEF IInv, Shapes, ObjInv
<1>3. ChangeInv'
  <2> USE DEF IInv, ChangeInv, Steps
  <2>1. CASE NewCache
    BY <1>1, <2>1 DEF NewCache
  <2>2. CASE Incomplete
    BY <1>1, <2>2 DEF Incomplete, current
  <2>3. CASE NewGen
    BY <1>1, <2>3 DEF NewGen
  <2>4. CASE CheckLock \/ Unlock \/ ForgetLen
    BY <1>1, <2>4 DEF CheckLock, Unlock, ForgetLen, current
  <2>. QED
    BY <2>1, <2>2, <2>3, <2>4 DEF Invalidate
<1>. QED
  BY <1>1, <1>2, <1>3, ChangeStep

-----------------------------------------------------------------------------

LEMMA InitOK == Init => IInv
<1> SUFFICES ASSUME Init PROVE IInv
  OBVIOUS
<1>1. /\ obj \in Objects /\ changes = 0 /\ change = "none" /\ cacheNow = 0 /\ genNow = {0}
      /\ complete = FALSE /\ len = {} /\ lock = {} /\ stolen = FALSE
      /\ gens = [x \in Epochs \cup Readers |-> NewObject(obj)]
      /\ caches = [e \in Epochs |-> <<>>] /\ rd = [r \in Readers |-> NewReader]
  BY DEF Init
<1>2. /\ DOMAIN obj = Fields /\ obj.isset \in BOOLEAN /\ obj.cached \in BOOLEAN
      /\ obj.readers \subseteq Readers
      /\ ~obj.isset /\ obj.readers # {} => 1 \in DOMAIN obj.rules
  <2>1. /\ obj.isset \in BOOLEAN /\ obj.cached \in BOOLEAN /\ obj.readers \subseteq Readers
        /\ obj.rules \in Seq(Arguments) /\ DOMAIN obj = Fields
    BY <1>1, RecurrenceAssumption DEF Fields
  <2>2. ~obj.isset /\ obj.readers # {} => Len(obj.rules) = 1
    BY <1>1, RecurrenceAssumption
  <2>. QED
    BY <2>1, <2>2, LenProperties
<1> DEFINE new == NewObject(obj)
<1>3. /\ DOMAIN new = ObjectFields /\ DOMAIN new.rules = DOMAIN obj.rules
      /\ new.over \in BOOLEAN /\ ~new.over /\ new.total = 0 /\ new.caller = {}
  BY NewObjectIs
<1> HIDE DEF new
<1>4. DOMAIN gens = Ids /\ (\A x \in Ids : gens[x] = new) /\ 0 \in Epochs /\ 0 \in 0..0
  BY <1>1, Bounds DEF Ids, new
<1>5. \A r \in Readers : rd[r] = NewReader
  BY <1>1
<1>6. /\ DOMAIN NewReader = ReaderFields /\ NewReader.pc = "idle" /\ NewReader.since = 0
      /\ NewReader.gen = {} /\ NewReader.of = 0 /\ NewReader.i = 0 /\ NewReader.j = 0
      /\ NewReader.out = <<>>
  BY DEF NewReader, ReaderFields
<1>7. Shapes
  <2>1. ObjInv
    BY <1>2 DEF ObjInv
  <2>2. GensInv
    BY <1>3, <1>4 DEF GensInv
  <2>3. CachesInv
    BY <1>1, EmptyIs DEF CachesInv
  <2>4. ReadersInv
    BY <1>1, <1>4, <1>5, <1>6, Bounds, EmptyIs DEF ReadersInv, Cached, Alone, Numbers
  <2>. QED
    BY <1>1, <1>4, <2>1, <2>2, <2>3, <2>4 DEF Shapes, Numbers
<1>8. PrefixInv
  BY <1>1, <1>4, <1>5, <1>6, EmptyIs DEF PrefixInv
<1>9. CallerInv /\ ChangeInv
  BY <1>1, <1>3, <1>4 DEF CallerInv, ChangeInv, Ids, Steps
<1>10. IdleInv
  BY <1>1, <1>3, <1>4 DEF IdleInv, Ids
<1>11. FlowInv
  <2>1. gens[0] = new /\ caches[0] = <<>> /\ Len(<<>>) = 0
    BY <1>1, <1>4, EmptyIs DEF Ids
  <2>. QED
    BY <1>1, <1>3, <1>5, <1>6, <2>1 DEF FlowInv
<1>12. FailInv
  BY <1>5, <1>6 DEF FailInv
<1>. QED
  BY <1>7, <1>8, <1>9, <1>10, <1>11, <1>12 DEF IInv

LEMMA NextOK == IInv /\ [Next]_vars => IInv'
<1> SUFFICES ASSUME IInv, [Next]_vars PROVE IInv'
  OBVIOUS
<1>1. CASE UNCHANGED vars
  <2> USE <1>1 DEF vars, IInv
  <2>1. Numbers' = Numbers /\ Outdated' = Outdated
    BY DEF Numbers, Outdated
  <2>2. Shapes'
    BY <2>1 DEF Shapes, ObjInv, GensInv, CachesInv, ReadersInv
  <2>3. PrefixInv' /\ CallerInv' /\ ChangeInv' /\ IdleInv' /\ FailInv'
    BY <2>1 DEF PrefixInv, CallerInv, ChangeInv, IdleInv, FailInv
  <2>4. FlowInv'
    BY <2>1 DEF FlowInv, Sound
  <2>. QED
    BY <2>2, <2>3, <2>4
<1>2. CASE Next
  <2>1. ASSUME NEW r \in Readers, Iter(r) \/ Read(r) PROVE IInv'
    BY <2>1, IterStep, OwnStep, TakeSteps, WalkSteps, BusyStep, TurnStep, AppendStep, TailStep DEF Read
  <2>2. ASSUME NEW a \in obj.additions, Rdate(a[2]) \/ Exdate(a[2]) PROVE IInv'
    BY <2>2, DateStep
  <2>. QED
    BY <1>2, <2>1, <2>2, InvalidateStep DEF Next
<1>. QED
  BY <1>1, <1>2

(* The inductive invariant of the protocol. *)
THEOREM Invariance == Spec => []IInv
BY InitOK, NextOK, PTL DEF Spec

(* The types of the variables; who is about to release the lock has found more to
   yield, and an iterator has counted what it has yielded. *)
THEOREM ReadersTyped == Spec => []TypeOK
<1>1. IInv => TypeOK
  <2> SUFFICES ASSUME IInv PROVE TypeOK
    OBVIOUS
  <2>1. /\ changes \in Epochs /\ change \in Steps /\ complete \in BOOLEAN /\ stolen \in BOOLEAN
        /\ cacheNow \in Epochs /\ lock \in {{}} \cup {{r} : r \in Readers}
    BY NumbersAre DEF IInv, Shapes, ChangeInv, Steps
  <2>2. genNow \in {{}} \cup {{n} : n \in Epochs}
    BY NumbersAre DEF IInv, Shapes
  <2>3. ASSUME NEW r \in Readers
        PROVE  /\ rd[r].of \in Epochs /\ rd[r].gen \in {{}} \cup {{n} : n \in Epochs}
               /\ rd[r].since \in Epochs /\ rd[r].j \in 0..Chunk /\ rd[r].i = Len(rd[r].out)
               /\ rd[r].pc = "releasing" => rd[r].i < Len(caches[rd[r].of])
    <3>1. /\ rd[r].of \in Epochs /\ rd[r].gen \in Numbers /\ rd[r].since \in Epochs
          /\ rd[r].j \in 0..Chunk /\ rd[r].i = Len(rd[r].out)
      BY ReaderTyped, NumbersAre DEF IInv
    <3>2. rd[r].gen \in {{}} \cup {{n} : n \in Epochs}
      BY <3>1, NumbersAre DEF IInv
    <3>3. rd[r].pc = "releasing" => obj.cached
      BY DEF IInv, Shapes, ReadersInv, ObjInv, Alone
    <3>. QED
      BY <3>1, <3>2, <3>3 DEF IInv, PrefixInv
  <2>. QED
    BY <2>1, <2>2, <2>3 DEF TypeOK
<1>. QED
  BY <1>1, Invariance, PTL

(* Iterators of a cache have yielded what it begins with: they agree, whoever of them
   cached which, and whatever fails or changes. *)
THEOREM CacheReadsAgree == Spec => []ReadsAgree
<1>1. IInv => ReadsAgree
  <2> SUFFICES ASSUME IInv, obj.cached, NEW r \in Readers
               PROVE  IsPrefix(rd[r].out, caches[rd[r].of])
    BY DEF ReadsAgree
  <2> DEFINE out == rd[r].out   cache == caches[rd[r].of]
  <2>1. /\ Listed(out) /\ Listed(cache) /\ Len(out) <= Len(cache)
        /\ \A k \in 1 .. Len(out) : out[k] = cache[k]
    BY ReaderTyped DEF IInv, PrefixInv
  <2> HIDE DEF out, cache
  <2>2. Len(out) \in Nat /\ Len(cache) \in Nat /\ DOMAIN out = 1 .. Len(out)
        /\ DOMAIN cache = 1 .. Len(cache)
    BY <2>1, ListedIs
  <2>3. IsPrefix(out, cache)
    BY <2>1, <2>2 DEF IsPrefix
  <2>. QED
    BY <2>3 DEF out, cache
<1>. QED
  BY <1>1, Invariance, PTL

(* An iterator fails only where a set with a cache was changed under an iterator, or a
   rule cannot be continued: the lock and the generator never fail otherwise, and
   _len is set. *)
THEOREM FailuresExplained == Spec => []FailuresHaveCause
<1>1. IInv => FailuresHaveCause
  <2> SUFFICES ASSUME IInv, NEW r \in Readers, rd[r].pc = "raised", ~(obj.cached /\ Outdated # {})
               PROVE  \E x \in DOMAIN gens : RaisedIn(gens[x])
    BY DEF FailuresHaveCause, RaisedIn
  <2>. QED
    BY DEF IInv, Shapes, GensInv, FailInv
<1>. QED
  BY <1>1, Invariance, PTL

-----------------------------------------------------------------------------
(* The calendar.                                                              *)
Leap(y) == IF IsLeap(y) THEN 1 ELSE 0

(* The days before each month. *)
LEMMA MonthTable ==
  ASSUME NEW y \in Int
  PROVE  /\ Leap(y) \in {0, 1} /\ (IsLeap(y) <=> Leap(y) = 1)
         /\ MRange(y)[1] = 0 /\ MRange(y)[2] = 31 /\ MRange(y)[3] = 59 + Leap(y)
         /\ MRange(y)[4] = 90 + Leap(y) /\ MRange(y)[5] = 120 + Leap(y) /\ MRange(y)[6] = 151 + Leap(y)
         /\ MRange(y)[7] = 181 + Leap(y) /\ MRange(y)[8] = 212 + Leap(y) /\ MRange(y)[9] = 243 + Leap(y)
         /\ MRange(y)[10] = 273 + Leap(y) /\ MRange(y)[11] = 304 + Leap(y)
         /\ MRange(y)[12] = 334 + Leap(y) /\ MRange(y)[13] = 365 + Leap(y)
<1>1. CASE IsLeap(y)
  <2>1. MRange(y) = <<0, 31, 60, 91, 121, 152, 182, 213, 244, 274, 305, 335, 366>>
    BY <1>1 DEF MRange
  <2>. QED
    BY <1>1, <2>1 DEF Leap
<1>2. CASE ~IsLeap(y)
  <2>1. MRange(y) = <<0, 31, 59, 90, 120, 151, 181, 212, 243, 273, 304, 334, 365>>
    BY <1>2 DEF MRange
  <2>. QED
    BY <1>2, <2>1 DEF Leap
<1>. QED
  BY <1>1, <1>2

LEMMA Months ==
  ASSUME NEW y \in Int, NEW m \in 1..12
  PROVE  /\ MRange(y)[m] \in Nat /\ MRange(y)[m + 1] \in Nat
         /\ MonthLen(y, m) \in Nat /\ 28 <= MonthLen(y, m) /\ MonthLen(y, m) <= 31
         /\ MRange(y)[m + 1] = MRange(y)[m] + MonthLen(y, m) /\ MRange(y)[m + 1] <= YearLen(y)
<1> DEFINE r == MRange(y)
<1>1. /\ Leap(y) \in {0, 1} /\ YearLen(y) = 365 + Leap(y)
      /\ r[1] = 0 /\ r[2] = 31 /\ r[3] = 59 + Leap(y) /\ r[4] = 90 + Leap(y) /\ r[5] = 120 + Leap(y)
      /\ r[6] = 151 + Leap(y) /\ r[7] = 181 + Leap(y) /\ r[8] = 212 + Leap(y) /\ r[9] = 243 + Leap(y)
      /\ r[10] = 273 + Leap(y) /\ r[11] = 304 + Leap(y) /\ r[12] = 334 + Leap(y)
      /\ r[13] = 365 + Leap(y)
  BY MonthTable DEF YearLen, Leap
<1>2. MonthLen(y, m) = r[m + 1] - r[m]
  BY DEF MonthLen
<1> HIDE DEF r
<1>3. m = 1 \/ m = 2 \/ m = 3 \/ m = 4 \/ m = 5 \/ m = 6 \/ m = 7 \/ m = 8 \/ m = 9 \/ m = 10
      \/ m = 11 \/ m = 12
  OBVIOUS
<1>4. /\ r[m] \in Nat /\ r[m + 1] \in Nat /\ r[m + 1] <= YearLen(y)
      /\ r[m + 1] - r[m] \in Nat /\ 28 <= r[m + 1] - r[m] /\ r[m + 1] - r[m] <= 31
  BY <1>1, <1>3
<1>7. /\ MonthLen(y, m) \in Nat /\ 28 <= MonthLen(y, m) /\ MonthLen(y, m) <= 31
      /\ r[m + 1] = r[m] + MonthLen(y, m)
  <2>0. \A a, b \in Int : b = a + (b - a)
    OBVIOUS
  <2>1. r[m + 1] = r[m] + (r[m + 1] - r[m])
    <3>1. r[m] \in Int /\ r[m + 1] \in Int
      BY <1>4
    <3>. QED
      BY ONLY <2>0, <3>1
  <2>. QED
    BY <1>2, <1>4, <2>1
<1>. QED
  BY <1>4, <1>7 DEF r

LEMMA MonthsAscend ==
  ASSUME NEW y \in Int, NEW m \in 1..12, NEW n \in 1..12, m < n
  PROVE  MRange(y)[m + 1] <= MRange(y)[n]
<1> DEFINE r == MRange(y)
<1>1. /\ Leap(y) \in {0, 1}
      /\ r[1] = 0 /\ r[2] = 31 /\ r[3] = 59 + Leap(y) /\ r[4] = 90 + Leap(y) /\ r[5] = 120 + Leap(y)
      /\ r[6] = 151 + Leap(y) /\ r[7] = 181 + Leap(y) /\ r[8] = 212 + Leap(y) /\ r[9] = 243 + Leap(y)
      /\ r[10] = 273 + Leap(y) /\ r[11] = 304 + Leap(y) /\ r[12] = 334 + Leap(y)
      /\ r[13] = 365 + Leap(y)
  BY MonthTable
<1> HIDE DEF r
<1>2. \A k \in 1..13 : r[k] = ((367 * k - 362) \div 12) + (IF k <= 2 THEN 0 ELSE Leap(y) - 2)
  <2> TAKE k \in 1..13
  <2>1. k = 1 \/ k = 2 \/ k = 3 \/ k = 4 \/ k = 5 \/ k = 6 \/ k = 7 \/ k = 8 \/ k = 9 \/ k = 10
        \/ k = 11 \/ k = 12 \/ k = 13
    OBVIOUS
  <2>. QED
    BY <1>1, <2>1
<1>3. r[m + 1] <= r[n]
  <2>1. m + 1 \in 1..13 /\ n \in 1..13 /\ m + 1 <= n
    OBVIOUS
  <2>2. (367 * (m + 1) - 362) \div 12 <= (367 * n - 362) \div 12
    BY <2>1
  <2>3. m + 1 <= 2 /\ n > 2 => ((367 * (m + 1) - 362) \div 12) + 2 <= ((367 * n - 362) \div 12)
    BY <2>1
  <2>. QED
    BY <1>1, <1>2, <2>1, <2>2, <2>3
<1>. QED
  BY <1>3 DEF r

LEMMA YearsAreLong ==
  ASSUME NEW y \in Int
  PROVE  NewYear(y) \in Int /\ YearLen(y) \in {365, 366} /\ NewYear(y + 1) = NewYear(y) + YearLen(y)
BY DEF NewYear, YearLen, IsLeap

LEMMA YearsAscend ==
  ASSUME NEW y \in Int, NEW z \in Int, y < z
  PROVE  NewYear(y + 1) <= NewYear(z)
BY DEF NewYear

LEMMA LastDayIs == LastDay = 3652059 /\ NewYear(1) = 1 /\ NewYear(LastYear + 1) = LastDay + 1
<1>1. Leap(9999) = 0 /\ MRange(9999)[12] = 334
  BY MonthTable DEF Leap, IsLeap
<1>2. NewYear(9999) = 3651695 /\ NewYear(1) = 1 /\ NewYear(10000) = 3652060
  BY DEF NewYear
<1>. QED
  BY <1>1, <1>2 DEF LastDay, LastYear, Day

(* Every day is in a year: the one that 146097 days in 400 years suggest, or the next
   to it. *)
LEMMA YearExists ==
  ASSUME NEW day \in Int, day >= 1
  PROVE  \E y \in Int : y >= 1 /\ NewYear(y) <= day /\ day < NewYear(y + 1)
<1> DEFINE y == ((day * 400) \div 146097) + 1
<1>1. y \in Int /\ 146097 * (y - 1) <= day * 400 /\ day * 400 < 146097 * y
  OBVIOUS
<1> HIDE DEF y
<1>2. /\ NewYear(y - 1) \in Int /\ NewYear(y) \in Int /\ NewYear(y + 1) \in Int /\ NewYear(y + 2) \in Int
      /\ NewYear(y - 1) <= day /\ day < NewYear(y + 2)
  BY <1>1 DEF NewYear
<1>3. ASSUME NEW z \in Int, day < NewYear(z + 1) PROVE z >= 1
  BY <1>3 DEF NewYear
<1>4. y - 1 + 1 = y /\ y + 1 + 1 = y + 2 /\ y - 1 \in Int /\ y + 1 \in Int
  BY <1>1
<1>5. CASE day < NewYear(y)
  BY <1>1, <1>2, <1>3, <1>4, <1>5
<1>6. CASE NewYear(y) <= day /\ day < NewYear(y + 1)
  BY <1>1, <1>2, <1>3, <1>4, <1>6
<1>7. CASE NewYear(y + 1) <= day
  BY <1>1, <1>2, <1>3, <1>4, <1>7
<1>. QED
  BY <1>2, <1>5, <1>6, <1>7

LEMMA YearOfIs ==
  ASSUME NEW day \in Int, 1 <= day, day <= LastDay
  PROVE  /\ YearOf(day) \in 1..LastYear /\ NewYear(YearOf(day)) <= day
         /\ day < NewYear(YearOf(day) + 1)
<1> DEFINE guess == day \div 366
<1>0. day \in Int /\ day >= 1 /\ day <= 3652059
  BY LastDayIs
<1>1. guess \in Int /\ 366 * guess <= day /\ day < 366 * (guess + 1)
  BY <1>0
<1> HIDE DEF guess
<1>2. PICK y \in Int : y >= 1 /\ NewYear(y) <= day /\ day < NewYear(y + 1)
  BY <1>0, YearExists
<1>3. y \in guess .. guess + 28
  BY <1>0, <1>1, <1>2 DEF NewYear
<1> DEFINE z == YearOf(day)
<1>4. z \in guess .. guess + 28 /\ NewYear(z) <= day /\ day < NewYear(z + 1)
  BY <1>2, <1>3 DEF YearOf, guess
<1> HIDE DEF z
<1>5. z \in Int /\ z >= 1 /\ z <= 9999
  BY <1>0, <1>1, <1>4 DEF NewYear
<1>6. LastYear \in Int /\ z <= LastYear
  BY <1>5 DEF LastYear
<1>. QED
  BY <1>4, <1>5, <1>6 DEF z

LEMMA YearOfUnique ==
  ASSUME NEW day \in Int, 1 <= day, day <= LastDay, NEW y \in Int, NewYear(y) <= day, day < NewYear(y + 1)
  PROVE  YearOf(day) = y
<1>1. /\ YearOf(day) \in Int /\ NewYear(YearOf(day)) <= day /\ day < NewYear(YearOf(day) + 1)
  BY YearOfIs
<1>2. \A u, v \in Int : u < v => NewYear(u + 1) <= NewYear(v)
  BY YearsAscend
<1>3. \A u \in Int : NewYear(u) \in Int /\ u + 1 \in Int
  BY YearsAreLong
<1>4. ~(YearOf(day) < y) /\ ~(y < YearOf(day))
  BY <1>1, <1>2, <1>3
<1>. QED
  BY <1>1, <1>4

(* The year, the month and the day of a day, and back. *)
LEMMA DateIs ==
  ASSUME NEW day \in Int, 1 <= day, day <= LastDay
  PROVE  /\ Date(day).y \in 1..LastYear /\ Date(day).m \in 1..12
         /\ Date(day).d \in 1 .. MonthLen(Date(day).y, Date(day).m)
         /\ Day(Date(day).y, Date(day).m, Date(day).d) = day
<1> DEFINE y == YearOf(day)   i == day - NewYear(y)   m == MonthOf(y, i)
<1>1. y \in 1..LastYear /\ NewYear(y) <= day /\ day < NewYear(y + 1)
  BY YearOfIs
<1>2. y \in Int
  BY <1>1
<1>3. i \in Int /\ 0 <= i /\ i < YearLen(y) /\ day = NewYear(y) + i
  BY <1>1, <1>2, YearsAreLong
<1> HIDE DEF y, i
<1>4. \E k \in 1..12 : MRange(y)[k] <= i /\ i < MRange(y)[k + 1]
  <2>1. YearLen(y) = 365 + Leap(y)
    BY <1>2, MonthTable DEF YearLen
  <2>. QED
    BY <1>2, <1>3, <2>1, MonthTable
<1>5. m \in 1..12 /\ MRange(y)[m] <= i /\ i < MRange(y)[m + 1]
  BY <1>4 DEF MonthOf
<1> HIDE DEF m
<1>6. Date(day) = [y |-> y, m |-> m, d |-> i - MRange(y)[m] + 1]
  BY DEF Date, DateOfYear, DateIn, y, i, m
<1>7. MRange(y)[m] \in Int /\ MonthLen(y, m) \in Int /\ MRange(y)[m + 1] = MRange(y)[m] + MonthLen(y, m)
  <2>1. /\ MRange(y)[m] \in Nat /\ MonthLen(y, m) \in Nat
        /\ MRange(y)[m + 1] = MRange(y)[m] + MonthLen(y, m)
    BY <1>2, <1>5, Months, Zenon
  <2>. QED
    BY <2>1
<1>8. i - MRange(y)[m] + 1 \in 1 .. MonthLen(y, m)
  BY <1>3, <1>5, <1>7
<1>9. Day(y, m, i - MRange(y)[m] + 1) = day
  BY <1>2, <1>3, <1>5, <1>7, YearsAreLong DEF Day
<1>. QED
  BY <1>1, <1>5, <1>6, <1>8, <1>9

LEMMA DayIs ==
  ASSUME NEW y \in 1..LastYear, NEW m \in 1..12, NEW d \in 1 .. MonthLen(y, m)
  PROVE  /\ Day(y, m, d) \in Int /\ 1 <= Day(y, m, d) /\ Day(y, m, d) <= LastDay
         /\ Date(Day(y, m, d)) = [y |-> y, m |-> m, d |-> d]
<1> DEFINE i == MRange(y)[m] + d - 1   day == NewYear(y) + i
<1>0. LastYear \in Int
  BY DEF LastYear
<1>1. y \in Int /\ d \in Int /\ 1 <= y /\ y <= LastYear /\ LastYear \in Int /\ m \in 1..12
  BY <1>0
<1>2. /\ MRange(y)[m] \in Int /\ MRange(y)[m] >= 0 /\ MonthLen(y, m) \in Int
      /\ MRange(y)[m + 1] = MRange(y)[m] + MonthLen(y, m) /\ MRange(y)[m + 1] <= YearLen(y)
  <2>1. /\ MRange(y)[m] \in Nat /\ MRange(y)[m + 1] \in Nat /\ MonthLen(y, m) \in Nat
        /\ MRange(y)[m + 1] = MRange(y)[m] + MonthLen(y, m) /\ MRange(y)[m + 1] <= YearLen(y)
    BY <1>1, Months, Zenon
  <2>. QED
    BY <2>1
<1>3. i \in Int /\ 0 <= i /\ MRange(y)[m] <= i /\ i < MRange(y)[m + 1] /\ i < YearLen(y)
  BY <1>1, <1>2, YearsAreLong
<1>4. day = Day(y, m, d)
  BY <1>1, <1>2, YearsAreLong DEF Day
<1> HIDE DEF i
<1>5. day \in Int /\ NewYear(y) <= day /\ day < NewYear(y + 1)
  BY <1>1, <1>3, YearsAreLong
<1>6. NewYear(1) <= NewYear(y) /\ NewYear(y + 1) <= NewYear(LastYear + 1)
  <2>1. \A u, v \in Int : u < v => NewYear(u + 1) <= NewYear(v)
    BY YearsAscend
  <2>2. NewYear(1) <= NewYear(y)
    <3>1. CASE y = 1
      BY <3>1, YearsAreLong
    <3>2. CASE 1 < y
      <4>1. NewYear(1 + 1) <= NewYear(y)
        BY <1>1, <3>2, <2>1
      <4>2. NewYear(1 + 1) = NewYear(1) + YearLen(1) /\ NewYear(1) \in Int /\ YearLen(1) \in {365, 366}
        BY YearsAreLong
      <4>3. NewYear(y) \in Int
        BY <1>1, YearsAreLong
      <4>. QED
        BY <4>1, <4>2, <4>3
    <3>. QED
      BY <1>1, <3>1, <3>2
  <2>3. NewYear(y + 1) <= NewYear(LastYear + 1)
    <3>1. y < LastYear + 1
      BY <1>1
    <3>. QED
      BY <1>1, <3>1, <2>1
  <2>. QED
    BY <2>2, <2>3
<1>7. 1 <= day /\ day <= LastDay /\ LastDay \in Int
  <2>1. LastDay \in Int /\ NewYear(1) = 1 /\ NewYear(LastYear + 1) = LastDay + 1
    BY LastDayIs
  <2>. QED
    BY <1>1, <1>5, <1>6, <2>1, YearsAreLong
<1>8. YearOf(day) = y
  BY <1>1, <1>5, <1>7, YearOfUnique
<1>9. MonthOf(y, day - NewYear(y)) = m
  <2>1. day - NewYear(y) = i
    BY <1>1, <1>3, YearsAreLong
  <2>2. ASSUME NEW k \in 1..12, MRange(y)[k] <= i, i < MRange(y)[k + 1] PROVE k = m
    <3>1. /\ MRange(y)[k] \in Int /\ MRange(y)[k + 1] \in Int /\ MRange(y)[m + 1] \in Int
          /\ m < k => MRange(y)[m + 1] <= MRange(y)[k]
          /\ k < m => MRange(y)[k + 1] <= MRange(y)[m]
      <4>1. MRange(y)[k] \in Nat /\ MRange(y)[k + 1] \in Nat /\ MRange(y)[m + 1] \in Nat
        BY <1>1, Months, Zenon
      <4>2. m < k => MRange(y)[m + 1] <= MRange(y)[k]
        BY <1>1, MonthsAscend, Zenon
      <4>3. k < m => MRange(y)[k + 1] <= MRange(y)[m]
        BY <1>1, MonthsAscend, Zenon
      <4>. QED
        BY <4>1, <4>2, <4>3
    <3>. QED
      BY <1>2, <1>3, <2>2, <3>1
  <2>. QED
    BY <1>3, <2>1, <2>2 DEF MonthOf
<1>10. Date(day) = [y |-> y, m |-> m, d |-> day - NewYear(y) - MRange(y)[m] + 1]
  BY <1>8, <1>9 DEF Date, DateOfYear, DateIn
<1>11. day - NewYear(y) - MRange(y)[m] + 1 = d
  BY <1>1, <1>2, YearsAreLong DEF i
<1>. QED
  BY <1>4, <1>5, <1>7, <1>10, <1>11

LEMMA LaterMonth ==
  ASSUME NEW y \in Int, NEW m \in 1..12, NEW d \in 1 .. MonthLen(y, m),
         NEW z \in Int, NEW n \in 1..12, NEW e \in 1 .. MonthLen(z, n), 12 * y + m < 12 * z + n
  PROVE  Day(y, m, d) < Day(z, n, e)
<1>1. /\ MRange(y)[m] \in Nat /\ MRange(y)[m + 1] \in Nat /\ MonthLen(y, m) \in Nat
      /\ MRange(y)[m + 1] = MRange(y)[m] + MonthLen(y, m) /\ MRange(y)[m + 1] <= YearLen(y)
  BY Months, Zenon
<1>2. MRange(z)[n] \in Nat /\ MonthLen(z, n) \in Nat
  BY Months, Zenon
<1>3. /\ NewYear(y) \in Int /\ NewYear(z) \in Int /\ YearLen(y) \in Nat
      /\ NewYear(y + 1) = NewYear(y) + YearLen(y)
  BY YearsAreLong
<1>4. Day(y, m, d) = NewYear(y) + MRange(y)[m] + d - 1 /\ Day(z, n, e) = NewYear(z) + MRange(z)[n] + e - 1
  BY DEF Day
<1>5. CASE y = z
  <2>1. m < n
    BY <1>5
  <2>2. MRange(y)[m + 1] <= MRange(y)[n]
    BY <2>1, MonthsAscend, Zenon
  <2>. QED
    BY <1>1, <1>2, <1>3, <1>4, <1>5, <2>2
<1>6. CASE y < z
  BY <1>1, <1>2, <1>3, <1>4, <1>6, YearsAscend
<1>. QED
  BY <1>5, <1>6

-----------------------------------------------------------------------------
(* The fields of a delta.                                                     *)
LEMMA MagIs == ASSUME NEW x \in Int
               PROVE Mag(x) \in Nat /\ (x >= 0 => Mag(x) = x) /\ (x < 0 => Mag(x) = -x)
BY DEF Mag, Sign

(* What is carried and what remains make up the whole, and go its way. *)
LEMMA PartsAre ==
  ASSUME NEW x \in Int, NEW n \in {12, 24, 60}
  PROVE  /\ Over(x, n) \in Int /\ Rest(x, n) \in Int /\ n * Over(x, n) + Rest(x, n) = x
         /\ Mag(Rest(x, n)) < n
         /\ x >= 0 => Over(x, n) >= 0 /\ Rest(x, n) >= 0
         /\ x <= 0 => Over(x, n) <= 0 /\ Rest(x, n) <= 0
         /\ Mag(x) < n => Over(x, n) = 0 /\ Rest(x, n) = x
<1>1. CASE x >= 0
  <2>1. Over(x, n) = x \div n /\ Rest(x, n) = x % n
    BY <1>1, MagIs DEF Over, Rest, Sign
  <2>2. Mag(x) = x /\ Mag(x % n) = x % n
    BY <1>1, MagIs
  <2>. QED
    BY <1>1, <2>1, <2>2
<1>2. CASE x < 0
  <2>1. Over(x, n) = -((-x) \div n) /\ Rest(x, n) = -((-x) % n)
    BY <1>2, MagIs DEF Over, Rest, Sign
  <2>2. Mag(x) = -x /\ Mag(-((-x) % n)) = (-x) % n
    BY <1>2, MagIs
  <2>. QED
    BY <1>2, <2>1, <2>2
<1>. QED
  BY <1>1, <1>2

Amounts == {"years", "months", "days", "leapdays", "hours", "minutes", "seconds"}
Rests   == {"year", "month", "day", "hour", "weekday"}

LEMMA RelativesAre ==
  ASSUME NEW r \in Relatives
  PROVE  /\ \A f \in Amounts : r[f] \in Int
         /\ r.years \in Int /\ r.months \in Int /\ r.days \in Int /\ r.leapdays \in Int
         /\ r.hours \in Int /\ r.minutes \in Int /\ r.seconds \in Int
         /\ DOMAIN r = Amounts \cup Rests
BY DEF Relatives, Amounts, Rests

(* No field of a delta goes back, or none goes on. *)
Onward(r)   == /\ r.years >= 0 /\ r.months >= 0 /\ r.days >= 0
               /\ r.hours >= 0 /\ r.minutes >= 0 /\ r.seconds >= 0
Backward(r) == /\ r.years <= 0 /\ r.months <= 0 /\ r.days <= 0
               /\ r.hours <= 0 /\ r.minutes <= 0 /\ r.seconds <= 0

LEMMA FixIs ==
  ASSUME NEW r \in Relatives
  PROVE  /\ Fix(r) \in Relatives /\ Meaning(Fix(r)) = Meaning(r)
         /\ Mag(Fix(r).months) < 12 /\ Mag(Fix(r).hours) < 24
         /\ Mag(Fix(r).minutes) < 60 /\ Mag(Fix(r).seconds) < 60
         /\ Fix(r).leapdays = r.leapdays /\ \A f \in Rests : Fix(r)[f] = r[f]
         /\ (Onward(r) => Onward(Fix(r))) /\ (Backward(r) => Backward(Fix(r)))
<1> DEFINE minutes == r.minutes + Over(r.seconds, 60)
           hours   == r.hours + Over(minutes, 60)
           f       == Fix(r)
<1>1. /\ r.years \in Int /\ r.months \in Int /\ r.days \in Int /\ r.leapdays \in Int
      /\ r.hours \in Int /\ r.minutes \in Int /\ r.seconds \in Int
  BY RelativesAre
<1>2. /\ Over(r.seconds, 60) \in Int /\ Rest(r.seconds, 60) \in Int
      /\ 60 * Over(r.seconds, 60) + Rest(r.seconds, 60) = r.seconds /\ Mag(Rest(r.seconds, 60)) < 60
  BY <1>1, PartsAre
<1>3. minutes \in Int
  BY <1>1, <1>2
<1> HIDE DEF minutes
<1>4. /\ Over(minutes, 60) \in Int /\ Rest(minutes, 60) \in Int
      /\ 60 * Over(minutes, 60) + Rest(minutes, 60) = minutes /\ Mag(Rest(minutes, 60)) < 60
  BY <1>3, PartsAre
<1>5. hours \in Int
  BY <1>1, <1>4
<1> HIDE DEF hours
<1>6. /\ Over(hours, 24) \in Int /\ Rest(hours, 24) \in Int
      /\ 24 * Over(hours, 24) + Rest(hours, 24) = hours /\ Mag(Rest(hours, 24)) < 24
  BY <1>5, PartsAre
<1>7. /\ Over(r.months, 12) \in Int /\ Rest(r.months, 12) \in Int
      /\ 12 * Over(r.months, 12) + Rest(r.months, 12) = r.months /\ Mag(Rest(r.months, 12)) < 12
  BY <1>1, PartsAre
<1>8. f = [r EXCEPT !.seconds = Rest(r.seconds, 60), !.minutes = Rest(minutes, 60),
                    !.hours = Rest(hours, 24), !.days = r.days + Over(hours, 24),
                    !.months = Rest(r.months, 12), !.years = r.years + Over(r.months, 12)]
  BY DEF Fix, minutes, hours, Relatives
<1>9. /\ f.seconds = Rest(r.seconds, 60) /\ f.minutes = Rest(minutes, 60) /\ f.hours = Rest(hours, 24)
      /\ f.days = r.days + Over(hours, 24) /\ f.months = Rest(r.months, 12)
      /\ f.years = r.years + Over(r.months, 12)
      /\ f.leapdays = r.leapdays /\ \A g \in Rests : f[g] = r[g]
  BY <1>8, RelativesAre DEF Relatives, Rests
<1>10. f \in Relatives
  <2> DEFINE a == Rest(r.seconds, 60)   b == Rest(minutes, 60)   c == Rest(hours, 24)
             d == r.days + Over(hours, 24)   e == Rest(r.months, 12)   g == r.years + Over(r.months, 12)
  <2>1. a \in Int /\ b \in Int /\ c \in Int /\ d \in Int /\ e \in Int /\ g \in Int
    BY <1>1, <1>2, <1>4, <1>6, <1>7
  <2>2. f = [r EXCEPT !.seconds = a, !.minutes = b, !.hours = c, !.days = d, !.months = e, !.years = g]
    BY <1>8
  <2> HIDE DEF a, b, c, d, e, g
  <2>. QED
    BY <2>1, <2>2 DEF Relatives
<1>11. /\ minutes = r.minutes + Over(r.seconds, 60) /\ hours = r.hours + Over(minutes, 60)
  BY DEF minutes, hours
<1> HIDE DEF f
<1>12. MonthsOf(f) = MonthsOf(r) /\ SecondsOf(f) = SecondsOf(r)
  BY <1>1, <1>2, <1>4, <1>6, <1>7, <1>9, <1>11 DEF MonthsOf, SecondsOf
<1>13. ASSUME Onward(r) PROVE Onward(f)
  <2>1. Over(r.seconds, 60) >= 0 /\ Rest(r.seconds, 60) >= 0
    BY <1>1, <1>13, PartsAre DEF Onward
  <2>2. minutes >= 0
    BY <1>1, <1>2, <1>11, <1>13, <2>1 DEF Onward
  <2>3. Over(minutes, 60) >= 0 /\ Rest(minutes, 60) >= 0
    BY <1>3, <2>2, PartsAre
  <2>4. hours >= 0
    BY <1>1, <1>4, <1>11, <1>13, <2>3 DEF Onward
  <2>5. Over(hours, 24) >= 0 /\ Rest(hours, 24) >= 0
    BY <1>5, <2>4, PartsAre
  <2>6. Over(r.months, 12) >= 0 /\ Rest(r.months, 12) >= 0
    BY <1>1, <1>13, PartsAre DEF Onward
  <2>. QED
    BY <1>1, <1>6, <1>7, <1>9, <1>13, <2>1, <2>3, <2>5, <2>6 DEF Onward
<1>14. ASSUME Backward(r) PROVE Backward(f)
  <2>1. Over(r.seconds, 60) <= 0 /\ Rest(r.seconds, 60) <= 0
    BY <1>1, <1>14, PartsAre DEF Backward
  <2>2. minutes <= 0
    BY <1>1, <1>2, <1>11, <1>14, <2>1 DEF Backward
  <2>3. Over(minutes, 60) <= 0 /\ Rest(minutes, 60) <= 0
    BY <1>3, <2>2, PartsAre
  <2>4. hours <= 0
    BY <1>1, <1>4, <1>11, <1>14, <2>3 DEF Backward
  <2>5. Over(hours, 24) <= 0 /\ Rest(hours, 24) <= 0
    BY <1>5, <2>4, PartsAre
  <2>6. Over(r.months, 12) <= 0 /\ Rest(r.months, 12) <= 0
    BY <1>1, <1>14, PartsAre DEF Backward
  <2>. QED
    BY <1>1, <1>6, <1>7, <1>9, <1>14, <2>1, <2>3, <2>5, <2>6 DEF Backward
<1>. QED
  BY <1>2, <1>4, <1>6, <1>7, <1>9, <1>10, <1>12, <1>13, <1>14 DEF Meaning, f

Within(r) == Mag(r.months) < 12 /\ Mag(r.hours) < 24 /\ Mag(r.minutes) < 60 /\ Mag(r.seconds) < 60
Fitting   == {r \in Relatives : Within(r)}

LEMMA FixFits == ASSUME NEW r \in Relatives
                 PROVE  Fix(r) \in Fitting /\ Meaning(Fix(r)) = Meaning(r)
BY FixIs DEF Fitting, Within

LEMMA MeaningIs ==
  ASSUME NEW r \in Relatives
  PROVE  /\ MonthsOf(r) \in Int /\ SecondsOf(r) \in Int
         /\ Meaning(r).months = MonthsOf(r) /\ Meaning(r).seconds = SecondsOf(r)
BY RelativesAre DEF MonthsOf, SecondsOf, Meaning

LEMMA MixedIs ==
  ASSUME NEW r \in Relatives, NEW o \in Relatives, NEW abs \in Relatives, NEW other \in Relatives,
         NEW sign \in {1, -1}
  PROVE  /\ Mixed(r, o, sign, abs, other) \in Fitting
         /\ Meaning(Mixed(r, o, sign, abs, other)) =
              [months  |-> MonthsOf(r) + sign * MonthsOf(o),
               seconds |-> SecondsOf(r) + sign * SecondsOf(o)]
<1> DEFINE q == [ years |-> r.years + sign * o.years, months |-> r.months + sign * o.months,
                  days |-> r.days + sign * o.days, hours |-> r.hours + sign * o.hours,
                  minutes |-> r.minutes + sign * o.minutes, seconds |-> r.seconds + sign * o.seconds,
                  leapdays |-> IF abs.leapdays # 0 THEN abs.leapdays ELSE other.leapdays,
                  year |-> Either(abs.year, other.year), month |-> Either(abs.month, other.month),
                  day |-> Either(abs.day, other.day), hour |-> Either(abs.hour, other.hour),
                  weekday |-> Either(abs.weekday, other.weekday) ]
<1>1. /\ \A f \in Amounts : r[f] \in Int /\ o[f] \in Int
      /\ r.years \in Int /\ r.months \in Int /\ r.days \in Int
      /\ r.hours \in Int /\ r.minutes \in Int /\ r.seconds \in Int
      /\ o.years \in Int /\ o.months \in Int /\ o.days \in Int
      /\ o.hours \in Int /\ o.minutes \in Int /\ o.seconds \in Int
  BY RelativesAre
<1>2. q \in Relatives
  <2>1. /\ q.years \in Int /\ q.months \in Int /\ q.days \in Int
        /\ q.hours \in Int /\ q.minutes \in Int /\ q.seconds \in Int
    BY <1>1
  <2>2. q.leapdays \in Int
    BY RelativesAre
  <2>3. /\ q.year \subseteq 1..LastYear /\ q.month \subseteq 1..12 /\ q.day \subseteq 1..31
        /\ q.hour \subseteq 0..23 /\ q.weekday \subseteq (0..6) \X Int
    BY DEF Either, Relatives
  <2>. QED
    BY <2>1, <2>2, <2>3 DEF Relatives
<1>3. MonthsOf(q) = MonthsOf(r) + sign * MonthsOf(o) /\ SecondsOf(q) = SecondsOf(r) + sign * SecondsOf(o)
  <2>1. CASE sign = 1
    BY <1>1, <2>1 DEF MonthsOf, SecondsOf
  <2>2. CASE sign = -1
    <3>1. \A x \in Int : sign * x = -x
      BY <2>2
    <3>2. /\ MonthsOf(r) \in Int /\ SecondsOf(r) \in Int /\ MonthsOf(o) \in Int /\ SecondsOf(o) \in Int
      BY MeaningIs
    <3>3. /\ q.years = r.years - o.years /\ q.months = r.months - o.months /\ q.days = r.days - o.days
          /\ q.hours = r.hours - o.hours /\ q.minutes = r.minutes - o.minutes
          /\ q.seconds = r.seconds - o.seconds
      BY <1>1, <3>1
    <3> HIDE DEF q
    <3>4. MonthsOf(q) = MonthsOf(r) - MonthsOf(o)
      BY <1>1, <3>3 DEF MonthsOf
    <3>5. SecondsOf(q) = SecondsOf(r) - SecondsOf(o)
      BY <1>1, <3>3 DEF SecondsOf
    <3>. QED
      BY <3>1, <3>2, <3>4, <3>5
  <2>. QED
    BY <2>1, <2>2
<1>4. Mixed(r, o, sign, abs, other) = Fix(q)
  BY DEF Mixed
<1> HIDE DEF q
<1>. QED
  BY <1>2, <1>3, <1>4, FixFits DEF Meaning

LEMMA TimesIs ==
  ASSUME NEW r \in Relatives, NEW n \in Int
  PROVE  /\ Times(r, n) \in Fitting
         /\ Meaning(Times(r, n)) = [months |-> n * MonthsOf(r), seconds |-> n * SecondsOf(r)]
<1> DEFINE q == [r EXCEPT !.years = n * r.years, !.months = n * r.months, !.days = n * r.days,
                          !.hours = n * r.hours, !.minutes = n * r.minutes, !.seconds = n * r.seconds]
<1>1. /\ r.years \in Int /\ r.months \in Int /\ r.days \in Int
      /\ r.hours \in Int /\ r.minutes \in Int /\ r.seconds \in Int
  BY RelativesAre
<1>2. /\ n * r.years \in Int /\ n * r.months \in Int /\ n * r.days \in Int
      /\ n * r.hours \in Int /\ n * r.minutes \in Int /\ n * r.seconds \in Int
  BY <1>1
<1>3. /\ q.years = n * r.years /\ q.months = n * r.months /\ q.days = n * r.days
      /\ q.hours = n * r.hours /\ q.minutes = n * r.minutes /\ q.seconds = n * r.seconds
  BY DEF Relatives
<1>4. q \in Relatives
  BY <1>2 DEF Relatives
<1>5. Times(r, n) = Fix(q)
  BY DEF Times, Relatives
<1> HIDE DEF q
<1>6. MonthsOf(q) = n * MonthsOf(r) /\ SecondsOf(q) = n * SecondsOf(r)
  <2>1. MonthsOf(q) = n * MonthsOf(r)
    BY <1>1, <1>3 DEF MonthsOf
  <2>2. SecondsOf(q) = n * SecondsOf(r)
    BY <1>1, <1>3 DEF SecondsOf
  <2>. QED
    BY <2>1, <2>2
<1>. QED
  BY <1>4, <1>5, <1>6, FixFits DEF Meaning

LEMMA PositiveIs == ASSUME NEW r \in Fitting
                    PROVE  Positive(r) \in Fitting
<1> DEFINE q == [r EXCEPT !.years = Mag(r.years), !.months = Mag(r.months), !.days = Mag(r.days),
                          !.hours = Mag(r.hours), !.minutes = Mag(r.minutes), !.seconds = Mag(r.seconds)]
<1>1. r \in Relatives /\ Within(r)
  BY DEF Fitting
<1>2. /\ Mag(r.years) \in Nat /\ Mag(r.months) \in Nat /\ Mag(r.days) \in Nat
      /\ Mag(r.hours) \in Nat /\ Mag(r.minutes) \in Nat /\ Mag(r.seconds) \in Nat
  BY <1>1, RelativesAre, MagIs
<1>3. q \in Relatives
  <2> DEFINE a == Mag(r.seconds)   b == Mag(r.minutes)   c == Mag(r.hours)
             d == Mag(r.days)   e == Mag(r.months)   g == Mag(r.years)
  <2>1. a \in Int /\ b \in Int /\ c \in Int /\ d \in Int /\ e \in Int /\ g \in Int
    BY <1>2
  <2>2. q = [r EXCEPT !.years = g, !.months = e, !.days = d, !.hours = c, !.minutes = b, !.seconds = a]
    OBVIOUS
  <2> HIDE DEF q, a, b, c, d, e, g
  <2>. QED
    BY <1>1, <2>1, <2>2 DEF Relatives
<1>4. Positive(r) = q
  BY <1>1 DEF Positive, Relatives
<1>5. \A x \in Nat : Mag(x) = x
  BY MagIs
<1>6. /\ q.months = Mag(r.months) /\ q.hours = Mag(r.hours)
      /\ q.minutes = Mag(r.minutes) /\ q.seconds = Mag(r.seconds)
  BY <1>1 DEF Relatives
<1> HIDE DEF q
<1>7. Within(q)
  BY <1>1, <1>2, <1>5, <1>6 DEF Within
<1>. QED
  BY <1>3, <1>4, <1>7 DEF Fitting

-----------------------------------------------------------------------------
(* Adding whole months to a datetime.                                         *)
LEMMA OfMonthsIs ==
  ASSUME NEW n \in Int
  PROVE  /\ OfMonths(n) \in Relatives /\ MonthsOf(OfMonths(n)) = n
         /\ OfMonths(n).months = Rest(n, 12) /\ OfMonths(n).years = Over(n, 12)
         /\ OfMonths(n).days = 0 /\ OfMonths(n).leapdays = 0 /\ OfMonths(n).hours = 0
         /\ OfMonths(n).minutes = 0 /\ OfMonths(n).seconds = 0
         /\ OfMonths(n).year = {} /\ OfMonths(n).month = {} /\ OfMonths(n).day = {}
         /\ OfMonths(n).hour = {} /\ OfMonths(n).weekday = {}
<1>1. Rest(n, 12) \in Int /\ Over(n, 12) \in Int /\ 12 * Over(n, 12) + Rest(n, 12) = n
  BY PartsAre
<1> DEFINE a == Rest(n, 12)   b == Over(n, 12)   q == OfMonths(n)
<1>2. q = [Relative EXCEPT !.months = a, !.years = b]
  BY DEF OfMonths
<1> HIDE DEF a, b, q
<1>3. a \in Int /\ b \in Int /\ 12 * b + a = n
  BY <1>1 DEF a, b
<1>4. Relative \in Relatives
  BY DEF Relative, Relatives
<1>5. q \in Relatives
  BY <1>2, <1>3, <1>4 DEF Relatives
<1>6. /\ q.months = a /\ q.years = b /\ q.days = 0 /\ q.leapdays = 0 /\ q.hours = 0 /\ q.minutes = 0
      /\ q.seconds = 0 /\ q.year = {} /\ q.month = {} /\ q.day = {} /\ q.hour = {} /\ q.weekday = {}
  BY <1>2 DEF Relative
<1>. QED
  BY <1>3, <1>5, <1>6 DEF MonthsOf, a, b, q

LEMMA MonthsAgree == ASSUME NEW y \in Int, NEW m \in 1..12, NEW z \in Int, NEW n \in 1..12,
                            12 * y + m = 12 * z + n
                     PROVE  y = z /\ m = n
OBVIOUS

LEMMA MinIs == ASSUME NEW a \in Int, NEW b \in Int
               PROVE  Min({a, b}) = IF a <= b THEN a ELSE b
BY DEF Min

(* A delta without absolute fields leads to the month it says, to the same day or to
   the last of the month, and from there on. *)
DayIn(t, y, m) == Day(y, m, Min({MonthLen(y, m), Date(t.day).d}))
Plain(r) == /\ r \in Relatives /\ Mag(r.months) < 12
            /\ r.year = {} /\ r.month = {} /\ r.day = {} /\ r.hour = {} /\ r.weekday = {}
            /\ r.leapdays = 0

LEMMA PlusPlain ==
  ASSUME NEW t \in Datetimes, NEW r, Plain(r)
  PROVE  \E y \in Int, m \in 1..12 :
           /\ 12 * y + m = 12 * Date(t.day).y + Date(t.day).m + MonthsOf(r)
           /\ Min({MonthLen(y, m), Date(t.day).d}) \in 1 .. MonthLen(y, m)
           /\ Plus(t, r) = Advanced([day |-> DayIn(t, y, m), sec |-> t.sec], SecondsOf(r))
           /\ MonthsOf(r) = 0 => DayIn(t, y, m) = t.day
<1> DEFINE w == Date(t.day)   to == MonthAfter(t, r)   d == Min({MonthLen(to.y, to.m), w.d})
<1>1. /\ w.y \in Int /\ w.m \in 1..12 /\ w.d \in 1 .. MonthLen(w.y, w.m) /\ w.d \in Int
      /\ Day(w.y, w.m, w.d) = t.day
  <2>1. t.day \in Int /\ 1 <= t.day /\ t.day <= LastDay
    BY DEF Datetimes
  <2>. QED
    BY <2>1, DateIs
<1>2. /\ r.years \in Int /\ r.months \in Int /\ -12 < r.months /\ r.months < 12
  BY RelativesAre, MagIs DEF Plain
<1>3. /\ w.m + r.months > 12 => to = [y |-> w.y + r.years + 1, m |-> (w.m + r.months) - 12]
      /\ w.m + r.months < 1 => to = [y |-> (w.y + r.years) - 1, m |-> w.m + r.months + 12]
      /\ ~(w.m + r.months > 12) /\ ~(w.m + r.months < 1)
           => to = [y |-> w.y + r.years, m |-> w.m + r.months]
  <2>1. Given(r.year, Date(t.day).y) = w.y /\ Given(r.month, Date(t.day).m) = w.m
    BY DEF Given, Plain
  <2> HIDE DEF w
  <2> DEFINE year == w.y + r.years   month == w.m + r.months
  <2>2. MonthAfter(t, r) = CASE month > 12 -> [y |-> year + 1, m |-> month - 12]
                             [] month < 1  -> [y |-> year - 1, m |-> month + 12]
                             [] OTHER      -> [y |-> year, m |-> month]
    BY <2>1, Zenon DEF MonthAfter, Carried
  <2>3. year \in Int /\ month \in Int
    BY <1>1, <1>2
  <2> HIDE DEF year, month
  <2>4. /\ month > 12 => MonthAfter(t, r) = [y |-> year + 1, m |-> month - 12]
        /\ month < 1 => MonthAfter(t, r) = [y |-> year - 1, m |-> month + 12]
        /\ ~(month > 12) /\ ~(month < 1) => MonthAfter(t, r) = [y |-> year, m |-> month]
    BY <2>2, <2>3
  <2>. QED
    BY <2>4 DEF year, month
<1> HIDE DEF w, to
<1>4. to.y \in Int /\ to.m \in 1..12 /\ 12 * to.y + to.m = 12 * w.y + w.m + MonthsOf(r)
  <2>1. \/ to.y = w.y + r.years + 1 /\ to.m = (w.m + r.months) - 12 /\ w.m + r.months > 12
        \/ to.y = (w.y + r.years) - 1 /\ to.m = w.m + r.months + 12 /\ w.m + r.months < 1
        \/ to.y = w.y + r.years /\ to.m = w.m + r.months
             /\ ~(w.m + r.months > 12) /\ ~(w.m + r.months < 1)
    BY <1>3
  <2>2. MonthsOf(r) = 12 * r.years + r.months
    BY DEF MonthsOf
  <2> DEFINE y == to.y   m == to.m   a == w.y   b == w.m   c == r.years   e == r.months
  <2>3. \/ y = a + c + 1 /\ m = (b + e) - 12 /\ b + e > 12
        \/ y = (a + c) - 1 /\ m = b + e + 12 /\ b + e < 1
        \/ y = a + c /\ m = b + e /\ ~(b + e > 12) /\ ~(b + e < 1)
    BY <2>1
  <2>4. a \in Int /\ b \in Int /\ 1 <= b /\ b <= 12 /\ c \in Int /\ e \in Int /\ -12 < e /\ e < 12
    BY <1>1, <1>2
  <2>5. MonthsOf(r) = 12 * c + e
    BY <2>2
  <2> HIDE DEF y, m, a, b, c, e
  <2>6. y \in Int /\ m \in Int /\ 1 <= m /\ m <= 12 /\ 12 * y + m = 12 * a + b + (12 * c + e)
    BY <2>3, <2>4
  <2>. QED
    BY <2>5, <2>6 DEF y, m, a, b
<1>5. MonthLen(to.y, to.m) \in Nat /\ 28 <= MonthLen(to.y, to.m)
  BY <1>4, Months, Zenon
<1>6. d \in 1 .. MonthLen(to.y, to.m) /\ d <= w.d /\ (w.d <= MonthLen(to.y, to.m) => d = w.d)
  BY <1>1, <1>5, MinIs
<1> HIDE DEF d
<1>7. Replaced(t, r, to) = [day |-> Day(to.y, to.m, d), sec |-> t.sec]
  BY DEF Replaced, Given, Plain, w, to, d
<1>8. Plus(t, r) = Advanced([day |-> Day(to.y, to.m, d), sec |-> t.sec], SecondsOf(r))
  <2>1. (IF to.m > 2 /\ IsLeap(to.y) THEN r.leapdays ELSE 0) = 0
    BY DEF Plain
  <2>2. (r.days + 0) * 86400 + r.hours * 3600 + r.minutes * 60 + r.seconds = SecondsOf(r)
    BY RelativesAre DEF Plain, SecondsOf
  <2>. QED
    BY <1>7, <2>1, <2>2 DEF Plus, Shifted, Jumped, Plain, to
<1>9. ASSUME MonthsOf(r) = 0 PROVE Day(to.y, to.m, d) = t.day
  <2>1. to.y = w.y /\ to.m = w.m
    <3>1. 12 * to.y + to.m = 12 * w.y + w.m
      BY <1>1, <1>4, <1>9
    <3>. QED
      BY <1>1, <1>4, <3>1, MonthsAgree
  <2>. QED
    BY <1>1, <1>6, <2>1
<1>10. Day(to.y, to.m, d) = DayIn(t, to.y, to.m) /\ d = Min({MonthLen(to.y, to.m), Date(t.day).d})
  BY DEF d, w, DayIn
<1>. QED
  BY <1>4, <1>6, <1>8, <1>9, <1>10 DEF w

-----------------------------------------------------------------------------
(* The time between two datetimes.                                            *)
LEMMA SecondIs == \A x \in 0..LastSecond : x \in Int /\ 0 <= x /\ x < 86400
<1>1. \A x \in Int : x <= LastSecond => x < 86400
  BY DEF LastSecond
<1>2. LastSecond \in Int
  BY DEF LastSecond
<1>3. \A x \in 0..LastSecond : x \in Int /\ 0 <= x /\ x <= LastSecond
  BY <1>2
<1> TAKE x \in 0..LastSecond
<1>4. x \in Int /\ 0 <= x /\ x <= LastSecond
  BY <1>3
<1>. QED
  BY <1>1, <1>4

Instants == [day : Int, sec : 0..LastSecond]

(* The seconds between two datetimes lead from the one to the other, and their sign says
   which is earlier. *)
LEMMA SecondsAre ==
  ASSUME NEW t \in Instants, NEW u \in Instants
  PROVE  /\ Seconds(t, u) \in Int /\ Advanced(u, Seconds(t, u)) = t
         /\ Before(t, u) <=> Seconds(t, u) < 0
<1> DEFINE a == t.day   b == t.sec   c == u.day   d == u.sec   s == Seconds(t, u)
<1>1. a \in Int /\ c \in Int /\ b \in Int /\ d \in Int /\ 0 <= b /\ b < 86400 /\ 0 <= d /\ d < 86400
  <2>1. a \in Int /\ c \in Int /\ b \in 0..LastSecond /\ d \in 0..LastSecond
    BY DEF Instants
  <2>. QED
    BY <2>1, SecondIs
<1>2. s = (a - c) * 86400 + b - d /\ t = [day |-> a, sec |-> b]
  BY DEF Seconds, Instants
<1>3. /\ Advanced(u, s) = [day |-> c + ((d + s) \div 86400), sec |-> (d + s) % 86400]
      /\ Before(t, u) <=> a < c \/ (a = c /\ b < d)
  BY DEF Advanced, Before
<1> HIDE DEF a, b, c, d, s
<1>4. s \in Int /\ d + s = (a - c) * 86400 + b
  BY <1>1, <1>2
<1>5. (d + s) \div 86400 = a - c /\ (d + s) % 86400 = b
  BY <1>1, <1>4
<1>6. a < c \/ (a = c /\ b < d) <=> s < 0
  BY <1>1, <1>2
<1>. QED
  BY <1>1, <1>2, <1>3, <1>4, <1>5, <1>6 DEF s

LEMMA DatetimesAre ==
  ASSUME NEW t \in Datetimes
  PROVE  /\ t \in Instants /\ t.day \in Int
         /\ Date(t.day).y \in Int /\ Date(t.day).m \in 1..12
         /\ Date(t.day).d \in 1 .. MonthLen(Date(t.day).y, Date(t.day).m)
         /\ Day(Date(t.day).y, Date(t.day).m, Date(t.day).d) = t.day
         /\ Date(t.day).y \in 1..LastYear
<1>1. t \in Instants /\ t.day \in Int /\ 1 <= t.day /\ t.day <= LastDay
  BY DEF Datetimes, Instants
<1>2. /\ Date(t.day).y \in 1..LastYear /\ Date(t.day).m \in 1..12
      /\ Date(t.day).d \in 1 .. MonthLen(Date(t.day).y, Date(t.day).m)
      /\ Day(Date(t.day).y, Date(t.day).m, Date(t.day).d) = t.day
  BY <1>1, DateIs
<1>. QED
  BY <1>1, <1>2

(* The datetime that n months lead to from u. *)
At(u, n) == Plus(u, OfMonths(n))

LEMMA AtIs ==
  ASSUME NEW u \in Datetimes, NEW n \in Int
  PROVE  \E y \in Int, m \in 1..12 :
           /\ 12 * y + m = 12 * Date(u.day).y + Date(u.day).m + n
           /\ Min({MonthLen(y, m), Date(u.day).d}) \in 1 .. MonthLen(y, m)
           /\ At(u, n) = [day |-> DayIn(u, y, m), sec |-> u.sec] /\ At(u, n) \in Instants
           /\ n = 0 => At(u, n) = u
<1> DEFINE r == OfMonths(n)
<1>1. Plain(r) /\ MonthsOf(r) = n /\ SecondsOf(r) = 0
  <2>1. Mag(Rest(n, 12)) < 12
    BY PartsAre
  <2>. QED
    BY <2>1, OfMonthsIs DEF Plain, SecondsOf
<1> HIDE DEF r
<1>2. PICK y \in Int, m \in 1..12 :
        /\ 12 * y + m = 12 * Date(u.day).y + Date(u.day).m + n
        /\ Min({MonthLen(y, m), Date(u.day).d}) \in 1 .. MonthLen(y, m)
        /\ Plus(u, r) = Advanced([day |-> DayIn(u, y, m), sec |-> u.sec], 0)
        /\ n = 0 => DayIn(u, y, m) = u.day
  BY <1>1, PlusPlain
<1>3. u = [day |-> u.day, sec |-> u.sec] /\ u.sec \in Int /\ 0 <= u.sec /\ u.sec < 86400
      /\ u.sec \in 0..LastSecond
  <2>1. u = [day |-> u.day, sec |-> u.sec] /\ u.sec \in 0..LastSecond
    BY DEF Datetimes
  <2>. QED
    BY <2>1, SecondIs
<1>4. DayIn(u, y, m) \in Int
  <2>1. MRange(y)[m] \in Nat /\ MonthLen(y, m) \in Nat
    BY Months, Zenon
  <2>. QED
    BY <1>2, <2>1, YearsAreLong DEF DayIn, Day
<1>5. At(u, n) = [day |-> DayIn(u, y, m), sec |-> u.sec]
  <2> DEFINE k == DayIn(u, y, m)   s == u.sec
  <2>1. Plus(u, r) = [day |-> k + ((s + 0) \div 86400), sec |-> (s + 0) % 86400]
    BY <1>2 DEF Advanced
  <2>2. k \in Int /\ s \in Int /\ 0 <= s /\ s < 86400
    BY <1>3, <1>4
  <2> HIDE DEF k, s
  <2>3. k + ((s + 0) \div 86400) = k /\ (s + 0) % 86400 = s
    BY <2>2
  <2>. QED
    BY <2>1, <2>3 DEF At, r, k, s
<1>6. At(u, n) \in Instants
  BY <1>3, <1>4, <1>5 DEF Instants
<1>7. n = 0 => At(u, n) = u
  BY <1>2, <1>3, <1>5
<1>. QED
  BY <1>2, <1>5, <1>6, <1>7, Zenon

(* More months than there are between the months of two datetimes go beyond the one,
   fewer stay before it. *)
LEMMA MonthsOrder ==
  ASSUME NEW t \in Datetimes, NEW u \in Datetimes, NEW n \in Int
  PROVE  /\ MonthsApart(t, u) \in Int /\ At(u, n) \in Instants /\ At(u, n).day \in Int
         /\ MonthsApart(t, u) < n => t.day < At(u, n).day
         /\ n < MonthsApart(t, u) => At(u, n).day < t.day
         /\ n = 0 => At(u, n) = u
<1> DEFINE v == Date(t.day)   w == Date(u.day)
<1>1. PICK y \in Int, m \in 1..12 :
        /\ 12 * y + m = 12 * Date(u.day).y + Date(u.day).m + n
        /\ Min({MonthLen(y, m), Date(u.day).d}) \in 1 .. MonthLen(y, m)
        /\ At(u, n) = [day |-> DayIn(u, y, m), sec |-> u.sec] /\ At(u, n) \in Instants
        /\ n = 0 => At(u, n) = u
  BY AtIs
<1> DEFINE d == Min({MonthLen(y, m), Date(u.day).d})
<1>2. d \in 1 .. MonthLen(y, m) /\ At(u, n).day = Day(y, m, d) /\ At(u, n).day \in Int
  BY <1>1 DEF DayIn, Instants
<1>3. /\ v.y \in Int /\ v.m \in 1..12 /\ v.d \in 1 .. MonthLen(v.y, v.m) /\ Day(v.y, v.m, v.d) = t.day
      /\ w.y \in Int /\ w.m \in 1..12
  BY DatetimesAre
<1>4. MonthsApart(t, u) = (v.y - w.y) * 12 + v.m - w.m /\ 12 * y + m = 12 * w.y + w.m + n
  BY <1>1 DEF MonthsApart
<1> HIDE DEF v, w, d
<1>5. MonthsApart(t, u) \in Int /\ 12 * y + m = 12 * v.y + v.m + (n - MonthsApart(t, u))
  <2> DEFINE a == v.y   b == v.m   f == w.y   g == w.m   apart == MonthsApart(t, u)
  <2>1. /\ a \in Int /\ b \in Int /\ f \in Int /\ g \in Int
        /\ apart = (a - f) * 12 + b - g /\ 12 * y + m = 12 * f + g + n
    BY <1>3, <1>4
  <2> HIDE DEF a, b, f, g, apart
  <2>2. apart \in Int /\ 12 * f + g + n = 12 * a + b + (n - apart)
    BY <2>1
  <2>. QED
    BY <2>1, <2>2 DEF a, b, apart
<1>6. ASSUME MonthsApart(t, u) < n PROVE t.day < At(u, n).day
  <2>1. 12 * v.y + v.m < 12 * y + m
    BY <1>3, <1>5, <1>6
  <2>. QED
    BY <1>2, <1>3, <2>1, LaterMonth
<1>7. ASSUME n < MonthsApart(t, u) PROVE At(u, n).day < t.day
  <2>1. 12 * y + m < 12 * v.y + v.m
    BY <1>3, <1>5, <1>7
  <2>. QED
    BY <1>2, <1>3, <2>1, LaterMonth
<1>. QED
  BY <1>1, <1>2, <1>5, <1>6, <1>7

(* The months between two datetimes: all that do not go beyond the first of them, which
   takes one month less at most. *)
LEMMA MonthsBetweenIs ==
  ASSUME NEW t \in Datetimes, NEW u \in Datetimes
  PROVE  /\ MonthsBetween(t, u) \in Int
         /\ Before(t, u) => MonthsBetween(t, u) <= 0 /\ ~Before(At(u, MonthsBetween(t, u)), t)
         /\ ~Before(t, u) => MonthsBetween(t, u) >= 0 /\ ~Before(t, At(u, MonthsBetween(t, u)))
<1> DEFINE a == MonthsApart(t, u)   step == IF Before(t, u) THEN 1 ELSE -1
           Beyond(j) == TooFar(t, u, a + step * j)
           k == CHOOSE l \in 0..2 : ~Beyond(l) /\ \A j \in 0 .. l - 1 : Beyond(j)
<1>1. t.day \in Int /\ u.day \in Int /\ a \in Int
  BY DatetimesAre, MonthsOrder
<1>2. /\ Before(t, u) => t.day <= u.day /\ ~Before(u, t)
      /\ ~Before(t, u) => u.day <= t.day
  <2>1. t.sec \in Int /\ u.sec \in Int
    BY SecondIs DEF Datetimes
  <2>. QED
    BY <1>1, <2>1 DEF Before
<1>3. At(u, 0) = u
  BY MonthsOrder
<1>4. \A n \in Int : TooFar(t, u, n) = IF Before(t, u) THEN Before(At(u, n), t) ELSE Before(t, At(u, n))
  BY DEF TooFar, At
<1>5. /\ Before(t, u) => a <= 0 /\ (a = 0 => ~TooFar(t, u, a))
      /\ ~Before(t, u) => a >= 0 /\ (a = 0 => ~TooFar(t, u, a))
  <2>1. /\ a < 0 => t.day < u.day
        /\ 0 < a => u.day < t.day
    BY <1>3, MonthsOrder
  <2>. QED
    BY <1>1, <1>2, <1>3, <1>4, <2>1
<1>6. (Before(t, u) => step = 1) /\ (~Before(t, u) => step = -1)
  OBVIOUS
<1>7. MonthsBetween(t, u) = a + step * k
  BY DEF MonthsBetween
<1> HIDE DEF a, step
<1>8. a + step * 0 = a /\ a + step * 1 = a + step
  BY <1>1, <1>6
<1>9. ~TooFar(t, u, a + step)
  <2>1. \A n \in Int : /\ a < n => ~Before(At(u, n), t)
                       /\ n < a => ~Before(t, At(u, n))
    <3> TAKE n \in Int
    <3>1. At(u, n).day \in Int /\ (a < n => t.day < At(u, n).day) /\ (n < a => At(u, n).day < t.day)
      BY MonthsOrder DEF a
    <3>. QED
      BY <1>1, <3>1 DEF Before
  <2>. QED
    BY <1>1, <1>4, <1>6, <2>1
<1>10. (Beyond(0) <=> TooFar(t, u, a)) /\ ~Beyond(1)
  BY <1>8, <1>9
<1>11. Beyond(k) <=> TooFar(t, u, a + step * k)
  OBVIOUS
<1> HIDE DEF Beyond
<1>12. k \in {0, 1} /\ ~Beyond(k) /\ (k = 1 => Beyond(0))
  <2>1. \E l \in 0..2 : ~Beyond(l) /\ \A j \in 0 .. l - 1 : Beyond(j)
    <3>1. CASE Beyond(0)
      <4>1. 1 \in 0..2 /\ \A j \in 0 .. 1 - 1 : j = 0
        OBVIOUS
      <4>. QED
        BY <1>10, <3>1, <4>1
    <3>2. CASE ~Beyond(0)
      <4>1. 0 \in 0..2 /\ 0 .. 0 - 1 = {}
        OBVIOUS
      <4>. QED
        BY <3>2, <4>1
    <3>. QED
      BY <3>1, <3>2
  <2>2. k \in 0..2 /\ ~Beyond(k) /\ \A j \in 0 .. k - 1 : Beyond(j)
    BY <2>1
  <2> HIDE DEF k
  <2>3. k \in {0, 1} \/ k = 2
    BY <2>2
  <2>4. k = 2 => 1 \in 0 .. k - 1
    OBVIOUS
  <2>5. k = 1 => 0 \in 0 .. k - 1
    OBVIOUS
  <2>. QED
    BY <1>10, <2>2, <2>3, <2>4, <2>5
<1> HIDE DEF k
<1>13. /\ MonthsBetween(t, u) \in Int /\ ~TooFar(t, u, MonthsBetween(t, u))
       /\ Before(t, u) => MonthsBetween(t, u) <= 0
       /\ ~Before(t, u) => MonthsBetween(t, u) >= 0
  <2>1. CASE k = 0
    BY <1>1, <1>5, <1>7, <1>8, <1>11, <1>12, <2>1
  <2>2. CASE k = 1
    <3>1. MonthsBetween(t, u) = a + step /\ ~TooFar(t, u, a + step) /\ TooFar(t, u, a)
      BY <1>7, <1>8, <1>9, <1>10, <1>12, <2>2
    <3>2. (Before(t, u) => a < 0) /\ (~Before(t, u) => a > 0)
      BY <1>1, <1>5, <3>1 DEF a
    <3>. QED
      BY <1>1, <1>6, <3>1, <3>2
  <2>. QED
    BY <1>12, <2>1, <2>2
<1>. QED
  BY <1>4, <1>13

LEMMA DifferenceIs ==
  ASSUME NEW t \in Datetimes, NEW u \in Datetimes
  PROVE  LET n == MonthsBetween(t, u)   s == Seconds(t, At(u, n))   d == Difference(t, u) IN
         /\ n \in Int /\ s \in Int /\ d \in Fitting /\ MonthsOf(d) = n /\ SecondsOf(d) = s
         /\ Plus(u, d) = t
         /\ Before(t, u) => Backward(d)
         /\ ~Before(t, u) => Onward(d)
<1> DEFINE n == MonthsBetween(t, u)   s == Seconds(t, At(u, n))
           q == [OfMonths(n) EXCEPT !.seconds = s]   d == Difference(t, u)
<1>1. /\ n \in Int
      /\ Before(t, u) => n <= 0 /\ ~Before(At(u, n), t)
      /\ ~Before(t, u) => n >= 0 /\ ~Before(t, At(u, n))
  BY MonthsBetweenIs
<1> HIDE DEF n
<1>2. t \in Instants /\ At(u, n) \in Instants
  BY <1>1, DatetimesAre, AtIs
<1>3. /\ s \in Int /\ Advanced(At(u, n), s) = t
      /\ Before(t, u) => n <= 0 /\ s <= 0
      /\ ~Before(t, u) => n >= 0 /\ s >= 0
  <2>1. Before(At(u, n), t) <=> Seconds(At(u, n), t) < 0
    BY <1>2, SecondsAre
  <2>2. Seconds(At(u, n), t) = -s
    <3> DEFINE v == At(u, n)   a == t.day   b == t.sec   c == v.day   e == v.sec
    <3>1. /\ Seconds(v, t) = (c - a) * 86400 + e - b
          /\ s = (a - c) * 86400 + b - e
      BY DEF Seconds
    <3>2. a \in Int /\ c \in Int /\ b \in Int /\ e \in Int
      BY <1>2, SecondIs DEF Instants
    <3> HIDE DEF v, a, b, c, e
    <3>3. (c - a) * 86400 + e - b = -((a - c) * 86400 + b - e)
      BY <3>2
    <3>. QED
      BY <3>1, <3>3 DEF v
  <2>3. s \in Int /\ Advanced(At(u, n), s) = t /\ (Before(t, At(u, n)) <=> s < 0)
    BY <1>2, SecondsAre
  <2>. QED
    BY <1>1, <2>1, <2>2, <2>3
<1>4. d = Fix(q)
  BY DEF Difference, At, n
<1> HIDE DEF s, d
<1>5. /\ q \in Relatives /\ q.years = Over(n, 12) /\ q.months = Rest(n, 12) /\ q.days = 0
      /\ q.hours = 0 /\ q.minutes = 0 /\ q.seconds = s /\ q.leapdays = 0
      /\ q.year = {} /\ q.month = {} /\ q.day = {} /\ q.hour = {} /\ q.weekday = {}
  <2> DEFINE r == OfMonths(n)
  <2>1. /\ r \in Relatives /\ r.years = Over(n, 12) /\ r.months = Rest(n, 12) /\ r.days = 0
        /\ r.hours = 0 /\ r.minutes = 0 /\ r.leapdays = 0
        /\ r.year = {} /\ r.month = {} /\ r.day = {} /\ r.hour = {} /\ r.weekday = {}
    BY <1>1, OfMonthsIs
  <2> HIDE DEF r
  <2>2. q = [r EXCEPT !.seconds = s]
    BY DEF r
  <2> HIDE DEF q
  <2>. QED
    BY <1>3, <2>1, <2>2 DEF Relatives
<1> HIDE DEF q
<1>6. Over(n, 12) \in Int /\ Rest(n, 12) \in Int /\ 12 * Over(n, 12) + Rest(n, 12) = n
  BY <1>1, PartsAre
<1>7. MonthsOf(q) = n /\ SecondsOf(q) = s
  <2>1. MonthsOf(q) = n
    BY <1>5, <1>6 DEF MonthsOf
  <2>2. SecondsOf(q) = s
    BY <1>3, <1>5 DEF SecondsOf
  <2>. QED
    BY <2>1, <2>2
<1>8. d \in Fitting /\ MonthsOf(d) = n /\ SecondsOf(d) = s
  <2>1. d \in Fitting /\ Meaning(d) = Meaning(q)
    BY <1>4, <1>5, FixFits
  <2>. QED
    BY <1>7, <2>1 DEF Meaning
<1>9. Plain(d)
  BY <1>4, <1>5, <1>8, FixIs DEF Plain, Fitting, Within, Rests
<1>10. Plus(u, d) = t
  <2>1. PICK y \in Int, m \in 1..12 :
          /\ 12 * y + m = 12 * Date(u.day).y + Date(u.day).m + n
          /\ At(u, n) = [day |-> DayIn(u, y, m), sec |-> u.sec]
    BY <1>1, AtIs
  <2>2. PICK z \in Int, k \in 1..12 :
          /\ 12 * z + k = 12 * Date(u.day).y + Date(u.day).m + n
          /\ Plus(u, d) = Advanced([day |-> DayIn(u, z, k), sec |-> u.sec], s)
    BY <1>8, <1>9, PlusPlain
  <2>3. y = z /\ m = k
    BY <2>1, <2>2, MonthsAgree
  <2>. QED
    BY <1>3, <2>1, <2>2, <2>3
<1>11. (Before(t, u) => Backward(d)) /\ (~Before(t, u) => Onward(d))
  <2>1. /\ n <= 0 => Over(n, 12) <= 0 /\ Rest(n, 12) <= 0
        /\ n >= 0 => Over(n, 12) >= 0 /\ Rest(n, 12) >= 0
    BY <1>1, PartsAre
  <2>2. (Before(t, u) => Backward(q)) /\ (~Before(t, u) => Onward(q))
    BY <1>3, <1>5, <2>1 DEF Backward, Onward
  <2>. QED
    BY <1>4, <1>5, <2>2, FixIs
<1>. QED
  BY <1>1, <1>3, <1>8, <1>10, <1>11 DEF n, s, d

-----------------------------------------------------------------------------
(* The days of a year.                                                        *)

(* The month of the n-th day, and the days before it in a year y. *)
LEMMA YearDayIndexIs ==
  ASSUME NEW n \in Int, 1 <= n, n <= 365
  PROVE  LET k == CHOOSE i \in 1..12 : n <= YearDayIndex[i] /\ (i = 1 \/ YearDayIndex[i - 1] < n)
             d == IF k = 1 THEN n ELSE n - YearDayIndex[k - 1] IN
         /\ k \in 1..12 /\ d \in Int /\ 1 <= d /\ d <= 31 /\ (n > 59 <=> k > 2)
         /\ \A y \in Int : /\ d <= MonthLen(y, k)
                           /\ MRange(y)[k] + d = IF k > 2 THEN n + Leap(y) ELSE n
<1> DEFINE Is(i) == n <= YearDayIndex[i] /\ (i = 1 \/ YearDayIndex[i - 1] < n)
           k == CHOOSE i \in 1..12 : Is(i)
           d == IF k = 1 THEN n ELSE n - YearDayIndex[k - 1]
<1>1. /\ YearDayIndex[1] = 31 /\ YearDayIndex[2] = 59 /\ YearDayIndex[3] = 90 /\ YearDayIndex[4] = 120
      /\ YearDayIndex[5] = 151 /\ YearDayIndex[6] = 181 /\ YearDayIndex[7] = 212 /\ YearDayIndex[8] = 243
      /\ YearDayIndex[9] = 273 /\ YearDayIndex[10] = 304 /\ YearDayIndex[11] = 334
      /\ YearDayIndex[12] = 366
  BY DEF YearDayIndex
<1>2. /\ Is(1) <=> n <= 31
      /\ Is(2) <=> n <= 59 /\ 31 < n
      /\ Is(3) <=> n <= 90 /\ 59 < n
      /\ Is(4) <=> n <= 120 /\ 90 < n
      /\ Is(5) <=> n <= 151 /\ 120 < n
      /\ Is(6) <=> n <= 181 /\ 151 < n
      /\ Is(7) <=> n <= 212 /\ 181 < n
      /\ Is(8) <=> n <= 243 /\ 212 < n
      /\ Is(9) <=> n <= 273 /\ 243 < n
      /\ Is(10) <=> n <= 304 /\ 273 < n
      /\ Is(11) <=> n <= 334 /\ 304 < n
      /\ Is(12) <=> n <= 366 /\ 334 < n
  BY <1>1
<1> HIDE DEF Is
<1>3. \E i \in 1..12 : Is(i)
  <2>1. Is(1) \/ Is(2) \/ Is(3) \/ Is(4) \/ Is(5) \/ Is(6) \/ Is(7) \/ Is(8) \/ Is(9) \/ Is(10)
        \/ Is(11) \/ Is(12)
    BY <1>2
  <2>. QED
    BY <2>1
<1>4. k \in 1..12 /\ Is(k)
  BY <1>3
<1> HIDE DEF k
<1>5. k = 1 \/ k = 2 \/ k = 3 \/ k = 4 \/ k = 5 \/ k = 6 \/ k = 7 \/ k = 8 \/ k = 9 \/ k = 10
      \/ k = 11 \/ k = 12
  BY <1>4
<1>6. d \in Int /\ 1 <= d /\ d <= 31 /\ (n > 59 <=> k > 2)
  BY <1>1, <1>2, <1>4, <1>5
<1>7. ASSUME NEW y \in Int
      PROVE  /\ MRange(y)[k] + d = IF k > 2 THEN n + Leap(y) ELSE n
             /\ d <= MRange(y)[k + 1] - MRange(y)[k]
  <2> DEFINE r == MRange(y)
  <2>1. /\ Leap(y) \in {0, 1}
        /\ r[1] = 0 /\ r[2] = 31 /\ r[3] = 59 + Leap(y) /\ r[4] = 90 + Leap(y) /\ r[5] = 120 + Leap(y)
        /\ r[6] = 151 + Leap(y) /\ r[7] = 181 + Leap(y) /\ r[8] = 212 + Leap(y) /\ r[9] = 243 + Leap(y)
        /\ r[10] = 273 + Leap(y) /\ r[11] = 304 + Leap(y) /\ r[12] = 334 + Leap(y)
        /\ r[13] = 365 + Leap(y)
    BY MonthTable
  <2> HIDE DEF r
  <2>2. r[k] + d = IF k > 2 THEN n + Leap(y) ELSE n
    BY <1>1, <1>5, <2>1
  <2>3. d <= r[k + 1] - r[k]
    BY <1>1, <1>2, <1>4, <1>5, <2>1
  <2>. QED
    BY <2>2, <2>3 DEF r
<1>. QED
  BY <1>4, <1>6, <1>7, Zenon DEF k, d, Is, MonthLen

LEMMA YearDayIs ==
  ASSUME NEW t \in Datetimes, NEW n \in Int, 1 <= n, n <= 365, NEW leap \in BOOLEAN
  PROVE  Plus(t, OnYearDay(Relative, n, leap)) =
           [t EXCEPT !.day = NewYear(Date(t.day).y)
                             + (IF ~leap /\ IsLeap(Date(t.day).y) /\ n > 59 THEN n + 1 ELSE n) - 1]
<1> DEFINE k == CHOOSE i \in 1..12 : n <= YearDayIndex[i] /\ (i = 1 \/ YearDayIndex[i - 1] < n)
           d == IF k = 1 THEN n ELSE n - YearDayIndex[k - 1]
           r == OnYearDay(Relative, n, leap)
           y == Date(t.day).y
<1>1. /\ k \in 1..12 /\ d \in Int /\ 1 <= d /\ d <= 31 /\ (n > 59 <=> k > 2)
      /\ \A z \in Int : /\ d <= MonthLen(z, k)
                        /\ MRange(z)[k] + d = IF k > 2 THEN n + Leap(z) ELSE n
  BY YearDayIndexIs
<1>2. /\ r.month = {k} /\ r.day = {d} /\ r.leapdays = (IF leap /\ n > 59 THEN -1 ELSE 0)
      /\ r.years = 0 /\ r.months = 0 /\ r.days = 0 /\ r.hours = 0 /\ r.minutes = 0 /\ r.seconds = 0
      /\ r.year = {} /\ r.hour = {} /\ r.weekday = {}
  BY DEF OnYearDay, Relative
<1> HIDE DEF k, d, r
<1>3. y \in Int /\ t.day \in Int /\ t.sec \in Int /\ 0 <= t.sec /\ t.sec < 86400
      /\ t = [day |-> t.day, sec |-> t.sec]
  BY DatetimesAre, SecondIs DEF Datetimes
<1> HIDE DEF y
<1>4. MonthAfter(t, r) = [y |-> y, m |-> k]
  <2>1. Given(r.year, Date(t.day).y) + r.years = y /\ Given(r.month, Date(t.day).m) + r.months = k
    BY <1>1, <1>2, <1>3 DEF Given, y
  <2>2. ~(k > 12) /\ ~(k < 1)
    BY <1>1
  <2>. QED
    BY <2>1, <2>2, Zenon DEF MonthAfter, Carried
<1>5. MonthLen(y, k) \in Nat /\ MRange(y)[k] \in Nat /\ d <= MonthLen(y, k)
  <2>1. \A z \in Int, m \in 1..12 : MonthLen(z, m) \in Nat /\ MRange(z)[m] \in Nat
    BY Months, Zenon
  <2>2. MonthLen(y, k) \in Nat /\ MRange(y)[k] \in Nat
    <3>1. y \in Int /\ k \in 1..12
      BY <1>1, <1>3
    <3>. QED
      BY <2>1, <3>1, Zenon
  <2>. QED
    BY <1>1, <1>3, <2>2
<1>6. Replaced(t, r, MonthAfter(t, r)) = [day |-> Day(y, k, d), sec |-> t.sec]
  <2>1. Given(r.day, Date(t.day).d) = d
    BY <1>2 DEF Given
  <2>2. Min({MonthLen(y, k), d}) = d
    BY <1>1, <1>5, MinIs
  <2>. QED
    BY <1>2, <1>4, <2>1, <2>2 DEF Replaced
<1> DEFINE extra == IF k > 2 /\ IsLeap(y) THEN r.leapdays ELSE 0
<1>7. Plus(t, r) = Advanced([day |-> Day(y, k, d), sec |-> t.sec],
                             (0 + extra) * 86400 + 0 * 3600 + 0 * 60 + 0)
  BY <1>2, <1>4, <1>6 DEF Plus, Shifted, Jumped
<1>8. Leap(y) \in {0, 1} /\ (IsLeap(y) <=> Leap(y) = 1) /\ NewYear(y) \in Int
  BY <1>3, MonthTable, YearsAreLong
<1>9. extra \in Int /\ Day(y, k, d) \in Int
      /\ Day(y, k, d) + extra
           = NewYear(y) + (IF ~leap /\ IsLeap(y) /\ n > 59 THEN n + 1 ELSE n) - 1
  <2>1. MRange(y)[k] + d = IF k > 2 THEN n + Leap(y) ELSE n
    BY <1>1, <1>3
  <2>2. Day(y, k, d) = NewYear(y) + (MRange(y)[k] + d) - 1
    BY <1>1, <1>5, <1>8 DEF Day
  <2>. QED
    BY <1>1, <1>2, <1>8, <2>1, <2>2
<1> HIDE DEF extra
<1>10. Plus(t, r) = [day |-> Day(y, k, d) + extra, sec |-> t.sec]
  <2> DEFINE a == Day(y, k, d)   b == t.sec   s == (0 + extra) * 86400 + 0 * 3600 + 0 * 60 + 0
  <2>1. Plus(t, r) = [day |-> a + ((b + s) \div 86400), sec |-> (b + s) % 86400]
    BY <1>7 DEF Advanced
  <2>2. s = 86400 * extra
    BY <1>9
  <2> HIDE DEF a, b, s
  <2>3. (b + s) \div 86400 = extra /\ (b + s) % 86400 = b
    BY <1>3, <1>9, <2>2 DEF b
  <2>. QED
    BY <2>1, <2>3 DEF a, b
<1>. QED
  BY <1>3, <1>9, <1>10 DEF r, y

-----------------------------------------------------------------------------
(* The operations.                                                            *)

(* Both datetimes are of those there are, and the delta is normal and means what was
   computed: what holds after every number of operations. *)
DeltaInv ==
  /\ first \in Datetimes /\ second \in Datetimes
  /\ delta \in Fitting /\ meant = Meaning(delta)
  /\ ops \in 0..MaxOps

LEMMA MomentIs ==
  ASSUME NEW x \in Moments
  PROVE  Moment(x) \in Datetimes
<1>1. x \in (1..LastYear) \X (1..12) \X (1..31) \X (0..LastSecond) /\ x[3] <= MonthLen(x[1], x[2])
  BY DeltaAssumption
<1> DEFINE y == x[1]   m == x[2]   d == x[3]   s == x[4]
<1>2. y \in 1..LastYear /\ m \in 1..12 /\ d \in 1..31 /\ s \in 0..LastSecond /\ d <= MonthLen(y, m)
  BY <1>1
<1>3. Moment(x) = [day |-> Day(y, m, d), sec |-> s]
  BY DEF Moment
<1> HIDE DEF y, m, d, s
<1>4. d \in 1 .. MonthLen(y, m)
  <2>1. y \in Int
    BY <1>2 DEF LastYear
  <2>2. MonthLen(y, m) \in Nat
    BY <1>2, <2>1, Months, Zenon
  <2>. QED
    BY <1>2, <2>2
<1>5. Day(y, m, d) \in Int /\ 1 <= Day(y, m, d) /\ Day(y, m, d) <= LastDay
  BY <1>2, <1>4, DayIs
<1>6. LastDay \in Int
  BY LastDayIs
<1>. QED
  BY <1>2, <1>3, <1>5, <1>6 DEF Datetimes

LEMMA DeltaInvInit == DeltaInit => DeltaInv
<1> SUFFICES ASSUME DeltaInit PROVE DeltaInv
  OBVIOUS
<1>1. first \in Datetimes /\ second \in Datetimes
  BY MomentIs DEF DeltaInit
<1>2. Relative \in Fitting
  BY MagIs DEF Relative, Fitting, Relatives, Within
<1>3. 0 \in 0..MaxOps
  BY DeltaAssumption
<1>. QED
  BY <1>1, <1>2, <1>3 DEF DeltaInit, DeltaInv

LEMMA DeltaInvStep == DeltaInv /\ [DeltaNext]_deltaVars => DeltaInv'
<1> SUFFICES ASSUME DeltaInv, [DeltaNext]_deltaVars PROVE DeltaInv'
  OBVIOUS
<1> USE DEF DeltaInv
<1>1. delta \in Relatives /\ meant.months = MonthsOf(delta) /\ meant.seconds = SecondsOf(delta)
  BY MeaningIs DEF Fitting
<1>2. \A o \in Int : o \in 0 .. MaxOps - 1 => o + 1 \in 0..MaxOps
  BY DeltaAssumption
<1>3. 0 \in 0 .. MaxOps - 1 /\ 1 .. MaxOps - 1 \subseteq 0 .. MaxOps - 1
  BY DeltaAssumption
<1>4. ASSUME NEW r, NEW m, Computed(r, m), r \in Fitting, m = Meaning(r), ops \in 0 .. MaxOps - 1
      PROVE DeltaInv'
  BY <1>2, <1>4 DEF Computed
<1>5. CASE Subtract
  <2>1. /\ Difference(first, second) \in Fitting
        /\ MonthsOf(Difference(first, second)) = MonthsBetween(first, second)
        /\ SecondsOf(Difference(first, second))
             = Seconds(first, Plus(second, OfMonths(MonthsBetween(first, second))))
    BY DifferenceIs DEF At
  <2>. QED
    BY <1>3, <1>4, <1>5, <2>1 DEF Subtract, Meaning
<1>6. ASSUME NEW k \in Deltas PROVE FromKeywords(k) \in Relatives
  BY DeltaAssumption
<1>7. ASSUME NEW r \in Relatives, Construct(r) PROVE DeltaInv'
  BY <1>3, <1>4, <1>7, FixFits DEF Construct
<1>8. ASSUME NEW r \in Relatives, Add(r) PROVE DeltaInv'
  <2>1. /\ Sum(delta, r) \in Fitting
        /\ Meaning(Sum(delta, r)) = [months  |-> MonthsOf(delta) + 1 * MonthsOf(r),
                                     seconds |-> SecondsOf(delta) + 1 * SecondsOf(r)]
    BY <1>1, MixedIs DEF Sum
  <2>2. 1 * MonthsOf(r) = MonthsOf(r) /\ 1 * SecondsOf(r) = SecondsOf(r)
    BY MeaningIs
  <2>. QED
    BY <1>1, <1>3, <1>4, <1>8, <2>1, <2>2 DEF Add
<1>9. ASSUME NEW r \in Relatives, Less(r) PROVE DeltaInv'
  <2>1. /\ Minus(delta, r) \in Fitting
        /\ Meaning(Minus(delta, r)) = [months  |-> MonthsOf(delta) + (-1) * MonthsOf(r),
                                       seconds |-> SecondsOf(delta) + (-1) * SecondsOf(r)]
    BY <1>1, MixedIs DEF Minus
  <2>2. /\ MonthsOf(delta) + (-1) * MonthsOf(r) = MonthsOf(delta) - MonthsOf(r)
        /\ SecondsOf(delta) + (-1) * SecondsOf(r) = SecondsOf(delta) - SecondsOf(r)
    BY <1>1, MeaningIs
  <2>. QED
    BY <1>1, <1>3, <1>4, <1>9, <2>1, <2>2 DEF Less
<1>10. ASSUME NEW n \in Factors, Scale(n) PROVE DeltaInv'
  <2>1. n \in Int
    BY DeltaAssumption
  <2>2. /\ Times(delta, n) \in Fitting
        /\ Meaning(Times(delta, n)) = [months |-> n * MonthsOf(delta), seconds |-> n * SecondsOf(delta)]
    BY <1>1, <2>1, TimesIs
  <2>. QED
    BY <1>1, <1>3, <1>4, <1>10, <2>2 DEF Scale
<1>11. CASE Absolute
  BY <1>3, <1>4, <1>11, PositiveIs DEF Absolute
<1>12. CASE Move
  <2>1. PICK r \in {delta, Negated(delta)} : CanAdd(second, r) /\ first' = Plus(second, r)
    BY <1>12 DEF Move
  <2>2. first' \in Datetimes
    BY <2>1 DEF CanAdd
  <2>. QED
    BY <1>2, <1>3, <1>12, <2>2 DEF Move
<1>13. CASE UNCHANGED deltaVars
  BY <1>13 DEF deltaVars
<1>14. \A k \in Deltas : FromKeywords(k) \in Relatives /\ Fix(FromKeywords(k)) \in Relatives
  BY <1>6, FixIs
<1>. QED
  BY <1>5, <1>7, <1>8, <1>9, <1>10, <1>11, <1>12, <1>13, <1>14 DEF DeltaNext

(* However many operations lead to a delta, both datetimes are of those there are, the
   fields of the delta are within their ranges (_fix) and it means what was computed. *)
THEOREM DeltaInvariant == DeltaSpec => []DeltaInv
BY DeltaInvInit, DeltaInvStep, PTL DEF DeltaSpec

(* No operation of relativedelta loses anything when a field overflows into the next, nor
   counts it twice: _fix and the operators, for any deltas, factors and moments. *)
THEOREM NothingLost == DeltaSpec => []NothingIsLost
<1>1. DeltaInv => NothingIsLost
  <2> SUFFICES ASSUME DeltaInv PROVE NothingIsLost
    OBVIOUS
  <2>1. delta \in Relatives /\ Within(delta) /\ ops \in 0..MaxOps /\ Meaning(delta) = meant
    BY DEF DeltaInv, Fitting
  <2>2. /\ {delta.years, delta.days, delta.leapdays} \subseteq Int
        /\ delta.month \subseteq 1..12 /\ delta.day \subseteq 1..31 /\ delta.hour \subseteq 0..23
    BY <2>1 DEF Relatives
  <2>. QED
    BY <2>1, <2>2 DEF NothingIsLost, Normal, Within
<1>. QED
  BY <1>1, DeltaInvariant, PTL

(* relativedelta(dt1, dt2), added to dt2, gives dt1, and none of its fields goes the other
   way; yearday and nlyearday give the day of the year they say: for all datetimes. *)
THEOREM DeltasLead == DeltaSpec => []DeltasLeadRight
<1>1. DeltaInv => DeltasLeadRight
  <2> SUFFICES ASSUME DeltaInv PROVE DeltasLeadRight
    OBVIOUS
  <2>1. first \in Datetimes /\ second \in Datetimes
    BY DEF DeltaInv
  <2>2. DifferenceLeadsBack
    <3> DEFINE d == Difference(first, second)
    <3>1. /\ Plus(second, d) = first /\ d \in Fitting
          /\ Before(first, second) => Backward(d)
          /\ ~Before(first, second) => Onward(d)
      BY <2>1, DifferenceIs
    <3> HIDE DEF d
    <3>2. ASSUME NEW f \in {"years", "months", "days", "hours", "minutes", "seconds"}
          PROVE  IF Before(first, second) THEN d[f] <= 0 ELSE d[f] >= 0
      BY <3>1, Zenon DEF Backward, Onward
    <3>. QED
      BY <3>1, <3>2 DEF DifferenceLeadsBack, d
  <2>3. YearDaysAreRight
    <3> SUFFICES ASSUME NEW n \in YearDays
                 PROVE  /\ OnDay(n, TRUE) = NthDay(n)
                        /\ OnDay(n, FALSE) = NthDay(IF IsLeap(Year) /\ n > 59 THEN n + 1 ELSE n)
      BY DEF YearDaysAreRight
    <3>1. n \in Int /\ 1 <= n /\ n <= 365
      BY DeltaAssumption
    <3>2. \A leap \in BOOLEAN :
            OnDay(n, leap) = NthDay(IF ~leap /\ IsLeap(Year) /\ n > 59 THEN n + 1 ELSE n)
      BY <2>1, <3>1, YearDayIs DEF OnDay, NthDay, Year
    <3>. QED
      BY <3>2
  <2>. QED
    BY <2>2, <2>3 DEF DeltasLeadRight
<1>. QED
  BY <1>1, DeltaInvariant, PTL
=============================================================================
