------------------------ MODULE TerraformApplyProofs ------------------------
(***************************************************************************)
(* For every parallelism and any number of faults: a resource exists only  *)
(* with its needs, where the edges of the graph cover them; and, in a      *)
(* graph without cycles, a run that is not disturbed does all there is to  *)
(* do, or is stopped by a resource that hides a need or shares a name.     *)
(***************************************************************************)
EXTENDS TerraformApply, WellFoundedInduction, TLAPS

LEMMA EdgeType == TypeOK => \A r \in module : Edges(r) \subseteq module
BY GraphAssumption DEF TypeOK

LEMMA TypeInit == Init => TypeOK
BY GraphAssumption DEF Init, TypeOK, Marks

LEMMA TypeStep == TypeOK /\ [Next]_vars => TypeOK'
<1> SUFFICES ASSUME TypeOK, [Next]_vars PROVE TypeOK'
  OBVIOUS
<1> USE GraphAssumption DEF TypeOK, Marks
<1>1. ASSUME NEW m \in {"apply", "destroy"}, Start(m) PROVE TypeOK'
  BY <1>1 DEF Start
<1>2. CASE End
  BY <1>2 DEF End
<1>3. CASE Kill
  BY <1>3 DEF Kill, Busy
<1>4. ASSUME NEW r \in module, Refuse(r) \/ Begin(r) PROVE TypeOK'
  BY <1>4 DEF Refuse, Begin, Mark
<1>5. ASSUME NEW r \in module, Succeed(r) PROVE TypeOK'
  BY <1>5 DEF Succeed, Mark
<1>6. ASSUME NEW r \in module, Fail(r) PROVE TypeOK'
  BY <1>6 DEF Fail, Mark
<1>7. CASE UNCHANGED vars
  BY <1>7 DEF vars
<1>. QED
  BY <1>1, <1>2, <1>3, <1>4, <1>5, <1>6, <1>7 DEF Next

(* Every variable keeps its type, whatever the graph. *)
THEOREM TypeCorrect == Spec => []TypeOK
BY TypeInit, TypeStep, PTL DEF Spec

-----------------------------------------------------------------------------
(* The state has no resource without what it depends on: so much is Terraform's
   own doing, for any graph. *)
Closed ==
  \A r \in module : recorded[r] # "none" => \A q \in Edges(r) : recorded[q] = "ok"

Unneeded(r) == \A p \in module : r \in Edges(p) => recorded[p] = "none"

(* What is worked on is worked on for a reason that lasts: a resource being
   created has what it depends on, and one being deleted is no longer depended
   on.  What AWS has lost since the last refresh is no longer depended on
   either, so that the next refresh may drop it from the state. *)
WalkInv ==
  /\ Closed
  /\ \A r \in module : walk[r] = "busy" =>
       \/ mode = "destroy" /\ Unneeded(r)
       \/ mode = "apply" /\ recorded[r] = "tainted"
       \/ mode = "apply" /\ recorded[r] = "none" /\ \A q \in Edges(r) : recorded[q] = "ok"
  /\ \A r \in module : recorded[r] # "none" /\ object[r] = "absent" =>
       mode = "idle" /\ Unneeded(r)

LEMMA WalkInit == Init => WalkInv
BY DEF Init, WalkInv, Closed

LEMMA WalkStep == TypeOK /\ WalkInv /\ [Next]_vars => WalkInv'
<1> SUFFICES ASSUME TypeOK, WalkInv, [Next]_vars PROVE WalkInv'
  OBVIOUS
<1> USE EdgeType DEF TypeOK, Marks, WalkInv, Closed, Unneeded
<1>1. ASSUME NEW m \in {"apply", "destroy"}, Start(m) PROVE WalkInv'
  BY <1>1 DEF Start
<1>2. CASE End
  BY <1>2 DEF End
<1>3. CASE Kill
  BY <1>3 DEF Kill, Busy, Deleting
<1>4. ASSUME NEW r \in module, Refuse(r) PROVE WalkInv'
  BY <1>4 DEF Refuse, Mark
<1>5. ASSUME NEW r \in module, Begin(r) PROVE WalkInv'
  BY <1>5 DEF Begin, Mark, MayWork, MayApply, MayDestroy
<1>6. ASSUME NEW r \in module, Succeed(r) PROVE WalkInv'
  BY <1>6 DEF Succeed, Mark, Deleting
<1>7. ASSUME NEW r \in module, Fail(r) PROVE WalkInv'
  BY <1>7 DEF Fail, Mark, Deleting
<1>8. CASE UNCHANGED vars
  BY <1>8 DEF vars
<1>. QED
  BY <1>1, <1>2, <1>3, <1>4, <1>5, <1>6, <1>7, <1>8 DEF Next

-----------------------------------------------------------------------------
OkIsNotBroken == \A r \in module : recorded[r] = "ok" => object[r] # "broken"

LEMMA OkStep == TypeOK /\ WalkInv /\ OkIsNotBroken /\ [Next]_vars => OkIsNotBroken'
<1> SUFFICES ASSUME TypeOK, WalkInv, OkIsNotBroken, [Next]_vars PROVE OkIsNotBroken'
  OBVIOUS
<1> USE DEF TypeOK, OkIsNotBroken
<1>1. ASSUME NEW m \in {"apply", "destroy"}, Start(m) PROVE OkIsNotBroken'
  BY <1>1 DEF Start
<1>2. CASE Kill
  BY <1>2 DEF Kill
<1>3. ASSUME NEW r \in module, Succeed(r) PROVE OkIsNotBroken'
  BY <1>3 DEF Succeed
<1>4. ASSUME NEW r \in module, Fail(r) PROVE OkIsNotBroken'
  BY <1>4 DEF Fail
<1>5. ASSUME UNCHANGED <<module, recorded, object>> PROVE OkIsNotBroken'
  BY <1>5
<1>. QED
  BY <1>1, <1>2, <1>3, <1>4, <1>5 DEF Next, End, Refuse, Begin, vars

(* Whatever exists has what it needs and declares: through
   applies and destroys, failures and kills, until a kill leaves an orphan. *)
THEOREM NeedsAlwaysHeld == NeedsDeclared => (Spec => []NeedsHeld)
<1> SUFFICES ASSUME NeedsDeclared PROVE Spec => []NeedsHeld
  OBVIOUS
<1>1. TypeOK /\ WalkInv /\ OkIsNotBroken => NeedsHeld
  <2> SUFFICES ASSUME TypeOK, WalkInv, OkIsNotBroken, \A r \in module : ~Orphan(r),
                      NEW r \in module, object[r] = "ready",
                      NEW q \in DeclaredNeeds(r)
               PROVE  object[q] = "ready"
    BY DEF NeedsHeld, Usable
  <2>1. q \in Edges(r)
    <3>1. r \in Resources
      BY GraphAssumption DEF TypeOK
    <3>. QED
      BY <3>1 DEF Edges, NeedsDeclared, DeclaredNeeds
  <2>2. q \in module
    BY <2>1, EdgeType
  <2>3. recorded[r] # "none"
    BY DEF Orphan
  <2>4. recorded[q] = "ok"
    BY <2>1, <2>3 DEF WalkInv, Closed
  <2>5. object[q] # "absent"
    BY <2>1, <2>2, <2>3, <2>4 DEF WalkInv, Unneeded
  <2>. QED
    BY <2>2, <2>4, <2>5 DEF OkIsNotBroken, TypeOK
<1>2. Init => OkIsNotBroken
  BY DEF Init, OkIsNotBroken
<1>. QED
  BY <1>1, <1>2, OkStep, TypeInit, TypeStep, WalkInit, WalkStep, PTL DEF Spec

-----------------------------------------------------------------------------
(* What holds up a resource r that is not doubtful is an orphan, which stays one
   until the run is over: r's own object, or one that refers to it. *)
HeldUp(r) ==
  \/ mode = "apply" /\ recorded[r] = "none" /\ object[r] # "absent"
  \/ /\ mode = "apply" => recorded[r] = "tainted"
     /\ mode = "destroy" => recorded[r] # "none"
     /\ \E q \in module : r \in Edges(q) /\ Orphan(q)

(* A deletion in a destroy is of something recorded, so that it makes no orphan;
   what is refused and not doubtful is held up. *)
RefusedInv ==
  /\ \A r \in module : walk[r] = "busy" /\ mode = "destroy" => recorded[r] # "none"
  /\ \A r \in module \ Doubtful : walk[r] = "refused" /\ mode # "idle" => HeldUp(r)

RunInv == WalkInv /\ OkIsNotBroken /\ RefusedInv

LEMMA RunInit == Init => RunInv
BY WalkInit DEF Init, RunInv, RefusedInv, OkIsNotBroken

(* During a run what is recorded as made is ready. *)
LEMMA OkIsReady ==
  ASSUME TypeOK, WalkInv, OkIsNotBroken, mode # "idle", NEW q \in module, recorded[q] = "ok"
  PROVE  object[q] = "ready"
BY DEF TypeOK, WalkInv, OkIsNotBroken

(* What is recorded, or may be created, can use all that it waits for. *)
LEMMA NeedsAreReady ==
  ASSUME NeedsDeclared, DropNeedsDeclared, TypeOK, WalkInv, OkIsNotBroken, mode # "idle",
         NEW r \in module \ Doubtful, \A q \in Edges(r) : recorded[q] = "ok"
  PROVE  Usable(Needs[r]) /\ Usable(DropNeeds[r])
<1>1. r \in Resources \ Undeclared
  BY GraphAssumption DEF TypeOK, Doubtful
<1>2. Needs[r] \subseteq Edges(r) /\ DropNeeds[r] \subseteq Edges(r)
  BY <1>1 DEF NeedsDeclared, DropNeedsDeclared
<1>3. ASSUME NEW q \in Edges(r) PROVE object[q] = "ready"
  BY <1>3, EdgeType, OkIsReady
<1>. QED
  BY <1>2, <1>3 DEF Usable

LEMMA RefusedIsHeldUp ==
  ASSUME NeedsDeclared, DropNeedsDeclared, TypeOK, RunInv,
         NEW r \in module \ Doubtful, MayWork(r), Refused(r)
  PROVE  HeldUp(r)
<1> USE DEF RunInv
<1>1. mode # "idle"
  BY DEF MayWork, MayApply, MayDestroy
<1>2. r \in module /\ r \notin Undeclared /\ Rivals[r] = {}
  BY DEF Doubtful
<1>3. \A q \in Edges(r) : recorded[q] = "ok"
  BY <1>2 DEF MayWork, MayApply, MayDestroy, WalkInv, Closed
<1>4. Usable(Needs[r]) /\ Usable(DropNeeds[r])
  BY <1>1, <1>3, NeedsAreReady
<1>5. CASE Deleting(r)
  <2>1. PICK q \in module : object[q] # "absent" /\ r \in References[q]
    BY <1>4, <1>5 DEF Refused
  <2>2. r \in Edges(q)
    BY <2>1 DEF Edges
  <2>3. recorded[q] = "none"
    <3>1. CASE mode = "destroy"
      BY <3>1, <2>2 DEF MayWork, MayApply, MayDestroy
    <3>2. CASE recorded[r] = "tainted"
      BY <3>2, <2>2 DEF WalkInv, Closed
    <3>. QED
      BY <3>1, <3>2, <1>5 DEF Deleting
  <2>4. mode = "apply" => recorded[r] = "tainted"
    BY <1>5 DEF Deleting
  <2>5. mode = "destroy" => recorded[r] # "none"
    BY DEF MayWork, MayApply, MayDestroy
  <2>. QED
    BY <2>1, <2>2, <2>3, <2>4, <2>5 DEF HeldUp, Orphan
<1>6. CASE ~Deleting(r)
  <2>1. mode = "apply" /\ recorded[r] = "none"
    BY <1>6, <1>2 DEF Deleting, MayWork, MayApply, MayDestroy, TypeOK
  <2>2. object[r] # "absent"
    BY <1>2, <1>4, <1>6 DEF Refused
  <2>. QED
    BY <2>1, <2>2 DEF HeldUp
<1>. QED
  BY <1>5, <1>6

LEMMA RefusedStep ==
  ASSUME NeedsDeclared, DropNeedsDeclared, TypeOK, RunInv, [Next]_vars
  PROVE  RefusedInv'
<1> USE EdgeType DEF TypeOK, Marks, RunInv, RefusedInv, HeldUp, Orphan, Doubtful
<1>1. ASSUME NEW m \in {"apply", "destroy"}, Start(m) PROVE RefusedInv'
  BY <1>1 DEF Start
<1>2. CASE End
  BY <1>2 DEF End
<1>3. CASE Kill
  BY <1>3 DEF Kill
<1>4. ASSUME NEW r \in module, Refuse(r) PROVE RefusedInv'
  <2>1. r \notin Doubtful => HeldUp(r)
    BY <1>4, RefusedIsHeldUp DEF Refuse
  <2>. QED
    BY <1>4, <2>1 DEF Refuse, Mark
<1>5. ASSUME NEW r \in module, Begin(r) PROVE RefusedInv'
  BY <1>5 DEF Begin, Mark, MayWork, MayApply, MayDestroy
<1>6. ASSUME NEW r \in module, Succeed(r) PROVE RefusedInv'
  BY <1>6 DEF Succeed, Mark, Deleting, WalkInv
<1>7. ASSUME NEW r \in module, Fail(r) PROVE RefusedInv'
  BY <1>7 DEF Fail, Mark, Deleting, WalkInv
<1>8. CASE UNCHANGED vars
  BY <1>8 DEF vars
<1>. QED
  BY <1>1, <1>2, <1>3, <1>4, <1>5, <1>6, <1>7, <1>8 DEF Next

-----------------------------------------------------------------------------
(* Among some resources of a graph without a cycle there is one that depends on
   none of them, and one on which none of them depends. *)
LEMMA LeastRank ==
  ASSUME NEW n \in Nat, NEW S, S # {}, NEW f \in [S -> 0..n]
  PROVE  \E r \in S : \A q \in S : f[r] <= f[q]
<1> DEFINE T == {f[r] : r \in S}   R == {ss \in Nat \X Nat : ss[1] < ss[2]}
<1>1. T \subseteq Nat /\ T # {}
  OBVIOUS
<1>2. IsWellFoundedOn(R, Nat)
  BY NatLessThanWellFounded DEF OpToRel
<1> HIDE DEF R
<1>3. PICK k \in T : \A j \in T : <<j, k>> \notin R
  BY <1>1, <1>2, WFMin
<1>4. ASSUME NEW j \in T PROVE k <= j
  <2>1. <<j, k>> \notin R /\ j \in Nat /\ k \in Nat
    BY <1>1, <1>3
  <2>. QED
    BY <2>1 DEF R
<1>. QED
  BY <1>3, <1>4

LEMMA FirstOfAll ==
  ASSUME NEW n \in Nat, NEW rank, IsOrder(rank, n), NEW S \in SUBSET Resources, S # {}
  PROVE  \E r \in S : \A q \in Edges(r) : q \notin S
<1> DEFINE f == [r \in S |-> rank[r]]
<1>1. f \in [S -> 0..n]
  BY DEF IsOrder
<1>2. PICK r \in S : \A q \in S : f[r] <= f[q]
  BY <1>1, LeastRank
<1>3. ASSUME NEW q \in Edges(r), q \in S PROVE FALSE
  BY <1>2, <1>3 DEF IsOrder
<1>. QED
  BY <1>3

LEMMA LastOfAll ==
  ASSUME NEW n \in Nat, NEW rank, IsOrder(rank, n), NEW S \in SUBSET Resources, S # {}
  PROVE  \E r \in S : \A q \in S : r \notin Edges(q)
<1> DEFINE f == [r \in S |-> n - rank[r]]
<1>1. f \in [S -> 0..n]
  BY DEF IsOrder
<1>2. PICK r \in S : \A q \in S : f[r] <= f[q]
  BY <1>1, LeastRank
<1>3. ASSUME NEW q \in S, r \in Edges(q) PROVE FALSE
  BY <1>2, <1>3 DEF IsOrder
<1>. QED
  BY <1>3

-----------------------------------------------------------------------------
(* A run that ends has done or refused whatever was its turn. *)
LEMMA NotDoneIsRefused ==
  ASSUME TypeOK, RunInv, CleanEnd, NEW r \in module,
         \/ mode = "apply" /\ recorded[r] # "ok" /\ \A q \in Edges(r) : recorded[q] = "ok"
         \/ /\ mode = "destroy" /\ recorded[r] # "none"
            /\ \A q \in module : recorded[q] # "none" => r \notin Edges(q)
  PROVE  walk[r] = "refused" /\ r \in Doubtful
<1>1. mode # "idle" /\ walk[r] # "busy" /\ ~MayWork(r) /\ walk[r] # "failed"
  BY DEF CleanEnd, End
<1>2. walk[r] = "refused"
  BY <1>1 DEF TypeOK, Marks, MayWork, MayApply, MayDestroy
<1>3. ~HeldUp(r)
  BY DEF CleanEnd, HeldUp, Orphan
<1>. QED
  BY <1>1, <1>2, <1>3 DEF RunInv, RefusedInv

LEMMA InvAlways ==
  ASSUME NeedsDeclared, DropNeedsDeclared
  PROVE  Spec => [](TypeOK /\ RunInv)
<1>1. Init => TypeOK /\ RunInv
  BY TypeInit, RunInit
<1>2. TypeOK /\ RunInv /\ [Next]_vars => (TypeOK /\ RunInv)'
  BY TypeStep, WalkStep, OkStep, RefusedStep DEF RunInv
<1>. QED
  BY <1>1, <1>2, PTL DEF Spec

(* In a graph without a cycle whose edges cover its needs, a run in which nothing
   failed and which met no orphan has done all there is to do, or is stopped by a
   resource that hides a need or shares a name: whatever the graph, the faults
   before, the parallelism, the order of the walk. *)
THEOREM RunsStopOnlyAtDoubtful ==
  ASSUME NEW n \in Nat, NEW rank, IsOrder(rank, n), NeedsDeclared, DropNeedsDeclared
  PROVE  Spec => StopsOnlyAtDoubtful
<1>1. TypeOK /\ RunInv /\ CleanEnd => AllDone \/ \E r \in Doubtful : walk[r] = "refused"
  <2> SUFFICES ASSUME TypeOK, RunInv, CleanEnd, ~AllDone
               PROVE  \E r \in Doubtful : walk[r] = "refused"
    OBVIOUS
  <2>1. module \subseteq Resources
    BY GraphAssumption DEF TypeOK
  <2>2. CASE mode = "apply"
    <3> DEFINE S == {r \in module : recorded[r] # "ok"}
    <3>1. S # {}
      BY <2>2 DEF AllDone
    <3>2. PICK r \in S : \A q \in Edges(r) : q \notin S
      BY <2>1, <3>1, FirstOfAll
    <3>3. \A q \in Edges(r) : recorded[q] = "ok"
      BY <3>2, EdgeType
    <3>. QED
      BY <2>2, <3>2, <3>3, NotDoneIsRefused
  <2>3. CASE mode = "destroy"
    <3> DEFINE S == {r \in module : recorded[r] # "none"}
    <3>1. S # {}
      BY <2>3 DEF AllDone
    <3>2. PICK r \in S : \A q \in S : r \notin Edges(q)
      BY <2>1, <3>1, LastOfAll
    <3>3. \A q \in module : recorded[q] # "none" => r \notin Edges(q)
      BY <3>2
    <3>. QED
      BY <2>3, <3>2, <3>3, NotDoneIsRefused
  <2>. QED
    BY <2>2, <2>3 DEF CleanEnd, End, TypeOK
<1>. QED
  BY <1>1, InvAlways, PTL DEF StopsOnlyAtDoubtful

(* If moreover nothing that is needed depends on such a resource, an apply that ends
   in this way leaves all needs usable, also those that were not waited for: the next
   apply is not stopped by them. *)
THEOREM RetriesComplete ==
  ASSUME NEW n \in Nat, NEW rank, IsOrder(rank, n), NeedsDeclared, DropNeedsDeclared,
         NEW clear, IsClear(clear)
  PROVE  Spec => RetryCompletes
<1>1. TypeOK /\ RunInv /\ CleanEnd /\ mode = "apply" => \A r \in module : Usable(Needs[r])
  <2> SUFFICES ASSUME TypeOK, RunInv, CleanEnd, mode = "apply",
                      NEW r \in module, NEW p \in Needs[r]
               PROVE  object[p] = "ready"
    BY DEF Usable
  <2> DEFINE S == {q \in module \cap clear : recorded[q] # "ok"}
  <2>1. module \subseteq Resources
    BY GraphAssumption DEF TypeOK
  <2>2. S = {}
    <3> SUFFICES ASSUME S # {} PROVE FALSE
      OBVIOUS
    <3>1. PICK q \in S : \A e \in Edges(q) : e \notin S
      BY <2>1, FirstOfAll
    <3>2. Edges(q) \subseteq clear /\ q \notin Undeclared /\ Rivals[q] = {}
      BY <2>1 DEF IsClear
    <3>3. \A e \in Edges(q) : recorded[e] = "ok"
      BY <3>1, <3>2, EdgeType
    <3>4. q \in Doubtful
      BY <3>1, <3>3, NotDoneIsRefused
    <3>. QED
      BY <3>2, <3>4 DEF Doubtful
  <2>3. p \in module /\ p \in clear
    BY <2>1, GraphAssumption DEF TypeOK, IsClear
  <2>4. recorded[p] = "ok"
    BY <2>2, <2>3
  <2>. QED
    BY <2>3, <2>4, OkIsReady DEF RunInv
<1>. QED
  BY <1>1, InvAlways, PTL DEF RetryCompletes
=============================================================================
