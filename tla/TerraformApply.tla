--------------------------- MODULE TerraformApply ---------------------------
(***************************************************************************)
(* How Terraform brings the resources of a module into being and takes     *)
(* them away again.  A run walks the graph of the module: resources whose  *)
(* dependencies are met are worked on in any order, several at a time, and *)
(* a failure holds up only what depends on it.  Runs are repeated, in      *)
(* either direction, by an operator; a run may be killed.                  *)
(*                                                                         *)
(* The graph is the code of the repository (see Stacks); the walk is       *)
(* Terraform's, and what an AWS call needs and refuses is AWS's: both are  *)
(* modelled from how the modules rely on them.                             *)
(***************************************************************************)
EXTENDS ResourceGraph, FiniteSets

CONSTANTS
  Modules,       \* the modules, each the set of its resources
  Unique,        \* resources of which AWS accepts only one (by name)
  Parallelism,   \* [m |-> operations at a time (terraform -parallelism)]
  MaxFaults      \* [m |-> failures and kills in a behaviour]

ASSUME GraphAssumption ==
  /\ References \in [Resources -> SUBSET Resources]
  /\ DependsOn \in [Resources -> SUBSET Resources]
  /\ Needs \in [Resources -> SUBSET Resources]
  /\ DropNeeds \in [Resources -> SUBSET Resources]
  /\ Modules \subseteq SUBSET Resources
  /\ \A m \in Modules : \A r \in m :
       Edges(r) \cup Needs[r] \cup DropNeeds[r] \cup Rivals[r] \subseteq m
  /\ Unique \subseteq Resources
  /\ Rivals \in [Resources -> SUBSET Resources]
  /\ Parallelism \in [Modules -> Nat \ {0}]
  /\ MaxFaults \in [Modules -> Nat]

VARIABLES
  module,    \* the module that is applied and destroyed
  mode,      \* the run under way: "idle", "apply" or "destroy"
  walk,      \* [r |-> its vertex in the run]
  recorded,  \* [r |-> its entry in the Terraform state]
  object,    \* [r |-> the AWS object]
  faults     \* faults so far

vars == <<module, mode, walk, recorded, object, faults>>

Marks == {"todo", "busy", "refused", "failed"}

(* The types of the variables; the state never says of an object more than that
   it is there or tainted, and faults stay within their bound. *)
TypeOK ==
  /\ module \in Modules
  /\ mode \in {"idle", "apply", "destroy"}
  /\ walk \in [module -> Marks]
  /\ recorded \in [module -> {"none", "ok", "tainted"}]
  /\ object \in [module -> {"absent", "ready", "broken"}]
  /\ faults \in 0..MaxFaults[module]

Init ==
  /\ module \in Modules
  /\ mode = "idle"
  /\ walk = [r \in module |-> "todo"]
  /\ recorded = [r \in module |-> "none"]
  /\ object = [r \in module |-> "absent"]
  /\ faults = 0

Busy      == {r \in module : walk[r] = "busy"}
Orphan(r) == recorded[r] = "none" /\ object[r] # "absent"
Usable(S) == \A q \in S : object[q] = "ready"
Mark(r, m) == walk' = [walk EXCEPT ![r] = m]

-----------------------------------------------------------------------------
RefreshCopies(m) ==      \* a faulty Start: objects are taken for state entries
  /\ mode = "idle" /\ mode' = m
  /\ walk' = [r \in module |-> "todo"]
  /\ recorded' = object
  /\ UNCHANGED <<module, object, faults>>

(* A run starts with a refresh: what has gone from AWS leaves the state.    *)

Start(m) ==
  /\ mode = "idle" /\ mode' = m
  /\ walk' = [r \in module |-> "todo"]
  /\ recorded' = [r \in module |->
                    IF object[r] = "absent" THEN "none" ELSE recorded[r]]
  /\ UNCHANGED <<module, object, faults>>

(* In an apply a resource waits for what it depends on; in a destroy, for
   what depends on it. *)
MayApply(r) ==
  /\ mode = "apply"
  /\ walk[r] = "todo" /\ recorded[r] # "ok"
  /\ \A q \in Edges(r) : recorded[q] = "ok"

MayDestroy(r) ==
  /\ mode = "destroy" /\ walk[r] = "todo"
  /\ recorded[r] # "none"
  /\ \A q \in module : recorded[q] # "none" => r \notin Edges(q)

MayWork(r) == MayApply(r) \/ MayDestroy(r)

(* A tainted object is deleted first and then created anew. *)
Deleting(r) == mode = "destroy" \/ recorded[r] = "tainted"

(* AWS refuses to create what needs something missing, and a second object of
   the same name; and to delete what another object refers to. *)
Refused(r) ==
  IF Deleting(r)
  THEN \/ ~Usable(DropNeeds[r])
       \/ \E q \in module : object[q] # "absent" /\ r \in References[q]
  ELSE \/ ~Usable(Needs[r])
       \/ r \in Unique /\ object[r] # "absent"
       \/ \E q \in Rivals[r] : object[q] # "absent"

Refuse(r) ==
  /\ MayWork(r) /\ Refused(r)
  /\ Mark(r, "refused")
  /\ UNCHANGED <<module, mode, recorded, object, faults>>

Begin(r) ==
  /\ MayWork(r) /\ ~Refused(r)
  /\ Cardinality(Busy) < Parallelism[module]
  /\ Mark(r, "busy")
  /\ UNCHANGED <<module, mode, recorded, object, faults>>

(* The outcome of an operation is written to the state as it is known. *)
Succeed(r) ==
  /\ walk[r] = "busy" /\ Mark(r, "todo")
  /\ IF Deleting(r)
     THEN /\ recorded' = [recorded EXCEPT ![r] = "none"]
          /\ object' = [object EXCEPT ![r] = "absent"]
     ELSE /\ recorded' = [recorded EXCEPT ![r] = "ok"]
          /\ object' = [object EXCEPT ![r] = "ready"]
  /\ UNCHANGED <<module, mode, faults>>

(* A creation that fails may leave an object behind, which is tainted. *)
Fail(r) ==
  /\ faults < MaxFaults[module] /\ faults' = faults + 1
  /\ walk[r] = "busy" /\ Mark(r, "failed")
  /\ \/ UNCHANGED <<recorded, object>>
     \/ /\ ~Deleting(r)
        /\ recorded' = [recorded EXCEPT ![r] = "tainted"]
        /\ object' = [object EXCEPT ![r] = "broken"]
  /\ UNCHANGED <<module, mode>>

(* The run is killed.  AWS completes some of what was under way, and the state
   knows nothing of it. *)
Kill ==
  /\ mode # "idle" /\ mode' = "idle"
  /\ faults < MaxFaults[module] /\ faults' = faults + 1
  /\ walk' = [r \in module |-> "todo"]
  /\ \E completed \in SUBSET Busy :
       object' = [r \in module |->
                    IF r \notin completed THEN object[r]
                    ELSE IF Deleting(r) THEN "absent" ELSE "ready"]
  /\ UNCHANGED <<module, recorded>>

End ==
  /\ mode # "idle" /\ mode' = "idle"
  /\ \A r \in module : walk[r] # "busy" /\ ~MayWork(r)
  /\ UNCHANGED <<module, walk, recorded, object, faults>>

Next ==
  \/ Start("apply") \/ Start("destroy") \/ End \/ Kill
  \/ \E r \in module : Refuse(r) \/ Begin(r) \/ Succeed(r) \/ Fail(r)

Spec == Init /\ [][Next]_vars

-----------------------------------------------------------------------------
(* What a resource needs and waits for. *)
DeclaredNeeds(r) == References[r] \cup (IF r \in Undeclared THEN {} ELSE Needs[r])

(* Unless a kill has left an object behind, an object that exists has all that
   it needs and waits for, while it is used and until it is deleted: EKS nodes
   keep their policies to the end of a destroy, add-ons come after nodes. *)
NeedsHeld ==
  (\A r \in module : ~Orphan(r)) =>
    \A r \in module : object[r] = "ready" => Usable(DeclaredNeeds(r))

(* A run ends in which nothing has failed and no orphan was in the way. *)
CleanEnd == End /\ \A r \in module : ~Orphan(r) /\ walk[r] # "failed"

AllDone ==
  \A r \in module : recorded[r] = IF mode = "apply" THEN "ok" ELSE "none"

(* Resources that do not wait for all they need, or share a name. *)
Doubtful == {r \in module : r \in Undeclared \/ Rivals[r] # {}}

(* Such a run does all there is to do: the graph has no cycle, and no call is
   made before what it needs is there.  Where the code leaves a need undeclared
   (the databases of rds/, the function of ssm_rotation/) or claims a name twice
   (the buckets of s3/), the run is stopped by one of those resources only ... *)
StopsOnlyAtDoubtful ==
  [][CleanEnd => AllDone \/ \E r \in Doubtful : walk[r] = "refused"]_vars

(* ... and an apply leaves behind all that any resource needs, so that the
   next one is not stopped for the same reason. *)
RetryCompletes ==
  [][CleanEnd /\ mode = "apply" => \A r \in module : Usable(Needs[r])]_vars

=============================================================================
