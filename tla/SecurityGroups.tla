--------------------------- MODULE SecurityGroups ---------------------------
(***************************************************************************)
(* The rules of the security groups under repeated Terraform applies.      *)
(*                                                                         *)
(* A direction of a group is a slot.  An inline ingress or egress block in *)
(* an aws_security_group makes that resource own its slot: what an apply   *)
(* finds there and the block does not list is revoked.  A slot without a   *)
(* block is left alone.  An aws_security_group_rule is a resource of its   *)
(* own and is created when it is not found in its slot.                    *)
(*                                                                         *)
(* An apply refreshes first, decides from what it has read, and then works *)
(* on the group and the rule resources, a rule after its group.  People    *)
(* may change rules in the console at any time.                            *)
(***************************************************************************)
EXTENDS Naturals

CONSTANTS
  Slots,       \* the directions of the groups
  Rules,       \* what a rule may say
  Owned,       \* slots an inline block lists
  Inline,      \* [slot |-> the rules its block lists]
  Standalone,  \* [slot |-> the rules of the rule resources for it]
  Conflicting, \* slots owned by a block that have rule resources as well
  MaxEdits     \* changes made in the console in a behaviour

ASSUME SlotAssumption ==
  /\ Owned \subseteq Slots
  /\ Inline \in [Slots -> SUBSET Rules]
  /\ Standalone \in [Slots -> SUBSET Rules]
  /\ MaxEdits \in Nat

VARIABLES
  live,       \* [slot |-> the rules in force]
  applying,   \* whether an apply is under way
  seen,       \* [slot |-> the rules its refresh found]
  groups,     \* slots whose block it still has to enforce
  missing,    \* [slot |-> rule resources it still has to create]
  edits,      \* changes made in the console so far
  disturbed   \* whether one was made since the refresh

groupVars == <<live, applying, seen, groups, missing, edits, disturbed>>

(* The types of the variables; an apply enforces only blocks there are. *)
GroupsTypeOK ==
  /\ live \in [Slots -> SUBSET Rules]
  /\ applying \in BOOLEAN
  /\ seen \in [Slots -> SUBSET Rules]
  /\ groups \subseteq Owned
  /\ missing \in [Slots -> SUBSET Rules]
  /\ edits \in 0..MaxEdits
  /\ disturbed \in BOOLEAN

None == [s \in Slots |-> {}]

GroupsInit ==
  /\ live = None /\ seen = None /\ missing = None
  /\ groups = {} /\ applying = FALSE
  /\ edits = 0 /\ disturbed = FALSE

(* terraform refreshes every resource and plans. *)
PlanGroups ==
  /\ ~applying /\ applying' = TRUE
  /\ seen' = live
  /\ groups' = {s \in Owned : live[s] # Inline[s]}
  /\ missing' = [s \in Slots |-> Standalone[s] \ live[s]]
  /\ disturbed' = FALSE
  /\ UNCHANGED <<live, edits>>

(* The group resource revokes what it found and does not list, and authorizes
   what it lists and did not find. *)
Enforce(s) ==
  /\ s \in groups /\ groups' = groups \ {s}
  /\ live' = [live EXCEPT ![s] = (@ \ (seen[s] \ Inline[s])) \cup Inline[s]]
  /\ UNCHANGED <<applying, seen, missing, edits, disturbed>>

(* A rule refers to its group and so is created after the group is updated. *)
Authorize(s, r) ==
  /\ r \in missing[s] /\ s \notin groups
  /\ missing' = [missing EXCEPT ![s] = @ \ {r}]
  /\ live' = [live EXCEPT ![s] = @ \cup {r}]
  /\ UNCHANGED <<applying, seen, groups, edits, disturbed>>

EndGroups ==
  /\ applying /\ groups = {} /\ missing = None
  /\ applying' = FALSE
  /\ UNCHANGED <<live, seen, groups, missing, edits, disturbed>>

(* Somebody adds or removes a rule by hand. *)
Edit(s, r) ==
  /\ edits < MaxEdits /\ edits' = edits + 1
  /\ \/ r \notin live[s] /\ live' = [live EXCEPT ![s] = @ \cup {r}]
     \/ r \in live[s] /\ live' = [live EXCEPT ![s] = @ \ {r}]
  /\ disturbed' = TRUE
  /\ UNCHANGED <<applying, seen, groups, missing>>

GroupsNext ==
  \/ PlanGroups \/ EndGroups
  \/ \E s \in Slots : Enforce(s)
  \/ \E s \in Slots, r \in Rules : Authorize(s, r) \/ Edit(s, r)

GroupsSpec == GroupsInit /\ [][GroupsNext]_groupVars

-----------------------------------------------------------------------------
(* A slot is as the code says. *)
Sound(s) ==
  /\ Standalone[s] \subseteq live[s]
  /\ s \in Owned => live[s] = Inline[s]

(* A slot belongs to its group's block or to rule resources, not to both. *)
Mixed == {s \in Owned : ~(Standalone[s] \subseteq Inline[s])}

(* An apply nobody disturbs leaves every slot but the conflicting ones as the
   code says, whatever was done by hand before, so that the next plan has
   nothing to do for it. *)
ApplySettles ==
  [][EndGroups /\ ~disturbed => \A s \in Slots \ Conflicting : Sound(s)]_groupVars

(* vpc/security_groups.tf:68 "Rule: Allow EKS nodes to receive traffic IN from
   ALB" and its like: after an undisturbed apply every rule resource of the
   code is in force. *)
RuleResourcesHold ==
  [][EndGroups /\ ~disturbed => \A s \in Slots : Standalone[s] \subseteq live[s]]_groupVars

(* Why ApplySettles holds: in every slot what an apply has done and what it
   still has to do add up to what the code says. *)
Progress(s) ==
  /\ missing[s] \subseteq Standalone[s]
  /\ IF s \in groups
     THEN live[s] = seen[s] /\ missing[s] = Standalone[s] \ live[s]
     ELSE /\ Standalone[s] \ missing[s] \subseteq live[s]
          /\ s \in Owned => live[s] = Inline[s]

(* The invariant of an apply that nobody has disturbed since its refresh. *)
SettlingInv == applying /\ ~disturbed => \A s \in Slots \ Conflicting : Progress(s)
=============================================================================
