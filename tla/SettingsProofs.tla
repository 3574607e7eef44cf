---------------------------- MODULE SettingsProofs ----------------------------
(***************************************************************************)
(* Settings that others change as well, for any number of them: the        *)
(* password of the instance (RdsCredentials) and the rules of the groups   *)
(* (SecurityGroups), which MCSettings puts side by side.                   *)
(***************************************************************************)
EXTENDS RdsCredentials, SecurityGroups, TLAPS

(* RdsCredentials.  An apply takes rotations back and never brings a new password
   into force where databases are recorded, a lost password stays lost, and a final
   snapshot holds only what a kill has hidden from Terraform. *)

(* The walk of a run is behind the rotations, never ahead of them. *)
NotAhead ==
  run.mode # "idle" /\ state.databases # {} => run.password <= rol

(* Only a kill hides a database from the state. *)
NothingHidden == kills = 0 => databases \subseteq state.databases

IInv == TypeOK /\ NotAhead /\ NothingHidden /\ SnapshotsAreEmpty

LEMMA InitOK == Init => IInv
BY ConstantsAssumption
   DEF Init, IInv, TypeOK, NotAhead, NothingHidden, SnapshotsAreEmpty, Password, Idle

LEMMA TypeStep == TypeOK /\ [Next]_vars => TypeOK'
<1> SUFFICES ASSUME TypeOK, [Next]_vars PROVE TypeOK'
  OBVIOUS
<1> USE ConstantsAssumption DEF TypeOK, Password, Idle, world, admin
<1>1. ASSUME NEW mode \in {"apply", "destroy"}, Plan(mode) PROVE TypeOK'
  BY <1>1 DEF Plan, CanRefresh
<1>2. CASE ApplyInstance
  BY <1>2 DEF ApplyInstance, InstanceChanges
<1>3. CASE DeleteInstance
  <2>1. snapshots' \subseteq SUBSET Databases
    BY <1>3 DEF DeleteInstance, InstanceIsGone
  <2>. QED
    BY <1>3, <2>1 DEF DeleteInstance, InstanceIsGone, InstanceGoes
<1>4. ASSUME NEW d \in Databases, CreateDatabase(d) PROVE TypeOK'
  BY <1>4 DEF CreateDatabase, DatabaseComes
<1>5. ASSUME NEW d \in Databases, DropDatabase(d) PROVE TypeOK'
  BY <1>5 DEF DropDatabase, DatabaseGoes
<1>6. CASE End
  BY <1>6 DEF End
<1>7. CASE Kill
  <2> USE <1>7 DEF Kill
  <2>1. CASE UNCHANGED world
    BY <2>1
  <2>2. CASE InstanceChanges /\ rol' = run.password /\ UNCHANGED <<databases, snapshots>>
    BY <2>2 DEF InstanceChanges
  <2>3. CASE InstanceGoes /\ InstanceIsGone
    <3>1. snapshots' \subseteq SUBSET Databases
      BY <2>3 DEF InstanceIsGone
    <3>. QED
      BY <2>3, <3>1 DEF InstanceIsGone, InstanceGoes
  <2>4. CASE /\ UNCHANGED <<rol, snapshots>>
             /\ \E d \in Databases :
                  \/ DatabaseComes(d) /\ databases' = databases \cup {d}
                  \/ DatabaseGoes(d) /\ databases' = databases \ {d}
    BY <2>4
  <2>. QED
    BY <2>1, <2>2, <2>3, <2>4
<1>8. CASE Alter
  BY <1>8 DEF Alter
<1>9. CASE Publish \/ LoseRotation
  BY <1>9 DEF Publish, LoseRotation
<1>10. CASE PublishSecret \/ CopySecret
  BY <1>10 DEF PublishSecret, CopySecret
<1>11. CASE NewSecret
  BY <1>11 DEF NewSecret
<1>12. CASE UNCHANGED vars
  BY <1>12 DEF vars
<1>. QED
  BY <1>1, <1>2, <1>3, <1>4, <1>5, <1>6, <1>7, <1>8, <1>9, <1>10, <1>11, <1>12 DEF Next

LEMMA InvStep == IInv /\ [Next]_vars => IInv'
<1> SUFFICES ASSUME IInv, [Next]_vars PROVE IInv'
  OBVIOUS
<1>0. TypeOK'
  BY TypeStep DEF IInv
<1> USE <1>0, ConstantsAssumption
        DEF IInv, TypeOK, NotAhead, NothingHidden, SnapshotsAreEmpty, Password, Idle, world, admin
<1>1. ASSUME NEW mode \in {"apply", "destroy"}, Plan(mode) PROVE IInv'
  BY <1>1 DEF Plan, CanRefresh
<1>2. CASE ApplyInstance
  BY <1>2 DEF ApplyInstance
<1>3. CASE DeleteInstance
  BY <1>3 DEF DeleteInstance, InstanceIsGone, InstanceGoes
<1>4. ASSUME NEW d \in Databases, CreateDatabase(d) PROVE IInv'
  BY <1>4 DEF CreateDatabase, DatabaseComes
<1>5. ASSUME NEW d \in Databases, DropDatabase(d) PROVE IInv'
  BY <1>5 DEF DropDatabase, DatabaseGoes
<1>6. CASE End
  BY <1>6 DEF End
<1>7. CASE Kill
  BY <1>7 DEF Kill
<1>8. CASE Alter
  BY <1>8 DEF Alter
<1>9. CASE Publish \/ LoseRotation
  BY <1>9 DEF Publish, LoseRotation
<1>10. CASE PublishSecret \/ CopySecret \/ NewSecret
  BY <1>10 DEF PublishSecret, CopySecret, NewSecret
<1>11. CASE UNCHANGED vars
  BY <1>11 DEF vars
<1>. QED
  BY <1>1, <1>2, <1>3, <1>4, <1>5, <1>6, <1>7, <1>8, <1>9, <1>10, <1>11 DEF Next

-----------------------------------------------------------------------------
(* Every variable keeps its type. *)
THEOREM TypeCorrect == Spec => []TypeOK
<1>1. IInv => TypeOK
  BY DEF IInv
<1>. QED
  BY <1>1, InitOK, InvStep, PTL DEF Spec

(* Where databases are recorded an apply sets no password newer than the one
   in force. *)
THEOREM NoNewPasswordApplied == Spec => AppliesOnlyTakeBack
<1>1. IInv /\ [Next]_vars =>
        [ApplyInstance /\ state.databases # {} => run.password <= rol]_vars
  BY DEF IInv, NotAhead, ApplyInstance, InstanceChanges
<1>. QED
  BY <1>1, InitOK, InvStep, PTL DEF Spec, AppliesOnlyTakeBack

(* A password that a lost rotation has taken along stays in force for ever. *)
THEOREM LossPermanent == Spec => LossIsPermanent
<1>1. IInv /\ [Next]_vars => [Lost => Lost']_vars
  <2> SUFFICES ASSUME TypeOK, Next, Lost PROVE Lost'
    BY DEF IInv
  <2> USE DEF TypeOK, Password, Lost, world, admin
  <2>1. ASSUME NEW mode \in {"apply", "destroy"}, Plan(mode) PROVE Lost'
    BY <2>1 DEF Plan, CanRefresh
  <2>2. CASE ApplyInstance \/ DeleteInstance \/ End \/ Kill
    BY <2>2 DEF ApplyInstance, InstanceChanges, DeleteInstance, InstanceGoes, End, Kill
  <2>3. ASSUME NEW d \in Databases, CreateDatabase(d) \/ DropDatabase(d) PROVE Lost'
    BY <2>3 DEF CreateDatabase, DatabaseComes, DropDatabase, DatabaseGoes
  <2>4. CASE Alter
    BY <2>4 DEF Alter
  <2>5. CASE Publish \/ LoseRotation
    BY <2>5 DEF Publish, LoseRotation
  <2>6. CASE PublishSecret \/ CopySecret
    BY <2>6 DEF PublishSecret, CopySecret
  <2>7. CASE NewSecret
    BY <2>7 DEF NewSecret
  <2>. QED
    BY <2>1, <2>2, <2>3, <2>4, <2>5, <2>6, <2>7 DEF Next
<1>. QED
  BY <1>1, InitOK, InvStep, PTL DEF Spec, LossIsPermanent

(* Without a killed run every final snapshot is empty. *)
THEOREM SnapshotsEmpty == Spec => []SnapshotsAreEmpty
<1>1. IInv => SnapshotsAreEmpty
  BY DEF IInv
<1>. QED
  BY <1>1, InitOK, InvStep, PTL DEF Spec

-----------------------------------------------------------------------------
(* SecurityGroups.  Applies settle, as long as no slot outside Conflicting has both
   a block and rule resources the block does not list. *)

LEMMA GroupsTypeInit == GroupsInit => GroupsTypeOK
<1>1. None \in [Slots -> SUBSET Rules]
  BY DEF None
<1>2. 0 \in 0..MaxEdits
  BY SlotAssumption
<1>. QED
  BY <1>1, <1>2 DEF GroupsInit, GroupsTypeOK

LEMMA GroupsTypeStep == GroupsTypeOK /\ [GroupsNext]_groupVars => GroupsTypeOK'
<1> SUFFICES ASSUME GroupsTypeOK, [GroupsNext]_groupVars PROVE GroupsTypeOK'
  OBVIOUS
<1> USE SlotAssumption DEF GroupsTypeOK
<1>1. CASE PlanGroups
  BY <1>1 DEF PlanGroups
<1>2. CASE EndGroups
  BY <1>2 DEF EndGroups
<1>3. ASSUME NEW s \in Slots, Enforce(s) PROVE GroupsTypeOK'
  BY <1>3 DEF Enforce
<1>4. ASSUME NEW s \in Slots, NEW r \in Rules, Authorize(s, r) PROVE GroupsTypeOK'
  BY <1>4 DEF Authorize
<1>5. ASSUME NEW s \in Slots, NEW r \in Rules, Edit(s, r) PROVE GroupsTypeOK'
  BY <1>5 DEF Edit
<1>6. CASE UNCHANGED groupVars
  BY <1>6 DEF groupVars
<1>. QED
  BY <1>1, <1>2, <1>3, <1>4, <1>5, <1>6 DEF GroupsNext

(* Every variable keeps its type. *)
THEOREM GroupsTypeCorrect == GroupsSpec => []GroupsTypeOK
BY GroupsTypeInit, GroupsTypeStep, PTL DEF GroupsSpec

-----------------------------------------------------------------------------
LEMMA SettlingInit == GroupsInit => SettlingInv
BY DEF GroupsInit, SettlingInv

LEMMA SettlingStep ==
  Mixed \subseteq Conflicting /\ GroupsTypeOK /\ SettlingInv /\ [GroupsNext]_groupVars => SettlingInv'
<1> SUFFICES ASSUME Mixed \subseteq Conflicting, GroupsTypeOK, SettlingInv, [GroupsNext]_groupVars
             PROVE  SettlingInv'
  OBVIOUS
<1> USE SlotAssumption DEF GroupsTypeOK, SettlingInv, Progress
<1>1. CASE PlanGroups
  BY <1>1 DEF PlanGroups
<1>2. CASE EndGroups
  BY <1>2 DEF EndGroups
<1>3. ASSUME NEW s \in Slots, Enforce(s) PROVE SettlingInv'
  \* What the refresh found is replaced by what the block lists.
  BY <1>3 DEF Enforce, Mixed
<1>4. ASSUME NEW s \in Slots, NEW r \in Rules, Authorize(s, r) PROVE SettlingInv'
  \* A rule created in an owned slot is one that its block lists.
  BY <1>4 DEF Authorize, Mixed
<1>5. ASSUME NEW s \in Slots, NEW r \in Rules, Edit(s, r) PROVE SettlingInv'
  BY <1>5 DEF Edit
<1>6. CASE UNCHANGED groupVars
  BY <1>6 DEF groupVars
<1>. QED
  BY <1>1, <1>2, <1>3, <1>4, <1>5, <1>6 DEF GroupsNext

(* The work done and the work left of an undisturbed apply add up. *)
THEOREM SettlingCorrect == Mixed \subseteq Conflicting => (GroupsSpec => []SettlingInv)
<1> SUFFICES ASSUME Mixed \subseteq Conflicting PROVE GroupsSpec => []SettlingInv
  OBVIOUS
<1>1. GroupsTypeOK /\ SettlingInv /\ [GroupsNext]_groupVars => SettlingInv'
  BY SettlingStep
<1>. QED
  BY <1>1, GroupsTypeInit, GroupsTypeStep, SettlingInit, PTL DEF GroupsSpec

(* An undisturbed apply leaves every slot that is not conflicting as the code
   says. *)
THEOREM AppliesSettle == Mixed \subseteq Conflicting => (GroupsSpec => ApplySettles)
<1> SUFFICES ASSUME Mixed \subseteq Conflicting PROVE GroupsSpec => ApplySettles
  OBVIOUS
<1>1. GroupsTypeOK /\ SettlingInv /\ [GroupsNext]_groupVars
      => [EndGroups /\ ~disturbed => \A s \in Slots \ Conflicting : Sound(s)]_groupVars
  BY DEF EndGroups, SettlingInv, Progress, Sound, None
<1>. QED
  BY <1>1, GroupsTypeCorrect, SettlingCorrect, PTL DEF GroupsSpec, ApplySettles
=============================================================================
