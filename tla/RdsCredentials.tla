--------------------------- MODULE RdsCredentials ---------------------------
(***************************************************************************)
(* Two programs manage the password of one PostgreSQL user.  rds/ creates  *)
(* the instance with the password it finds in Secrets Manager, records it, *)
(* and sets it again when the secret no longer is what it recorded; it     *)
(* also signs in with that secret, to create the databases, to drop them   *)
(* and, once they are in its state, to refresh them at the start of every  *)
(* plan.  ssm_rotation/ changes the password in the instance and publishes *)
(* it in an SSM parameter (Rotator has the details); it never touches the  *)
(* secret.                                                                 *)
(*                                                                         *)
(* Passwords are numbered in the order in which they are made up; 0 is     *)
(* none.                                                                   *)
(***************************************************************************)
EXTENDS Naturals

CONSTANTS
  Databases,   \* var.databases
  MaxPassword, \* passwords made up in a behaviour
  MaxKills     \* Terraform runs killed in a behaviour

ASSUME ConstantsAssumption ==
  MaxPassword \in Nat \ {0} /\ MaxKills \in Nat

VARIABLES
  rol,        \* the password in force; 0 when there is no instance
  databases,  \* the databases in the instance
  snapshots,  \* what each final snapshot holds
  secret,     \* the password in Secrets Manager
  published,  \* the password in the SSM parameter
  pending,    \* the password a rotation has set and not yet published
  state,      \* the Terraform state: [password, databases]
  run,        \* the Terraform run under way: [mode, password]
  made,       \* the passwords made up so far
  kills

world == <<rol, databases, snapshots>>
admin == <<secret, published, pending, made>>
vars  == <<world, admin, state, run, kills>>

Password == 0..MaxPassword
Idle     == [mode |-> "idle", password |-> 0]

(* The types of the variables: passwords exist, and the state of Terraform has
   no databases without an instance. *)
TypeOK ==
  /\ made \in Password
  /\ rol \in 0..made /\ secret \in 1..made /\ published \in 0..made /\ pending \in 0..made
  /\ databases \subseteq Databases /\ snapshots \subseteq SUBSET Databases
  /\ state \in [password : 0..made, databases : SUBSET Databases]
  /\ run \in [mode : {"idle", "apply", "destroy"}, password : 0..made]
  /\ run.mode # "idle" => run.password # 0
  /\ state.databases # {} => state.password # 0 /\ rol # 0
  /\ kills \in 0..MaxKills

Init ==
  /\ rol = 0 /\ databases = {} /\ snapshots = {}
  /\ secret = 1 /\ published = 0 /\ pending = 0 /\ made = 1
  /\ state = [password |-> 0, databases |-> {}]
  /\ run = Idle
  /\ kills = 0

-----------------------------------------------------------------------------
(* Terraform.                                                               *)

RefreshLazily(password) == TRUE   \* faulty: databases are not read
(* Databases that the state has are read over a connection that is opened with
   the password of the plan. *)
CanRefresh(password) == state.databases # {} => rol = password

PlanPublished(mode) ==   \* faulty: the rotation's parameter is read, not the secret
  /\ run.mode = "idle"
  /\ CanRefresh(published)
  /\ run' = [mode |-> mode, password |-> published]
  /\ state' = [password  |-> IF rol = 0 THEN 0 ELSE state.password,
               databases |-> state.databases \cap databases]
  /\ UNCHANGED <<world, admin, kills>>

(* A plan reads the secret; what is gone leaves the state. *)
Plan(mode) ==
  /\ run.mode = "idle"
  /\ CanRefresh(secret)
  /\ run' = [mode |-> mode, password |-> secret]
  /\ state' = [password  |-> IF rol = 0 THEN 0 ELSE state.password,
               databases |-> state.databases \cap databases]
  /\ UNCHANGED <<world, admin, kills>>

(* The instance is created, or gets the planned password when another one is
   recorded.  An instance the state does not know is in the way of a new one. *)
InstanceChanges ==
  /\ run.mode = "apply"
  /\ state.password # run.password
  /\ state.password = 0 => rol = 0

ApplyInstance ==
  /\ InstanceChanges
  /\ rol' = run.password
  /\ state' = [state EXCEPT !.password = run.password]
  /\ UNCHANGED <<databases, snapshots, admin, run, kills>>

(* Databases are created once the instance is as planned, over a connection
   with the planned password. *)
DatabaseComes(d) ==
  /\ run.mode = "apply" /\ state.password = run.password
  /\ d \in Databases \ (state.databases \cup databases)
  /\ rol = run.password

CreateDatabase(d) ==
  /\ DatabaseComes(d)
  /\ databases' = databases \cup {d}
  /\ state' = [state EXCEPT !.databases = @ \cup {d}]
  /\ UNCHANGED <<rol, snapshots, admin, run, kills>>

DatabaseGoes(d) ==
  /\ run.mode = "destroy"
  /\ d \in state.databases
  /\ rol = run.password

DropDatabase(d) ==
  /\ DatabaseGoes(d)
  /\ databases' = databases \ {d}
  /\ state' = [state EXCEPT !.databases = @ \ {d}]
  /\ UNCHANGED <<rol, snapshots, admin, run, kills>>

(* The instance goes after its databases and leaves a snapshot.  (Protected, in
   production, it does not go.) *)
InstanceGoesFirst == run.mode = "destroy" /\ state.password # 0  \* faulty
InstanceGoes ==
  /\ run.mode = "destroy" /\ state.password # 0
  /\ state.databases = {}

InstanceIsGone ==
  /\ snapshots' = snapshots \cup {databases}
  /\ rol' = 0 /\ databases' = {}

DeleteInstance ==
  /\ InstanceGoes /\ InstanceIsGone
  /\ state' = [password |-> 0, databases |-> {}]
  /\ UNCHANGED <<admin, run, kills>>

End ==
  /\ run.mode # "idle"
  /\ ~InstanceChanges /\ ~InstanceGoes
  /\ \A d \in Databases : ~DatabaseComes(d) /\ ~DatabaseGoes(d)
  /\ run' = Idle
  /\ UNCHANGED <<world, admin, state, kills>>

(* A run is killed before an operation, or after one and before it is
   recorded. *)
Kill ==
  /\ run.mode # "idle" /\ run' = Idle
  /\ kills < MaxKills /\ kills' = kills + 1
  /\ \/ UNCHANGED world
     \/ InstanceChanges /\ rol' = run.password /\ UNCHANGED <<databases, snapshots>>
     \/ InstanceGoes /\ InstanceIsGone
     \/ /\ UNCHANGED <<rol, snapshots>>
        /\ \E d \in Databases :
             \/ DatabaseComes(d) /\ databases' = databases \cup {d}
             \/ DatabaseGoes(d) /\ databases' = databases \ {d}
  /\ UNCHANGED <<admin, state>>

-----------------------------------------------------------------------------
(* The rotation, which signs in with what is published.                     *)

Alter ==
  /\ rol # 0 /\ pending = 0
  /\ published = rol
  /\ made < MaxPassword /\ made' = made + 1
  /\ rol' = made + 1 /\ pending' = made + 1
  /\ UNCHANGED <<databases, snapshots, secret, published, state, run, kills>>

Publish ==
  /\ pending # 0
  /\ published' = pending /\ pending' = 0
  /\ UNCHANGED <<world, secret, made, state, run, kills>>

(* The execution ends between its two requests. *)
LoseRotation ==
  /\ pending # 0 /\ pending' = 0
  /\ UNCHANGED <<world, secret, published, made, state, run, kills>>

-----------------------------------------------------------------------------
(* Operators can write what they know to either store, or a new password to
   the secret. *)
PublishSecret ==
  /\ published' = secret
  /\ UNCHANGED <<world, secret, pending, made, state, run, kills>>

CopySecret ==
  /\ published # 0
  /\ secret' = published
  /\ UNCHANGED <<world, published, pending, made, state, run, kills>>

NewSecret ==
  /\ made < MaxPassword /\ made' = made + 1
  /\ secret' = made + 1
  /\ UNCHANGED <<world, published, pending, state, run, kills>>

-----------------------------------------------------------------------------
Next ==
  \/ \E mode \in {"apply", "destroy"} : Plan(mode)
  \/ ApplyInstance \/ DeleteInstance
  \/ \E d \in Databases : CreateDatabase(d) \/ DropDatabase(d)
  \/ End \/ Kill
  \/ Alter \/ Publish \/ LoseRotation
  \/ PublishSecret \/ CopySecret \/ NewSecret

Spec == Init /\ [][Next]_vars

-----------------------------------------------------------------------------
(* On an instance whose databases are recorded, an apply never brings a new
   password into force: to plan it, Terraform has to sign in with the very
   password it is to set.  All that an apply can do there is to take back a
   rotation that came between its plan and its walk. *)
AppliesOnlyTakeBack ==
  [][ApplyInstance /\ state.databases # {} => run.password <= rol]_vars

(* The password in force is known to nobody: a rotation was lost. *)
Lost ==
  /\ rol \notin {0, secret, published, pending}
  /\ state.databases # {} /\ run.mode = "idle"

(* Neither an apply nor a destroy gets over that, whatever is written to the
   secret or the parameter: every plan fails at its refresh. *)
LossIsPermanent == [][Lost => Lost']_vars

(* The final snapshot, kept so that a destroy loses no data, is taken when the
   databases have been dropped: it holds one only if a kill left it out of the
   state. *)
SnapshotsAreEmpty == \A s \in snapshots : s # {} => kills > 0
=============================================================================
