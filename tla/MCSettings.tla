------------------------------ MODULE MCSettings ------------------------------
(***************************************************************************)
(* What repeated applies do to settings that others change as well: the    *)
(* rules of the security groups, which people edit (SecurityGroups on      *)
(* GroupRules), and the password of the instance, which rotations change   *)
(* (RdsCredentials: two databases, which may be exchanged, four passwords, *)
(* two killed runs).  A behaviour is about the one or the other.  The      *)
(* graphs of StackGraphs are only looked at, not walked.                   *)
(***************************************************************************)
EXTENDS RdsCredentials, MCSecurityGroups, StackGraphs

VARIABLE setting   \* the part a behaviour is about

Symmetry == Permutations(Databases)

SettingsInit == Init /\ GroupsInit /\ setting \in {"password", "rules"}
SettingsNext ==
  /\ UNCHANGED setting
  /\ \/ setting = "password" /\ Next /\ UNCHANGED groupVars
     \/ setting = "rules" /\ GroupsNext /\ UNCHANGED vars
SettingsSpec == SettingsInit /\ [][SettingsNext]_<<setting, vars, groupVars>>
=============================================================================
