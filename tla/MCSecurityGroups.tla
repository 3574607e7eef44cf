-------------------------- MODULE MCSecurityGroups --------------------------
(***************************************************************************)
(* SecurityGroups on the rules of GroupRules.                              *)
(***************************************************************************)
EXTENDS SecurityGroups, GroupRules
=============================================================================
