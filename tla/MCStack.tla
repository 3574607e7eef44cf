------------------------------- MODULE MCStack -------------------------------
(***************************************************************************)
(* TerraformApply on the graphs of Stacks, any of which is applied and     *)
(* destroyed.  The graph of vpc/ is wide and has no need left undeclared:  *)
(* it is walked one resource at a time, as is that of s3/.  The long graph *)
(* of eks/ has one fault, the small ones have two.                         *)
(***************************************************************************)
EXTENDS TerraformApply, Stacks

OperationsAtATime == [m \in StackModules |-> IF m \in {VpcResources, S3Resources} THEN 1 ELSE 10]
FaultBound ==
  [m \in StackModules |->
     CASE m = VpcResources -> 0
       [] m \in {EksResources, S3Resources} -> 1
       [] OTHER -> 2]
=============================================================================
