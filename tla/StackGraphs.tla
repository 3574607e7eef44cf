------------------------------ MODULE StackGraphs ------------------------------
(***************************************************************************)
(* The graphs of the five modules are what the theorems about              *)
(* TerraformApply ask for.  TLC evaluates this apart from the run that     *)
(* walks the graphs, which also tells when one of them is not.             *)
(***************************************************************************)
EXTENDS Stacks, Naturals

LOCAL Graph == INSTANCE ResourceGraph WITH
  Resources  <- StackResources,  References <- StackReferences, DependsOn <- StackDependsOn,
  Needs      <- StackNeeds,      DropNeeds  <- StackDropNeeds,
  Undeclared <- StackUndeclared, Rivals     <- StackRivals

(* The resources that n steps of creation can reach, and the first step that does. *)
Height == 10
Levels ==
  LET level[n \in 0..Height] ==
        IF n = 0 THEN {}
        ELSE LET reached == level[n - 1] IN {r \in StackResources : Graph!Edges(r) \subseteq reached}
  IN level
StackRank  == [r \in StackResources |-> CHOOSE n \in 0..Height :
                 r \in Levels[n] /\ \A k \in 0..(n - 1) : r \notin Levels[k]]
StackClear == EksResources \cup VpcResources
                \cup {"sg", "postgres_ingress", "lambda_exec", "lambda_ssm_access"}

ASSUME StackAssumption ==
  /\ Graph!IsOrder(StackRank, Height)
  /\ Graph!NeedsDeclared /\ Graph!DropNeedsDeclared
  /\ Graph!IsClear(StackClear)
=============================================================================
