----------------------------- MODULE GroupRules -----------------------------
(***************************************************************************)
(* The security groups of vpc/, rds/ and ssm_rotation/, slot by slot: the  *)
(* rules that inline blocks list and those that are resources of their     *)
(* own.  A rule is named by what it lets through; "other" stands for one   *)
(* that no code mentions.                                                  *)
(***************************************************************************)
EXTENDS TLC

AlbInlineBoth ==  \* a faulty AlbInline: an egress block besides the rule resource
  [ alb_in |-> {"http", "https"}, alb_out |-> {"all"} ]

AlbInline       == [ alb_in |-> {"http", "https"} ]
AlbRule         == [ alb_out |-> {"to_nodes"} ]
NodesInline     == [ nodes_in |-> {"self"}, nodes_out |-> {"all"} ]
NodesRule       == [ nodes_in |-> {"from_alb"} ]
EndpointsInline == [ endpoints_in |-> {"https"}, endpoints_out |-> {"all"} ]
RdsRules        == [ rds_in |-> {"postgres"}, rds_out |-> {"all"} ]
LambdaInline    == [ lambda_out |-> {"all"} ]

AllInline     == AlbInline @@ NodesInline @@ EndpointsInline @@ LambdaInline
AllStandalone == AlbRule @@ NodesRule @@ RdsRules

(* Named for the constants of SecurityGroups they give a value to. *)
GroupSlots       == DOMAIN (AllInline @@ AllStandalone)
GroupRuleNames   == {"http", "https", "to_nodes", "self", "from_alb", "postgres",
                     "all", "other"}
GroupOwned       == DOMAIN AllInline
GroupInline      == AllInline @@ [s \in GroupSlots |-> {}]
GroupStandalone  == AllStandalone @@ [s \in GroupSlots |-> {}]
GroupConflicting == {"nodes_in"}
=============================================================================
