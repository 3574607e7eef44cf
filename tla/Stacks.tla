------------------------------- MODULE Stacks -------------------------------
(***************************************************************************)
(* The resource graphs of the repository's Terraform modules, one record   *)
(* per source file: for every resource block, the blocks its arguments     *)
(* mention.  Data sources are left out (what they mention counts for the   *)
(* block that uses them); the instances of a block with count or for_each  *)
(* are one resource.                                                       *)
(***************************************************************************)
EXTENDS TLC

(* Every resource of a set with no entry of its own has none. *)
Default(resources, f) == f @@ [r \in resources |-> {}]

-----------------------------------------------------------------------------
(* eks/ *)

EksIam ==
  [ cluster_role |-> {},
    cluster_policy |-> {"cluster_role"},
    node_role |-> {},
    worker_node_policy |-> {"node_role"},
    ecr_read_policy |-> {"node_role"},
    cni_policy |-> {"node_role"},
    ssm_policy |-> {"node_role"},
    ebs_csi_role |-> {"oidc_provider"},
    ebs_csi_policy |-> {"ebs_csi_role"} ]

EksOidc      == [ oidc_provider |-> {"cluster"} ]
EksCluster   == [ cluster |-> {"cluster_role"} ]
EksNodeGroup == [ node_group |-> {"cluster", "node_role"} ]
EksAddons ==
  [ coredns |-> {"cluster"},
    kube_proxy |-> {"cluster"},
    vpc_cni |-> {"cluster"},
    ebs_csi |-> {"cluster", "ebs_csi_role"} ]

EksReferences == EksIam @@ EksOidc @@ EksCluster @@ EksNodeGroup @@ EksAddons
EksResources  == DOMAIN EksReferences

NodePolicies == {"worker_node_policy", "ecr_read_policy", "cni_policy"}

AddonsAfterNodes ==
  [ coredns |-> {"node_group"},
    kube_proxy |-> {"node_group"},
    vpc_cni |-> {"node_group"},
    ebs_csi |-> {"ebs_csi_policy", "node_group"} ]
NodesAfterTwoPolicies == \* faulty: cni_policy is forgotten
  [ node_group |-> {"worker_node_policy", "ecr_read_policy", "cluster"} ]
NodesAfterPolicies == [ node_group |-> NodePolicies \cup {"cluster"} ]
ClusterAfterPolicy == [ cluster |-> {"cluster_policy"} ]

EksDependsOn == Default(EksResources,
  AddonsAfterNodes @@ NodesAfterPolicies @@ ClusterAfterPolicy)

(* A cluster works with its role's policy, nodes join with theirs, and pods of
   CoreDNS and the CSI driver run on nodes. *)
EksNeeds == Default(EksResources,
  [ cluster |-> {"cluster_policy"},
    node_group |-> NodePolicies,
    coredns |-> {"node_group"},
    ebs_csi |-> {"node_group", "ebs_csi_policy"} ])

(* Attaching a policy twice is no error. *)
EksUnique == EksResources \ (NodePolicies \cup
               {"cluster_policy", "ssm_policy", "ebs_csi_policy"})

-----------------------------------------------------------------------------
(* vpc/ *)

VpcNetwork == [ vpc |-> {} ]
VpcSubnets ==
  [ subnet_public |-> {"vpc"}, subnet_app |-> {"vpc"}, subnet_data |-> {"vpc"} ]
VpcInternetGateway == [ igw |-> {"vpc"} ]
VpcNatGateways     == [ eip |-> {}, nat |-> {"eip", "subnet_public"} ]
VpcRoutes ==
  [ rt_public |-> {"vpc", "igw"}, rta_public |-> {"subnet_public", "rt_public"},
    rt_app |-> {"vpc", "nat"},    rta_app |-> {"subnet_app", "rt_app"},
    rt_data |-> {"vpc"},          rta_data |-> {"subnet_data", "rt_data"} ]
VpcNacls ==
  [ nacl_public |-> {"vpc", "subnet_public"}, nacl_data |-> {"vpc", "subnet_data"} ]
VpcEndpoints ==
  [ sg_endpoints |-> {"vpc"}, vpce_s3 |-> {"vpc", "rt_app", "rt_data"},
    vpce_interfaces |-> {"vpc", "subnet_app", "sg_endpoints"} ]

RulesInline ==           \* faulty: the two groups list each other
  [ sg_alb |-> {"vpc", "sg_nodes"}, sg_nodes |-> {"vpc", "sg_alb"} ]

(* "Break the Cycle": each rule between the two groups is a resource. *)
VpcSecurityGroups ==
  [ sg_alb |-> {"vpc"}, sg_nodes |-> {"vpc"},
    alb_to_eks_egress |-> {"sg_alb", "sg_nodes"},
    eks_from_alb_ingress |-> {"sg_alb", "sg_nodes"} ]

VpcReferences == VpcNetwork @@ VpcSubnets @@ VpcInternetGateway @@ VpcNatGateways
                 @@ VpcRoutes @@ VpcNacls @@ VpcEndpoints @@ VpcSecurityGroups
VpcResources  == DOMAIN VpcReferences

NatAfterGateway == [ nat |-> {"igw"} ]
VpcDependsOn == Default(VpcResources, NatAfterGateway)

(* AWS creates a NAT gateway only in a VPC with an internet gateway. *)
VpcNeeds  == Default(VpcResources, [ nat |-> {"igw"} ])

(* Networks, addresses, route tables and network ACLs may exist twice. *)
VpcUnique == VpcResources \ {"vpc", "eip", "rt_public", "rt_app", "rt_data",
                              "nacl_public", "nacl_data"}

-----------------------------------------------------------------------------
(* rds/ *)

IngressForDatabases ==   \* faulty: the ingress rule is counted from the databases
  [ sg |-> {}, postgres_ingress |-> {"sg", "databases"}, egress |-> {"sg"} ]
RdsSecurity ==
  [ sg |-> {}, postgres_ingress |-> {"sg"}, egress |-> {"sg"} ]
RdsSubnetGroup    == [ subnet_group |-> {} ]
RdsParameterGroup == [ parameter_group |-> {} ]
RdsInstance == [ db_instance |-> {"sg", "subnet_group", "parameter_group"} ]
(* The provider of the databases is configured with the instance's address. *)
RdsDatabases == [ databases |-> {"db_instance"} ]

RdsReferences == RdsSecurity @@ RdsSubnetGroup @@ RdsParameterGroup
                 @@ RdsInstance @@ RdsDatabases
RdsResources  == DOMAIN RdsReferences

(* A database is created and dropped over a connection to the instance, which
   postgres_ingress alone lets in. *)
RdsNeeds     == Default(RdsResources, [ databases |-> {"postgres_ingress"} ])
RdsDropNeeds == RdsNeeds
RdsUnique    == RdsResources

-----------------------------------------------------------------------------
(* ssm_rotation/main.tf *)

RotationFunction ==
  [ lambda_exec |-> {}, lambda_ssm_access |-> {"lambda_exec"}, lambda_sg |-> {},
    rotator |-> {"lambda_exec", "lambda_sg"} ]
RotationTrigger ==
  [ thirty_days |-> {}, trigger_lambda |-> {"thirty_days", "rotator"},
    allow_eventbridge |-> {"rotator", "thirty_days"} ]

RotationReferences == RotationFunction @@ RotationTrigger
RotationResources  == DOMAIN RotationReferences

(* Lambda creates a function in a VPC only if its role may create network
   interfaces, which lambda_ssm_access says. *)
RotationNeeds  == Default(RotationResources, [ rotator |-> {"lambda_ssm_access"} ])
RotationUnique == RotationResources \ {"lambda_ssm_access", "trigger_lambda"}

-----------------------------------------------------------------------------
(* s3/ *)

S3Bucket == [ bucket_this |-> {} ]
S3Encryption   == [ encryption_this |-> {"bucket_this"} ]
S3Lifecycle    == [ lifecycle_this |-> {"bucket_this"} ]
S3Ownership    == [ ownership_this |-> {"bucket_this"} ]
S3PublicAccess == [ public_access_this |-> {"bucket_this"} ]
S3Versioning   == [ versioning_this |-> {"bucket_this"} ]
S3MediaBucket ==
  [ bucket_media |-> {}, media_block |-> {"bucket_media"},
    media_encryption |-> {"bucket_media"} ]
S3Policy == [ require_tls |-> {"bucket_media"} ]

S3References == S3Bucket @@ S3Encryption @@ S3Lifecycle @@ S3Ownership @@ S3PublicAccess
                @@ S3Versioning @@ S3MediaBucket @@ S3Policy
S3Resources  == DOMAIN S3References

(* Both buckets are named var.bucket_name. *)
S3Rivals == [ bucket_this |-> {"bucket_media"}, bucket_media |-> {"bucket_this"} ]

-----------------------------------------------------------------------------
(* All of them.                                                             *)

StackReferences == EksReferences @@ VpcReferences @@ RdsReferences
                   @@ RotationReferences @@ S3References
StackResources  == DOMAIN StackReferences
StackModules    ==
  {EksResources, VpcResources, RdsResources, RotationResources, S3Resources}
StackDependsOn  == Default(StackResources, EksDependsOn @@ VpcDependsOn)
StackNeeds      == Default(StackResources,
                           EksNeeds @@ VpcNeeds @@ RdsNeeds @@ RotationNeeds)
StackRivals     == Default(StackResources, S3Rivals)
StackUnique     == EksUnique \cup VpcUnique \cup RdsUnique \cup RotationUnique
                   \cup {"bucket_this", "bucket_media"}

(* Of these resources only a database needs another one to be deleted. *)
StackDropNeeds == Default(StackResources, RdsDropNeeds)

(* They wait for the instance and not for the rule that lets Terraform reach
   it, and for the role and not for its policy. *)
StackUndeclared == {"databases", "rotator"}
=============================================================================
