----------------------------- MODULE ResourceGraph -----------------------------
(***************************************************************************)
(* The graph of resources that Terraform walks, and what such a graph has  *)
(* to be for its runs to come to their end (TerraformApplyProofs).         *)
(***************************************************************************)
EXTENDS Naturals

CONSTANTS
  Resources,     \* the resource blocks of all modules
  References,    \* [r |-> the resources whose attributes r's arguments mention]
  DependsOn,     \* [r |-> the resources r's depends_on lists]
  Needs,         \* [r |-> what else must be usable for r to be created and used]
  DropNeeds,     \* [r |-> what must be usable for r to be deleted]
  Undeclared,    \* resources that do not wait for all they need
  Rivals         \* [r |-> other resources that claim the same name]

Edges(r) == References[r] \cup DependsOn[r]

(* rank gives every resource one of n + 1 levels, above what it depends on: there
   is no cycle. *)
IsOrder(rank, n) ==
  /\ rank \in [Resources -> 0..n]
  /\ \A r \in Resources : \A q \in Edges(r) : rank[q] < rank[r]

(* Every need but those left undeclared is among the direct dependencies. *)
NeedsDeclared     == \A r \in Resources \ Undeclared : Needs[r] \subseteq Edges(r)
DropNeedsDeclared == \A r \in Resources \ Undeclared : DropNeeds[r] \subseteq Edges(r)

(* Nothing needs a resource that can be held up by a doubtful one: clear has all
   that is needed, and what that depends on, and nothing doubtful. *)
IsClear(clear) ==
  /\ \A r \in Resources : Needs[r] \subseteq clear
  /\ \A r \in clear \cap Resources : Edges(r) \subseteq clear /\ r \notin Undeclared /\ Rivals[r] = {}
=============================================================================
