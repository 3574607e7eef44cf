------------------------------ MODULE MCRotator ------------------------------
(***************************************************************************)
(* Instances of Rotator for TLC.  Deliveries and local runs are model      *)
(* values; only their identity matters, so they may be exchanged in runs   *)
(* that check no liveness property.                                        *)
(***************************************************************************)
EXTENDS Rotator, TLC

Symmetry == Permutations(Deliveries) \cup Permutations(LocalRuns)
=============================================================================
