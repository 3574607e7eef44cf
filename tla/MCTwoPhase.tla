------------------------------ MODULE MCTwoPhase ------------------------------
(* Two applications, a recovery manager and a gid that all may use. *)
EXTENDS TwoPhase
CONSTANTS a1, a2, m1, g1
MCApps == {a1, a2}
MCManagers == {m1}
MCGids == {g1}
=============================================================================
