-------------------------- MODULE MCLeaderElection --------------------------
(* Bounded instances of LeaderElection for TLC. *)
EXTENDS LeaderElection, TLC

Symmetry == Permutations(Node)
==============================================================================
