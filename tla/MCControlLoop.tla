---------------------------- MODULE MCControlLoop ----------------------------
(* Bounded instances of ControlLoop for TLC. *)
EXTENDS ControlLoop, TLC

Symmetry == Permutations(Key) \cup Permutations(Worker) \cup Permutations(Client)
==============================================================================
