---------------------------- MODULE MCEvalBroker ----------------------------
(* The instances of EvalBroker that TLC checks; their bounds are in the .cfg files. *)
EXTENDS EvalBroker
==============================================================================
