--------------------------- MODULE MCStatusReport ---------------------------
(* Instances of the machine with its reports over the charts of the code. *)
EXTENDS MCConnectionStateMachine, StatusReport
=============================================================================
