--------------------------- MODULE MCControlServer ---------------------------
(* An instance of ControlServer for TLC: connectors and bounds are in the configuration. *)
EXTENDS ControlServer
=============================================================================
