-------------------------- MODULE MCDfspClientCert --------------------------
(* An instance of DfspClientCert for TLC: the bounds are in the configuration. *)
EXTENDS DfspClientCert
=============================================================================
