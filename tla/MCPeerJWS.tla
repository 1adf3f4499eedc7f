------------------------------ MODULE MCPeerJWS ------------------------------
(* An instance of PeerJWS for TLC: peers and bounds are in the configuration. *)
EXTENDS PeerJWS
=============================================================================
