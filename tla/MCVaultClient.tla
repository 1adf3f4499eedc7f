---------------------------- MODULE MCVaultClient ----------------------------
(* An instance of VaultClient for TLC: calls and bounds are in the configuration. *)
EXTENDS VaultClient
=============================================================================
