--------------------------- MODULE MCTokenRefresh ---------------------------
(* An instance of TokenRefresh for TLC: requests and bounds are in the configuration. *)
EXTENDS TokenRefresh
=============================================================================
