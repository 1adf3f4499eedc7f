------------------------------ MODULE MCCAChain ------------------------------
(* An instance of CAChain for TLC: enrollments and bounds are in the configuration. *)
EXTENDS CAChain
=============================================================================
