---------------------------- MODULE MCSetupLease ----------------------------
(* A small instance of SetupLease for TLC. *)
EXTENDS SetupLease
=============================================================================
