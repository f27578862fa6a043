---------------------------- MODULE MCSetupStore ----------------------------
(* A small instance of SetupStore for TLC. *)
EXTENDS SetupStore, TLC

Symmetry == Permutations(Settings)
=============================================================================
