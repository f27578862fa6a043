------------------------------ MODULE MCApiLedger ------------------------------
(* Small instances of ApiLedger for TLC: Day stands for three units of time or less. *)
EXTENDS ApiLedger, TLC

\* Servers and credentials are interchangeable.
Symmetric == Permutations(Servers) \cup Permutations(Credentials)
=============================================================================
