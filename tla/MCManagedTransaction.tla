------------------------ MODULE MCManagedTransaction ------------------------
(* Small instances of ManagedTransaction for TLC. *)
EXTENDS ManagedTransaction

\* Two accidents of each kind over two transactions with nobody else at the
\* client; and one of each in a transaction that somebody interferes with twice.
Undisturbed == [faults |-> 2, crashes |-> 2, meddles |-> 0, starts |-> 2]
Disturbed == [faults |-> 1, crashes |-> 1, meddles |-> 2, starts |-> 1]
Accidents == {Undisturbed, Disturbed}

FaultsOnly == {[faults |-> 2, crashes |-> 0, meddles |-> 0, starts |-> 1]}
=============================================================================
