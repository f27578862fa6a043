---------------------------- MODULE SetupAtomic ----------------------------
(***************************************************************************)
(* What one guided setup promises: the installed profile source, settings  *)
(* and credential change together, from the triple that was installed to   *)
(* the one asked for, or not at all.  A static installation may then give  *)
(* up its credential.                                                      *)
(***************************************************************************)
CONSTANTS Triples, None

VARIABLES installed,  \* the triple that is in force, or will be once recovered
          asked       \* the triple the last transaction was to install

Init ==
  /\ installed \in Triples
  /\ asked = installed

\* A transaction starts: nothing is in force yet.
Ask ==
  /\ asked' \in Triples
  /\ UNCHANGED installed

Commit ==
  /\ installed' = asked
  /\ UNCHANGED asked

\* --remove-credential, after the commit to static mode
RemoveKey ==
  /\ installed.source = "static"
  /\ installed' = [installed EXCEPT !.key = None]
  /\ asked' \in {asked, installed'}

Next == Ask \/ Commit \/ RemoveKey

Spec == Init /\ [][Next]_<<installed, asked>>
=============================================================================
