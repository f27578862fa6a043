---------------------------- MODULE ProfileSwitch ----------------------------
(***************************************************************************)
(* What the managed transaction promises of the installed profile: it      *)
(* changes by switches, each of which is decided once.  An open switch can *)
(* still go either way; a committed one only to its target.  Crashes are   *)
(* no actions here: they may decide an open switch, never undo a decision. *)
(***************************************************************************)
CONSTANTS Profiles, None

VARIABLES
  profile,    \* the profile installed before the switch, and between switches
  target,     \* the profile being switched to, or None
  committed   \* the switch is decided for its target

vars == <<profile, target, committed>>

TypeOK ==
  /\ profile \in Profiles
  /\ target \in (Profiles \ {profile}) \cup {None}
  /\ committed \in BOOLEAN
  /\ committed => target # None

Init == profile \in Profiles /\ target = None /\ committed = FALSE

Begin ==
  /\ target = None
  /\ target' \in Profiles \ {profile}
  /\ UNCHANGED <<profile, committed>>

Commit ==
  /\ target # None
  /\ committed' = TRUE
  /\ UNCHANGED <<profile, target>>

Abandon ==
  /\ target # None /\ ~committed
  /\ target' = None
  /\ UNCHANGED <<profile, committed>>

\* The target is installed for good; one sync may decide and finish at once.
Finish ==
  /\ target # None
  /\ profile' = target
  /\ target' = None
  /\ committed' = FALSE

Next == Begin \/ Commit \/ Abandon \/ Finish

Spec == Init /\ [][Next]_vars
=============================================================================
