---------------------------- MODULE MCSetupApply ----------------------------
(* Small instances of SetupApply for TLC. *)
EXTENDS SetupApply

CONSTANTS s1, s2, k1, k2

\* One API request and one static request with every option off.
ApiRequest == [mode |-> "api", settings |-> s2, key |-> k1, replace |-> FALSE,
               restore |-> FALSE, remove |-> FALSE, reset |-> FALSE, enable |-> TRUE]
StaticRequest == [ApiRequest EXCEPT !.mode = "static", !.enable = FALSE]

Replacing == [ApiRequest EXCEPT !.replace = TRUE, !.key = k2, !.settings = s1,
                               !.reset = TRUE, !.enable = FALSE]
Restoring == [StaticRequest EXCEPT !.restore = TRUE]
Removing == [StaticRequest EXCEPT !.remove = TRUE, !.enable = TRUE]

ApiRequests == {ApiRequest, Replacing}
LiveRequests == {ApiRequest, Restoring}
AllRequests == {ApiRequest, Replacing, StaticRequest, Restoring, Removing}

\* Nothing but an operator's profile, or not even that; and an adopted interface.
Fresh == {[config |-> [source |-> "static", settings |-> s1], credential |-> None,
           profile |-> p, preManaged |-> None] : p \in {"own", None}}
Managed == {[config |-> [source |-> "api", settings |-> s1], credential |-> k1,
             profile |-> "managed", preManaged |-> "own"]}
Installations == Fresh \cup Managed
=============================================================================
