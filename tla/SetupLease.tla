----------------------------- MODULE SetupLease -----------------------------
(***************************************************************************)
(* Who may work on an interface: the guided setup (application.py,         *)
(* apply_system.py) and the runtime's commands (bin/wg-healthcheck), with   *)
(* their two locks and the health proof that rests on them.                *)
(*                                                                         *)
(* The guard is held shared by every command, and exclusively by a setup   *)
(* for its whole transaction; the setup lends its open descriptor to the   *)
(* commands it calls.  Then a command takes the interface lock.  Both are  *)
(* flocks: of an open file, freed when its last descriptor is closed.  A   *)
(* command's helpers (wg-quick, docker, subshells) inherit the             *)
(* descriptors of both and may outlive it; only the setup unlocks          *)
(* explicitly.  No lock is waited for.                                     *)
(*                                                                         *)
(* The guard and the interface lock of one interface are modelled; a       *)
(* descriptor is named by the process that opened it.                      *)
(***************************************************************************)
EXTENDS Naturals, FiniteSets

CONSTANTS Setups,    \* setup processes
          Runtimes,  \* processes of the runtime
          Unit,      \* the one of them that the timer starts
          None,
          MaxCalls   \* bound on the commands one setup calls

ASSUME LeaseAssumption ==
  Unit \in Runtimes /\ None \notin Setups \cup Runtimes /\ MaxCalls \in Nat

VARIABLES
  pc,      \* per setup, the step it is at; "off": not running
  calls,   \* per setup, the commands it has called
  answer,  \* per setup, what became of the last one, or of an earlier setup's
  at,      \* per runtime process, the step it is at
  lender,  \* per runtime process, the setup whose lease it or its helper inherited
  helper,  \* runtime processes that have a helper running
  lease,   \* the setup whose descriptor locks the guard exclusively
  shared,  \* runtime processes whose descriptors lock it shared
  iface,   \* the runtime process whose descriptor locks the interface
  timer,   \* the timer is active
  proof,   \* the proof start in the setup journal: whether the status file
           \* is still the "same" as then, or "new"
  status,  \* the status file: a success, and (history) of a command that set to work since
  since    \* history: the commands that set to work since the last proof start

setupVars == <<pc, calls, answer>>
lockVars == <<lease, shared, iface>>
proofVars == <<proof, status, since>>
vars == <<setupVars, at, lender, helper, lockVars, timer, proofVars>>

SetupSteps == {"off", "leased", "stopped", "ready", "calling"}
RuntimeSteps == {"off", "begun", "guarded", "working"}

Alive(r) == at[r] # "off" \/ r \in helper

\* The descriptor of the lease is still open somewhere.
LeaseOpen(s) == pc[s] # "off" \/ \E r \in Runtimes : Alive(r) /\ lender[r] = s

Init ==
  /\ pc = [s \in Setups |-> "off"]
  /\ calls = [s \in Setups |-> 0]
  /\ answer = [s \in Setups |-> "none"]
  /\ at = [r \in Runtimes |-> "off"]
  /\ lender = [r \in Runtimes |-> None]
  /\ helper = {}
  /\ lease = None /\ shared = {} /\ iface = None
  /\ timer \in BOOLEAN
  /\ proof = "none"
  /\ status = [good |-> FALSE, since |-> FALSE]
  /\ since = {}

(* ----------------------- commands of the runtime ----------------------- *)

Begin(r, s) ==
  /\ ~Alive(r)
  /\ at' = [at EXCEPT ![r] = "begun"]
  /\ lender' = [lender EXCEPT ![r] = s]
  /\ UNCHANGED <<helper, lockVars, timer, proofVars>>

\* The timer starts the unit, an operator any other command.
StartByTimer == timer /\ Begin(Unit, None) /\ UNCHANGED setupVars
StartByHand(r) == r # Unit /\ Begin(r, None) /\ UNCHANGED setupVars

\* r or its helper closes its descriptors, and a lock whose last one this is
\* is free: the lease too if nobody else has it.
Closes(r, last) ==
  /\ lender' = IF last THEN [lender EXCEPT ![r] = None] ELSE lender
  /\ shared' = IF last THEN shared \ {r} ELSE shared
  /\ iface' = IF last /\ iface = r THEN None ELSE iface
  /\ lease' = IF \E s \in Setups : lease = s /\ ~LeaseOpen(s)' THEN None ELSE lease

\* The setup that waits for r gets its exit status.
Answers(r, result) ==
  LET waiting == {s \in Setups : lender[r] = s /\ pc[s] = "calling"}
  IN /\ pc' = [s \in Setups |-> IF s \in waiting THEN "ready" ELSE pc[s]]
     /\ answer' = [s \in Setups |-> IF s \in waiting THEN result ELSE answer[s]]
     /\ UNCHANGED calls

\* r is gone, and its helper too unless it survives.
Gone(r, result) ==
  /\ at' = [at EXCEPT ![r] = "off"]
  /\ Answers(r, result)
  /\ since' = since \ {r}
  /\ UNCHANGED <<helper, timer, proof, status>>
  /\ Closes(r, r \notin helper)

\* acquire_runtime_guard: a shared lock, or the proof that the inherited
\* descriptor is the one that locks the guard exclusively.
Admitted(r) == IF lender[r] = None THEN lease = None ELSE lease = lender[r]

TakeGuard(r) ==
  /\ at[r] = "begun"
  /\ \/ /\ Admitted(r)
        /\ at' = [at EXCEPT ![r] = "guarded"]
        /\ shared' = IF lender[r] = None THEN shared \cup {r} ELSE shared
        /\ UNCHANGED <<setupVars, lender, helper, lease, iface, timer, proofVars>>
     \/ ~Admitted(r) /\ Gone(r, "failed")

\* acquire_command_lock
TakeInterface(r) ==
  /\ at[r] = "guarded"
  /\ \/ /\ iface = None
        /\ at' = [at EXCEPT ![r] = "working"]
        /\ iface' = r
        /\ since' = since \cup {r}
        /\ UNCHANGED <<setupVars, lender, helper, lease, shared, timer, proof, status>>
     \/ iface # None /\ Gone(r, "failed")

StartHelper(r) ==
  /\ at[r] = "working"
  /\ helper' = helper \cup {r}
  /\ UNCHANGED <<setupVars, at, lender, lockVars, timer, proofVars>>

HelperEnds(r) ==
  /\ r \in helper
  /\ helper' = helper \ {r}
  /\ UNCHANGED <<setupVars, at, timer, proofVars>>
  /\ Closes(r, at[r] = "off")

\* write_status replaces the file: another inode.
WriteStatus(r) ==
  /\ at[r] = "working" /\ r \notin helper
  /\ \E good \in BOOLEAN : status' = [good |-> good, since |-> r \in since]
  /\ proof' = IF proof = "same" THEN "new" ELSE proof
  /\ UNCHANGED <<setupVars, at, lender, helper, lockVars, timer, since>>

\* Mutant: leaving, a command unlocks the guard instead of closing it.
ExitUnlocks(r) ==
  /\ at[r] = "working" /\ r \notin helper
  /\ \E result \in {"ok", "failed"} :
       /\ at' = [at EXCEPT ![r] = "off"]
       /\ Answers(r, result)
  /\ since' = since \ {r}
  /\ shared' = shared \ {r} /\ lease' = None
  /\ iface' = None
  /\ lender' = [lender EXCEPT ![r] = None]
  /\ UNCHANGED <<helper, timer, proof, status>>

\* finish_main closes the descriptors; a command waits for its helpers.
Exit(r) ==
  /\ at[r] = "working" /\ r \notin helper
  /\ \E result \in {"ok", "failed"} : Gone(r, result)

\* Mutant: helpers do not inherit the descriptors of the locks.
KillFrees(r) ==
  /\ at[r] # "off"
  /\ at' = [at EXCEPT ![r] = "off"]
  /\ Answers(r, "failed")
  /\ since' = since \ {r}
  /\ UNCHANGED <<helper, timer, proof, status>>
  /\ Closes(r, TRUE)

\* A signal ends a command, or the setup kills it when its time is over; its
\* helper goes on.  systemd leaves no helper of the unit.
Kill(r) ==
  /\ at[r] # "off"
  /\ r # Unit \/ r \notin helper
  /\ Gone(r, "failed")

(* ------------------------------ the setup ------------------------------ *)

\* Mutant: only another setup is waited for.
TakeLeaseAnyway(s) ==
  /\ pc[s] = "off" /\ ~LeaseOpen(s)
  /\ lease = None
  /\ pc' = [pc EXCEPT ![s] = "leased"]
  /\ calls' = [calls EXCEPT ![s] = 0]
  /\ answer' = [answer EXCEPT ![s] = "recovering"]
  /\ lease' = s
  /\ UNCHANGED <<at, lender, helper, shared, iface, timer, proofVars>>

\* exclusive_setup_lease; a setup that does not get it ends.
TakeLease(s) ==
  /\ pc[s] = "off" /\ ~LeaseOpen(s)
  /\ lease = None /\ shared = {}
  /\ pc' = [pc EXCEPT ![s] = "leased"]
  /\ calls' = [calls EXCEPT ![s] = 0]
  /\ answer' = [answer EXCEPT ![s] = "recovering"]
  /\ lease' = s
  /\ UNCHANGED <<at, lender, helper, shared, iface, timer, proofVars>>

\* stop_units: systemd ends every process of the unit.
StopUnits(s) ==
  /\ pc[s] = "leased"
  /\ pc' = [pc EXCEPT ![s] = "stopped"]
  /\ timer' = FALSE
  /\ at' = [at EXCEPT ![Unit] = "off"]
  /\ helper' = helper \ {Unit}
  /\ shared' = shared \ {Unit}
  /\ iface' = IF iface = Unit THEN None ELSE iface
  /\ since' = since \ {Unit}
  /\ UNCHANGED <<calls, answer, lender, lease, proof, status>>

\* Mutant: the interface lock is not probed.
ProbeNothing(s) ==
  /\ pc[s] = "stopped"
  /\ pc' = [pc EXCEPT ![s] = "ready"]
  /\ UNCHANGED <<calls, answer, at, lender, helper, lockVars, timer, proofVars>>

\* probe_runtime_lock of the interface lock
ProbeLock(s) ==
  /\ pc[s] = "stopped" /\ iface = None
  /\ pc' = [pc EXCEPT ![s] = "ready"]
  /\ UNCHANGED <<calls, answer, at, lender, helper, lockVars, timer, proofVars>>

\* Mutant: commands are called again and again.
CallAgain(s, r) ==
  /\ pc[s] = "ready" /\ calls[s] <= MaxCalls
  /\ r # Unit
  /\ pc' = [pc EXCEPT ![s] = "calling"]
  /\ calls' = [calls EXCEPT ![s] = @ + 1]
  /\ UNCHANGED answer
  /\ Begin(r, s)

\* runtime_call: the lease is inherited, and waited for at most 65 s (Kill).
Call(s, r) ==
  /\ pc[s] = "ready" /\ calls[s] < MaxCalls
  /\ r # Unit
  /\ pc' = [pc EXCEPT ![s] = "calling"]
  /\ calls' = [calls EXCEPT ![s] = @ + 1]
  /\ UNCHANGED answer
  /\ Begin(r, s)

\* _begin_journaled_health_proof: the identity of the status file, durably.
BeginProof(s) ==
  /\ pc[s] = "ready"
  /\ proof' = "same"
  /\ since' = {}
  /\ status' = [good |-> status.good, since |-> FALSE]
  /\ answer' = [answer EXCEPT ![s] = "none"]
  /\ UNCHANGED <<pc, calls, at, lender, helper, lockVars, timer>>

\* Mutant: the status file need not be another one.
AcceptUnchanged(s) ==
  /\ pc[s] = "ready"
  /\ proof # "none" /\ status.good
  /\ answer[s] \in {"ok", "recovering"}
  /\ proof' = "none"
  /\ answer' = [answer EXCEPT ![s] = IF status.since THEN "verified" ELSE "unproved"]
  /\ UNCHANGED <<pc, calls, at, lender, helper, lockVars, timer, status, since>>

\* verify_health after the setup's own check, or recovery of a setup that was
\* cut: a success in a status file that is new.
Accept(s) ==
  /\ pc[s] = "ready"
  /\ proof = "new" /\ status.good
  /\ answer[s] \in {"ok", "recovering"}
  /\ proof' = "none"
  /\ answer' = [answer EXCEPT ![s] = IF status.since THEN "verified" ELSE "unproved"]
  /\ UNCHANGED <<pc, calls, at, lender, helper, lockVars, timer, status, since>>

\* The transaction is rolled back instead.
Reject(s) ==
  /\ pc[s] = "ready" /\ proof # "none"
  /\ proof' = "none"
  /\ UNCHANGED <<setupVars, at, lender, helper, lockVars, timer, status, since>>

EnableTimer(s) ==
  /\ pc[s] = "ready" /\ proof = "none"
  /\ timer' = TRUE
  /\ UNCHANGED <<setupVars, at, lender, helper, lockVars, proofVars>>

\* Mutant: a setup ends without unlocking what it lent.
FinishLocked(s) ==
  /\ pc[s] \in {"leased", "stopped", "ready"}
  /\ pc' = [pc EXCEPT ![s] = "off"]
  /\ answer' = [answer EXCEPT ![s] = "none"]
  /\ UNCHANGED <<calls, at, lender, helper, lockVars, timer, proofVars>>

\* The lease is unlocked, whoever still has its descriptor.
Finish(s) ==
  /\ pc[s] \in {"leased", "stopped", "ready"}
  /\ pc' = [pc EXCEPT ![s] = "off"]
  /\ answer' = [answer EXCEPT ![s] = "none"]
  /\ lease' = None
  /\ UNCHANGED <<calls, at, lender, helper, shared, iface, timer, proofVars>>

\* The setup is killed; a command it waits for goes on under the lease.
KillSetup(s) ==
  /\ pc[s] # "off"
  /\ pc' = [pc EXCEPT ![s] = "off"]
  /\ answer' = [answer EXCEPT ![s] = "none"]
  /\ UNCHANGED <<calls, at, lender, helper, shared, iface, timer, proofVars>>
  /\ lease' = IF LeaseOpen(s)' THEN lease ELSE None

Runtime(r) ==
  TakeGuard(r) \/ TakeInterface(r) \/ StartHelper(r) \/ HelperEnds(r)
    \/ WriteStatus(r) \/ Exit(r) \/ Kill(r)

Setup(s) ==
  \/ TakeLease(s) \/ StopUnits(s) \/ ProbeLock(s)
  \/ BeginProof(s) \/ Accept(s) \/ Reject(s) \/ EnableTimer(s)
  \/ Finish(s) \/ KillSetup(s)
  \/ \E r \in Runtimes : Call(s, r)

Next ==
  \/ StartByTimer
  \/ \E r \in Runtimes : StartByHand(r) \/ Runtime(r)
  \/ \E s \in Setups : Setup(s)

Spec == Init /\ [][Next]_vars

\* A process that can go on does, a command and its helper come to an end
\* (they are limited by timeout and by the unit), and a setup does not go on
\* for ever.
FairSpec ==
  /\ Spec
  /\ \A r \in Runtimes : /\ WF_vars(TakeGuard(r)) /\ WF_vars(TakeInterface(r))
                         /\ WF_vars(HelperEnds(r)) /\ SF_vars(Exit(r))
  /\ \A s \in Setups : SF_vars(Finish(s))

(* ------------------------------ properties ----------------------------- *)

\* Every variable has a value of its type.
TypeOK ==
  /\ pc \in [Setups -> SetupSteps]
  /\ calls \in [Setups -> 0..MaxCalls]
  /\ answer \in [Setups -> {"none", "recovering", "ok", "failed", "verified", "unproved"}]
  /\ at \in [Runtimes -> RuntimeSteps]
  /\ lender \in [Runtimes -> Setups \cup {None}]
  /\ helper \subseteq Runtimes
  /\ lease \in Setups \cup {None} /\ shared \subseteq Runtimes
  /\ iface \in Runtimes \cup {None}
  /\ timer \in BOOLEAN
  /\ proof \in {"none", "same", "new"}
  /\ status \in [good : BOOLEAN, since : BOOLEAN]
  /\ since \subseteq Runtimes

\* A setup that runs has the lease, so there is one at most; and while it is
\* held, by a setup or by a command of a killed one, no command but those it
\* was lent to is past the guard.
LeaseExcludes ==
  \A s \in Setups :
    /\ pc[s] # "off" => lease = s
    /\ lease = s => \A r \in Runtimes : at[r] \in {"guarded", "working"} => lender[r] = s

\* At most one command or helper works on the interface: the helper of a
\* command that was killed counts.
OneAtWork ==
  \A p, r \in Runtimes :
    (at[p] = "working" \/ p \in helper) /\ (at[r] = "working" \/ r \in helper) => p = r

\* What still works on the interface during the transaction of a setup is of
\* its own calling: nothing is left of the commands of before.
TransactionAlone ==
  \A s \in Setups, r \in Runtimes :
    pc[s] \in {"ready", "calling"} /\ (at[r] = "working" \/ r \in helper) => lender[r] = s

\* A command a setup has called can always adopt the lease, also when the
\* setup has been killed meanwhile.
LeaseAdoptable ==
  \A s \in Setups, r \in Runtimes : at[r] # "off" /\ lender[r] = s => lease = s

\* A setup is finalized on the success of a check that set to work after
\* its proof start, whoever ran the check, and also when another setup finalizes it.
ProofSound == \A s \in Setups : answer[s] # "unproved"

\* The guard does not stay locked: the lease of a setup that was killed ends
\* with the command it had called.
LeaseReleased == lease # None ~> lease = None
=============================================================================
