-------------------------- MODULE SetupLease_proof --------------------------
(***************************************************************************)
(* Proofs about SetupLease: who is past which lock, and what a proof of    *)
(* health is worth, for any number of setups, commands and calls.          *)
(*                                                                         *)
(* The inductive invariant says what the locks tell of the processes:      *)
(* Leased and Sharing of the guard, LeaseAdoptable, Waited and OneCall of  *)
(* the lease that is lent, Working and Alone of the interface lock,        *)
(* Proving of the status file.                                             *)
(***************************************************************************)
EXTENDS SetupLease, TLAPS

Works(r) == at[r] = "working" \/ r \in helper

\* The guard is locked exclusively by the setup that runs, or shared.
Leased == \A s \in Setups : pc[s] # "off" => lease = s
Sharing ==
  /\ lease # None => shared = {}
  /\ \A r \in Runtimes : at[r] \in {"guarded", "working"} /\ lender[r] = None => r \in shared

\* A setup that runs waits for the command it has called, and has called one.
Waited ==
  \A s \in Setups, r \in Runtimes :
    at[r] # "off" /\ lender[r] = s /\ pc[s] # "off" => pc[s] = "calling"
OneCall ==
  \A p, r \in Runtimes :
    at[p] # "off" /\ at[r] # "off" /\ lender[p] # None /\ lender[p] = lender[r] => p = r

\* What works on the interface has its lock, and was called by the setup.
Working == \A r \in Runtimes : Works(r) => iface = r
Alone ==
  \A s \in Setups, r \in Runtimes : pc[s] \in {"ready", "calling"} /\ Works(r) => lender[r] = s

\* Only a command that set to work since the proof start writes the new status.
Proving ==
  /\ proof = "new" => status.since
  /\ \A r \in Runtimes : proof # "none" /\ at[r] = "working" => r \in since
  /\ ProofSound

\* What the locks tell of the processes.
LockInv == Leased /\ Sharing /\ LeaseAdoptable /\ Waited /\ OneCall /\ Working /\ Alone

\* The inductive invariant.
IInv == TypeOK /\ LockInv /\ Proving

\* The invariant holds at first.
THEOREM InitInv == Init => IInv
  BY LeaseAssumption DEF Init, IInv, LockInv, TypeOK, Leased, Sharing, LeaseAdoptable, Waited,
     OneCall, Working, Works, Alone, Proving, ProofSound, SetupSteps, RuntimeSteps

\* Every value keeps its type.
LEMMA TypeStep == TypeOK /\ [Next]_vars => TypeOK'
<1> SUFFICES ASSUME TypeOK, [Next]_vars PROVE TypeOK'
  OBVIOUS
<1> USE LeaseAssumption DEF TypeOK, SetupSteps, RuntimeSteps
<1>1. CASE UNCHANGED vars
  BY <1>1 DEF vars, setupVars, lockVars, proofVars
<1>2. ASSUME NEW r \in Runtimes, NEW s \in Setups \cup {None}, Begin(r, s), UNCHANGED setupVars
      PROVE TypeOK'
  BY <1>2 DEF Begin, setupVars, lockVars, proofVars
<1>3. ASSUME NEW r \in Runtimes, NEW result \in {"ok", "failed"}, Gone(r, result)
      PROVE TypeOK'
  <2>1. pc' \in [Setups -> SetupSteps] /\ calls' \in [Setups -> 0..MaxCalls]
    BY <1>3 DEF Gone, Answers
  <2>2. answer' \in [Setups -> {"none", "recovering", "ok", "failed", "verified", "unproved"}]
    BY <1>3 DEF Gone, Answers
  <2>3. QED BY <1>3, <2>1, <2>2 DEF Gone, Closes
<1>4. ASSUME NEW r \in Runtimes, Runtime(r) PROVE TypeOK'
  <2>1. CASE TakeGuard(r)
    BY <1>3, <2>1 DEF TakeGuard, setupVars, lockVars, proofVars
  <2>2. CASE TakeInterface(r)
    BY <1>3, <2>2 DEF TakeInterface, setupVars, lockVars, proofVars
  <2>3. CASE StartHelper(r)
    BY <2>3 DEF StartHelper, setupVars, lockVars, proofVars
  <2>4. CASE HelperEnds(r)
    BY <2>4 DEF HelperEnds, Closes, setupVars, lockVars, proofVars
  <2>5. CASE WriteStatus(r)
    BY <2>5 DEF WriteStatus, setupVars, lockVars, proofVars
  <2>6. CASE Exit(r) \/ Kill(r)
    BY <1>3, <2>6 DEF Exit, Kill
  <2>7. QED BY <1>4, <2>1, <2>2, <2>3, <2>4, <2>5, <2>6 DEF Runtime
<1>5. ASSUME NEW s \in Setups, Setup(s) PROVE TypeOK'
  <2>1. CASE TakeLease(s)
    BY <2>1 DEF TakeLease, setupVars, lockVars, proofVars
  <2>2. CASE StopUnits(s)
    BY <2>2 DEF StopUnits, setupVars, lockVars, proofVars
  <2>3. CASE ProbeLock(s)
    BY <2>3 DEF ProbeLock, setupVars, lockVars, proofVars
  <2>4. CASE Reject(s) \/ EnableTimer(s)
    BY <2>4 DEF Reject, EnableTimer, setupVars, lockVars, proofVars
  <2>8. CASE BeginProof(s)
    <3>1. status' \in [good : BOOLEAN, since : BOOLEAN]
      BY <2>8 DEF BeginProof
    <3>2. answer' \in [Setups -> {"none", "recovering", "ok", "failed", "verified", "unproved"}]
      BY <2>8 DEF BeginProof
    <3>3. proof' = "same" /\ since' = {} /\ UNCHANGED <<pc, calls, at, lender, helper, lockVars, timer>>
      BY <2>8 DEF BeginProof
    <3>4. QED BY <3>1, <3>2, <3>3 DEF lockVars
  <2>5. CASE Accept(s)
    BY <2>5 DEF Accept, setupVars, lockVars, proofVars
  <2>6. CASE Finish(s) \/ KillSetup(s)
    BY <2>6 DEF Finish, KillSetup, setupVars, lockVars, proofVars
  <2>7. ASSUME NEW r \in Runtimes, Call(s, r) PROVE TypeOK'
    BY <2>7 DEF Call, Begin, setupVars, lockVars, proofVars
  <2>9. QED BY <1>5, <2>1, <2>2, <2>3, <2>4, <2>5, <2>6, <2>7, <2>8 DEF Setup
<1>6. QED
  BY <1>1, <1>2, <1>4, <1>5 DEF Next, StartByTimer, StartByHand

\* A process that is gone leaves the locks as its helper, and the setups that
\* were waiting or not, need them.
LEMMA GoneStep ==
  ASSUME TypeOK, LockInv, NEW r \in Runtimes, NEW result \in {"ok", "failed"},
         at[r] # "off", Gone(r, result)
  PROVE  LockInv'
<1> USE LeaseAssumption DEF TypeOK, LockInv
<1>1. /\ at' = [at EXCEPT ![r] = "off"] /\ helper' = helper
      /\ \A q \in Runtimes : at'[q] # "off" => q # r /\ at'[q] = at[q]
      /\ \A q \in Runtimes : Works(q)' => Works(q) /\ (q = r => r \in helper)
  BY DEF Gone, Works
<1>2. \A s \in Setups : pc'[s] = IF lender[r] = s /\ pc[s] = "calling" THEN "ready" ELSE pc[s]
  BY DEF Gone, Answers
<1>3. /\ lender' = IF r \notin helper THEN [lender EXCEPT ![r] = None] ELSE lender
      /\ shared' = IF r \notin helper THEN shared \ {r} ELSE shared
      /\ iface' = IF r \notin helper /\ iface = r THEN None ELSE iface
      /\ lease' = IF \E s \in Setups : lease = s /\ ~LeaseOpen(s)' THEN None ELSE lease
  BY DEF Gone, Closes
<1>4. \A q \in Runtimes : q # r \/ r \in helper => lender'[q] = lender[q]
  BY <1>3
<1>5. Leased'
  BY <1>2, <1>3 DEF Leased, LeaseOpen
<1>6. Sharing'
  BY <1>1, <1>3, <1>4 DEF Sharing
<1>7. LeaseAdoptable'
  BY <1>1, <1>3, <1>4 DEF LeaseAdoptable, LeaseOpen, Alive
<1>8. Waited'
  BY <1>1, <1>2, <1>4 DEF Waited, OneCall
<1>9. OneCall'
  BY <1>1, <1>4 DEF OneCall
<1>10. Working'
  BY <1>1, <1>3 DEF Working
<1>11. Alone'
  BY <1>1, <1>2, <1>4 DEF Alone
<1>12. QED BY <1>5, <1>6, <1>7, <1>8, <1>9, <1>10, <1>11

\* A process that begins has no lock, and the lease if the setup that waits for it has it.
LEMMA BeginStep ==
  ASSUME TypeOK, LockInv, NEW r \in Runtimes, NEW s \in Setups \cup {None}, Begin(r, s),
         \/ s = None /\ pc' = pc
         \/ s \in Setups /\ pc[s] = "ready" /\ pc' = [pc EXCEPT ![s] = "calling"]
  PROVE  LockInv'
<1> USE LeaseAssumption DEF TypeOK, LockInv
<1>1. /\ at[r] = "off" /\ r \notin helper
      /\ at' = [at EXCEPT ![r] = "begun"] /\ lender' = [lender EXCEPT ![r] = s]
      /\ UNCHANGED <<helper, lease, shared, iface>>
  BY DEF Begin, Alive, lockVars
<1>2. \A q \in Runtimes : (q # r => at'[q] = at[q] /\ lender'[q] = lender[q])
  BY <1>1
<1>3. at'[r] = "begun" /\ lender'[r] = s
  BY <1>1
<1>4. \A t \in Setups : pc'[t] = pc[t] \/ (t = s /\ pc[t] = "ready" /\ pc'[t] = "calling")
  OBVIOUS
<1>5. \A q \in Runtimes : Works(q)' => q # r /\ Works(q)
  BY <1>1, <1>2, <1>3 DEF Works
<1>6. Leased' /\ Sharing'
  BY <1>1, <1>2, <1>3, <1>4 DEF Leased, Sharing
<1>7. LeaseAdoptable'
  BY <1>1, <1>2, <1>3 DEF LeaseAdoptable, Leased
<1>8. Waited'
  BY <1>2, <1>3, <1>4 DEF Waited
<1>9. OneCall'
  <2>1. s # None => \A q \in Runtimes : q # r /\ at[q] # "off" => lender[q] # s
    BY DEF Waited
  <2>2. QED BY <1>2, <1>3, <2>1 DEF OneCall
<1>10. Working' /\ Alone'
  BY <1>1, <1>2, <1>4, <1>5 DEF Working, Alone
<1>11. QED BY <1>6, <1>7, <1>8, <1>9, <1>10

\* Every step of a command keeps the locks' meaning.
LEMMA RuntimeStep ==
  ASSUME TypeOK, LockInv, NEW r \in Runtimes, Runtime(r)
  PROVE  LockInv'
<1> USE LeaseAssumption DEF TypeOK
<1>1. CASE TakeGuard(r)
  <2>1. CASE Gone(r, "failed")
    BY <1>1, <2>1, GoneStep DEF TakeGuard
  <2>2. CASE ~Gone(r, "failed")
    <3>1. /\ at[r] = "begun" /\ Admitted(r) /\ at' = [at EXCEPT ![r] = "guarded"]
          /\ shared' = IF lender[r] = None THEN shared \cup {r} ELSE shared
          /\ UNCHANGED <<pc, lender, helper, lease, iface>>
      BY <1>1, <2>2 DEF TakeGuard, setupVars
    <3>2. /\ \A q \in Runtimes : q # r => at'[q] = at[q]
          /\ at'[r] = "guarded"
      BY <3>1
    <3>3. \A q \in Runtimes : Works(q)' => Works(q)
      BY <3>1, <3>2 DEF Works
    <3>4. Sharing'
      BY <3>1, <3>2 DEF LockInv, Sharing, Admitted
    <3>5. Leased' /\ LeaseAdoptable' /\ Waited' /\ OneCall'
      BY <3>1, <3>2 DEF LockInv, Leased, LeaseAdoptable, Waited, OneCall
    <3>6. Working' /\ Alone'
      BY <3>1, <3>3 DEF LockInv, Working, Alone
    <3>7. QED BY <3>4, <3>5, <3>6 DEF LockInv
  <2>3. QED BY <2>1, <2>2
<1>2. CASE TakeInterface(r)
  <2>1. CASE Gone(r, "failed")
    BY <1>2, <2>1, GoneStep DEF TakeInterface
  <2>2. CASE ~Gone(r, "failed")
    <3>1. /\ at[r] = "guarded" /\ iface = None /\ at' = [at EXCEPT ![r] = "working"]
          /\ iface' = r
          /\ UNCHANGED <<pc, lender, helper, lease, shared>>
      BY <1>2, <2>2 DEF TakeInterface, setupVars
    <3>2. /\ \A q \in Runtimes : q # r => at'[q] = at[q]
          /\ at'[r] = "working"
      BY <3>1
    <3>3. \A q \in Runtimes : Works(q)' => q = r
      BY <3>1, <3>2 DEF Works, LockInv, Working
    <3>4. Leased' /\ Sharing' /\ LeaseAdoptable' /\ Waited' /\ OneCall'
      BY <3>1, <3>2 DEF LockInv, Leased, Sharing, LeaseAdoptable, Waited, OneCall
    <3>5. \A s \in Setups : pc[s] # "off" => lender[r] = s
      BY <3>1 DEF LockInv, Leased, Sharing, LeaseAdoptable
    <3>6. Working' /\ Alone'
      BY <3>1, <3>3, <3>5 DEF LockInv, Working, Alone
    <3>7. QED BY <3>4, <3>6 DEF LockInv
  <2>3. QED BY <2>1, <2>2
<1>3. CASE StartHelper(r)
  <2>1. /\ at[r] = "working" /\ helper' = helper \cup {r}
        /\ UNCHANGED <<pc, at, lender, lease, shared, iface>>
    BY <1>3 DEF StartHelper, setupVars, lockVars
  <2>2. \A q \in Runtimes : Works(q)' => Works(q)
    BY <2>1 DEF Works
  <2>3. QED
    BY <2>1, <2>2 DEF LockInv, Leased, Sharing, LeaseAdoptable, Waited, OneCall, Working, Alone
<1>4. CASE HelperEnds(r)
  <2>1. r \in helper /\ helper' = helper \ {r} /\ UNCHANGED <<pc, at>>
    BY <1>4 DEF HelperEnds, setupVars
  <2>2. /\ lender' = IF at[r] = "off" THEN [lender EXCEPT ![r] = None] ELSE lender
        /\ shared' = IF at[r] = "off" THEN shared \ {r} ELSE shared
        /\ iface' = IF at[r] = "off" /\ iface = r THEN None ELSE iface
        /\ lease' = IF \E s \in Setups : lease = s /\ ~LeaseOpen(s)' THEN None ELSE lease
    BY <1>4 DEF HelperEnds, Closes
  <2>3. \A q \in Runtimes : q # r \/ at[r] # "off" => lender'[q] = lender[q]
    BY <2>2
  <2>4. \A q \in Runtimes : Works(q)' => Works(q) /\ (q # r \/ at[r] # "off")
    BY <2>1 DEF Works
  <2>5. Leased' /\ Sharing'
    BY <2>1, <2>2, <2>3 DEF LockInv, Leased, Sharing, LeaseOpen
  <2>6. LeaseAdoptable'
    BY <2>1, <2>2, <2>3 DEF LockInv, LeaseAdoptable, LeaseOpen, Alive
  <2>7. Waited' /\ OneCall'
    BY <2>1, <2>3 DEF LockInv, Waited, OneCall
  <2>8. Working' /\ Alone'
    BY <2>1, <2>2, <2>3, <2>4 DEF LockInv, Working, Alone
  <2>9. QED BY <2>5, <2>6, <2>7, <2>8 DEF LockInv
<1>5. CASE WriteStatus(r)
  BY <1>5 DEF WriteStatus, setupVars, lockVars, LockInv, Leased, Sharing, LeaseAdoptable, Waited,
     OneCall, Working, Works, Alone
<1>6. CASE Exit(r) \/ Kill(r)
  <2>1. \E result \in {"ok", "failed"} : at[r] # "off" /\ Gone(r, result)
    BY <1>6 DEF Exit, Kill
  <2>2. QED BY <2>1, GoneStep
<1>7. QED BY <1>1, <1>2, <1>3, <1>4, <1>5, <1>6 DEF Runtime

\* Every step of a setup keeps the locks' meaning.
LEMMA SetupStep ==
  ASSUME TypeOK, LockInv, NEW s \in Setups, Setup(s)
  PROVE  LockInv'
<1> USE LeaseAssumption DEF TypeOK
<1>1. CASE TakeLease(s)
  <2>1. /\ pc[s] = "off" /\ ~LeaseOpen(s) /\ lease = None /\ shared = {}
        /\ pc' = [pc EXCEPT ![s] = "leased"] /\ lease' = s
        /\ UNCHANGED <<at, lender, helper, shared, iface>>
    BY <1>1 DEF TakeLease
  <2>2. \A t \in Setups : pc'[t] = IF t = s THEN "leased" ELSE pc[t]
    BY <2>1
  <2>3. Leased' /\ Sharing'
    BY <2>1, <2>2 DEF LockInv, Leased, Sharing
  <2>4. LeaseAdoptable' /\ Waited' /\ OneCall'
    BY <2>1, <2>2 DEF LockInv, LeaseAdoptable, Waited, OneCall, LeaseOpen, Alive
  <2>5. Working' /\ Alone'
    BY <2>1, <2>2 DEF LockInv, Working, Works, Alone
  <2>6. QED BY <2>3, <2>4, <2>5 DEF LockInv
<1>2. CASE StopUnits(s)
  <2>1. /\ pc[s] = "leased" /\ pc' = [pc EXCEPT ![s] = "stopped"]
        /\ at' = [at EXCEPT ![Unit] = "off"] /\ helper' = helper \ {Unit}
        /\ shared' = shared \ {Unit} /\ iface' = IF iface = Unit THEN None ELSE iface
        /\ UNCHANGED <<lender, lease>>
    BY <1>2 DEF StopUnits
  <2>2. \A t \in Setups : pc'[t] = IF t = s THEN "stopped" ELSE pc[t]
    BY <2>1
  <2>3. \A q \in Runtimes : at'[q] = IF q = Unit THEN "off" ELSE at[q]
    BY <2>1
  <2>4. \A q \in Runtimes : Works(q)' => Works(q) /\ q # Unit
    BY <2>1, <2>3 DEF Works
  <2>5. Leased' /\ Sharing'
    BY <2>1, <2>2, <2>3 DEF LockInv, Leased, Sharing
  <2>6. LeaseAdoptable' /\ Waited' /\ OneCall'
    BY <2>1, <2>2, <2>3 DEF LockInv, LeaseAdoptable, Waited, OneCall
  <2>7. Working' /\ Alone'
    BY <2>1, <2>2, <2>4 DEF LockInv, Working, Alone
  <2>8. QED BY <2>5, <2>6, <2>7 DEF LockInv
<1>3. CASE ProbeLock(s)
  <2>1. /\ pc[s] = "stopped" /\ iface = None /\ pc' = [pc EXCEPT ![s] = "ready"]
        /\ UNCHANGED <<at, lender, helper, lease, shared, iface>>
    BY <1>3 DEF ProbeLock, lockVars
  <2>2. \A t \in Setups : pc'[t] = IF t = s THEN "ready" ELSE pc[t]
    BY <2>1
  <2>3. Leased' /\ Sharing' /\ LeaseAdoptable' /\ Waited' /\ OneCall'
    BY <2>1, <2>2 DEF LockInv, Leased, Sharing, LeaseAdoptable, Waited, OneCall
  <2>4. \A q \in Runtimes : ~Works(q)'
    BY <2>1 DEF LockInv, Working, Works
  <2>5. QED BY <2>3, <2>4 DEF LockInv, Working, Alone
<1>4. CASE BeginProof(s) \/ Accept(s) \/ Reject(s) \/ EnableTimer(s)
  <2>1. UNCHANGED <<pc, at, lender, helper, lease, shared, iface>>
    BY <1>4 DEF BeginProof, Accept, Reject, EnableTimer, setupVars, lockVars
  <2>2. QED BY <2>1 DEF LockInv, Leased, Sharing, LeaseAdoptable, Waited, OneCall, Working, Works, Alone
<1>5. CASE Finish(s) \/ KillSetup(s)
  <2>1. /\ pc[s] # "off" /\ pc' = [pc EXCEPT ![s] = "off"]
        /\ UNCHANGED <<at, lender, helper, shared, iface>>
    BY <1>5 DEF Finish, KillSetup
  <2>2. /\ lease = s
        /\ \A t \in Setups : pc'[t] = "off" /\ (pc[t] # "off" => t = s)
    BY <2>1 DEF LockInv, Leased
  <2>3. \/ lease' = None /\ \A q \in Runtimes : at[q] # "off" => lender[q] # s
        \/ lease' = lease
    <3>1. CASE Finish(s)
      BY <3>1 DEF Finish, LockInv, Waited
    <3>2. CASE KillSetup(s)
      BY <2>1, <3>2 DEF KillSetup, LeaseOpen, Alive
    <3>3. QED BY <1>5, <3>1, <3>2
  <2>4. Leased' /\ Sharing' /\ LeaseAdoptable'
    BY <2>1, <2>2, <2>3 DEF LockInv, Leased, Sharing, LeaseAdoptable
  <2>5. Waited' /\ OneCall'
    BY <2>1, <2>2 DEF LockInv, Waited, OneCall
  <2>6. Working' /\ Alone'
    BY <2>1, <2>2 DEF LockInv, Working, Works, Alone
  <2>7. QED BY <2>4, <2>5, <2>6 DEF LockInv
<1>6. ASSUME NEW r \in Runtimes, Call(s, r) PROVE LockInv'
  BY <1>6, BeginStep DEF Call
<1>7. QED BY <1>1, <1>2, <1>3, <1>4, <1>5, <1>6 DEF Setup

\* The locks keep their meaning.
LEMMA LockStep == TypeOK /\ LockInv /\ [Next]_vars => LockInv'
<1> SUFFICES ASSUME TypeOK, LockInv, [Next]_vars PROVE LockInv'
  OBVIOUS
<1>1. CASE UNCHANGED vars
  BY <1>1 DEF vars, setupVars, lockVars, LockInv, Leased, Sharing, LeaseAdoptable, Waited, OneCall,
     Working, Works, Alone
<1>2. CASE StartByTimer
  BY <1>2, LeaseAssumption, BeginStep DEF StartByTimer, setupVars
<1>3. ASSUME NEW r \in Runtimes, StartByHand(r) PROVE LockInv'
  BY <1>3, BeginStep DEF StartByHand, setupVars
<1>4. QED BY <1>1, <1>2, <1>3, RuntimeStep, SetupStep DEF Next

\* A command that is gone leaves the proof as it is.
LEMMA GoneProving ==
  ASSUME TypeOK, Proving, NEW r \in Runtimes, NEW result \in {"ok", "failed"}, Gone(r, result)
  PROVE  Proving'
<1>1. /\ UNCHANGED <<proof, status>> /\ since' = since \ {r}
      /\ at' = [at EXCEPT ![r] = "off"]
      /\ \A s \in Setups : answer'[s] \in {answer[s], result}
  BY DEF Gone, Answers
<1>2. ProofSound'
  BY <1>1 DEF Proving, ProofSound
<1>3. QED BY <1>1, <1>2 DEF TypeOK, Proving

\* A new status file is of a command that set to work since the proof start.
LEMMA ProvingStep == IInv /\ [Next]_vars => Proving'
<1> SUFFICES ASSUME IInv, [Next]_vars PROVE Proving'
  OBVIOUS
<1> USE LeaseAssumption DEF IInv, TypeOK
<1>1. CASE UNCHANGED vars
  BY <1>1 DEF vars, setupVars, proofVars, Proving, ProofSound
<1>2. ASSUME NEW r \in Runtimes, NEW s \in Setups \cup {None}, Begin(r, s), UNCHANGED answer
      PROVE Proving'
  BY <1>2 DEF Begin, proofVars, Proving, ProofSound
<1>3. ASSUME NEW r \in Runtimes, Runtime(r) PROVE Proving'
  <2>1. CASE \E result \in {"ok", "failed"} : Gone(r, result)
    BY <2>1, GoneProving
  <2>2. CASE TakeGuard(r) /\ ~Gone(r, "failed")
    <3>1. at' = [at EXCEPT ![r] = "guarded"] /\ UNCHANGED <<answer, proof, status, since>>
      BY <2>2 DEF TakeGuard, setupVars, proofVars
    <3>2. QED BY <3>1 DEF Proving, ProofSound
  <2>3. CASE TakeInterface(r) /\ ~Gone(r, "failed")
    <3>1. at' = [at EXCEPT ![r] = "working"] /\ since' = since \cup {r}
          /\ UNCHANGED <<answer, proof, status>>
      BY <2>3 DEF TakeInterface, setupVars
    <3>2. QED BY <3>1 DEF Proving, ProofSound
  <2>4. CASE StartHelper(r) \/ HelperEnds(r)
    BY <2>4 DEF StartHelper, HelperEnds, setupVars, proofVars, Proving, ProofSound
  <2>5. CASE WriteStatus(r)
    <3>1. /\ at[r] = "working" /\ status'.since = (r \in since)
          /\ proof' = IF proof = "same" THEN "new" ELSE proof
          /\ UNCHANGED <<answer, at, since>>
      BY <2>5 DEF WriteStatus, setupVars
    <3>2. proof' = "new" => r \in since
      BY <3>1 DEF Proving
    <3>3. QED BY <3>1, <3>2 DEF Proving, ProofSound
  <2>6. CASE Exit(r) \/ Kill(r)
    BY <2>1, <2>6 DEF Exit, Kill
  <2>7. QED BY <1>3, <2>1, <2>2, <2>3, <2>4, <2>5, <2>6 DEF Runtime
<1>4. ASSUME NEW s \in Setups, Setup(s) PROVE Proving'
  <2>1. CASE TakeLease(s) \/ StopUnits(s) \/ ProbeLock(s) \/ Finish(s) \/ KillSetup(s)
    <3>1. /\ UNCHANGED <<proof, status>>
          /\ \A t \in Setups : answer'[t] \in {answer[t], "recovering", "none"}
          /\ \/ UNCHANGED <<at, since>>
             \/ at' = [at EXCEPT ![Unit] = "off"] /\ since' = since \ {Unit}
      BY <2>1 DEF TakeLease, StopUnits, ProbeLock, Finish, KillSetup, lockVars, proofVars
    <3>2. QED BY <3>1 DEF Proving, ProofSound
  <2>2. CASE BeginProof(s)
    <3>1. \A r \in Runtimes : at[r] # "working"
      BY <2>2 DEF BeginProof, LockInv, Alone, Works, Waited
    <3>2. proof' = "same" /\ UNCHANGED at /\ answer' = [answer EXCEPT ![s] = "none"]
      BY <2>2 DEF BeginProof
    <3>3. QED BY <3>1, <3>2 DEF Proving, ProofSound
  <2>3. CASE Accept(s)
    <3>1. /\ status.since /\ proof' = "none" /\ UNCHANGED <<at, since, status>>
          /\ answer' = [answer EXCEPT ![s] = "verified"]
      BY <2>3 DEF Accept, Proving
    <3>2. QED BY <3>1 DEF Proving, ProofSound
  <2>4. CASE Reject(s) \/ EnableTimer(s)
    BY <2>4 DEF Reject, EnableTimer, setupVars, proofVars, Proving, ProofSound
  <2>5. ASSUME NEW r \in Runtimes, Call(s, r) PROVE Proving'
    BY <1>2, <2>5 DEF Call
  <2>6. QED BY <1>4, <2>1, <2>2, <2>3, <2>4, <2>5 DEF Setup
<1>5. QED BY <1>1, <1>2, <1>3, <1>4 DEF Next, StartByTimer, StartByHand, setupVars

\* The invariant is inductive.
THEOREM Invariance == Spec => []IInv
<1>1. IInv /\ [Next]_vars => IInv'
  BY TypeStep, LockStep, ProvingStep DEF IInv, LockInv
<1>2. QED BY InitInv, <1>1, PTL DEF Spec

\* Every variable always has a value of its type.
THEOREM TypeCorrect == Spec => []TypeOK
<1>1. IInv => TypeOK
  BY DEF IInv
<1>2. QED BY Invariance, <1>1, PTL

\* A setup that runs has the guard, and while it is held no command but those
\* it was lent to is past it (exclusive_setup_lease, acquire_runtime_guard).
THEOREM GuardExcludes == Spec => []LeaseExcludes
<1>1. IInv => LeaseExcludes
  BY LeaseAssumption DEF IInv, LockInv, TypeOK, Leased, Sharing, LeaseAdoptable, LeaseExcludes
<1>2. QED BY Invariance, <1>1, PTL

\* Never two commands, or a command and the helper of one that was killed, work
\* on the interface (acquire_command_lock).
THEOREM SingleWorker == Spec => []OneAtWork
<1>1. IInv => OneAtWork
  BY LeaseAssumption DEF IInv, LockInv, Working, Works, OneAtWork
<1>2. QED BY Invariance, <1>1, PTL

\* What works on the interface during a transaction of a setup was called by
\* it (probe_runtime_lock after stop_units).
THEOREM NothingLeft == Spec => []TransactionAlone
<1>1. IInv => TransactionAlone
  BY DEF IInv, LockInv, Alone, Works, TransactionAlone
<1>2. QED BY Invariance, <1>1, PTL

\* A called command finds the lease it inherited locked, whatever became of
\* the setup (acquire_runtime_guard).
THEOREM CalledAdopts == Spec => []LeaseAdoptable
<1>1. IInv => LeaseAdoptable
  BY DEF IInv, LockInv
<1>2. QED BY Invariance, <1>1, PTL

\* No setup is finalized on the success of a check from before its proof
\* start (verify_health).
THEOREM HealthProved == Spec => []ProofSound
<1>1. IInv => ProofSound
  BY DEF IInv, Proving
<1>2. QED BY Invariance, <1>1, PTL
=============================================================================
