------------------------- MODULE SetupProposal_proof -------------------------
(***************************************************************************)
(* Theorem about SetupApply: the key foreseen before recovery is the key   *)
(* the request needs after it (api_requires_proposed_credential and        *)
(* _recover_setup_transaction).                                            *)
(*                                                                         *)
(* Between the question and the answer lies a whole recovery, which may    *)
(* roll back or commit what it finds.  The invariant follows an API        *)
(* request that was asked for no key: what recovery would make of the      *)
(* present directory has the API source and its key, and stays the same    *)
(* at every step recovery takes, until it keeps a restoration whose record *)
(* says activating: the exception of the property, which the record in     *)
(* memory shows to the end (Kept).  It rests on SInv of SetupSound_proof.  *)
(***************************************************************************)
EXTENDS SetupSound_proof

Recovers == {"none", "recovery", "rollback"}

\* The operator was asked for no key, and recovery has not returned.
Unasked(p, r) ==
  /\ p \notin {"validate", "ready"} /\ r.caller \in Recovers
  /\ r.request # None /\ r.request.mode = "api" /\ r.supplied = None

\* What recovery makes of the directory is in API mode with its key; an open
\* record it may still commit is one that was in API mode before.
KeyAhead(d) ==
  /\ Recovered(d).source = "api" /\ Recovered(d).key # None
  /\ Open(d) => \/ d.journal.operation = "api-update"
                \/ d.journal.phase \notin {"activated", "verifying"}

\* Recovery removes the record of a restoration it keeps, cut in phase activating.
Kept(p, r) == p \in CleanSteps /\ r.journal.phase = "activating"

\* Otherwise it removes none that is open.
PInv ==
  Unasked(pc, run) =>
    /\ ~run.request.replace
    /\ Kept(pc, run) \/ (KeyAhead(Disk) /\ (pc \in CleanSteps => ~Open(Disk)))

\* Where a step of recovery has no part in removing the record.
Later == {"validate", "ready"} \cup CleanSteps

\* What recovery makes of a directory, by the state of its record.
LEMMA RecoveredParts ==
  ASSUME NEW d \in Directory
  PROVE  /\ Open(d) => Recovered(d).source = Former(d).source /\ Recovered(d).key = FormerKey(d)
         /\ ~Open(d) => Recovered(d).source = d.config.source /\ Recovered(d).key = d.credential
<1>1. CASE d.journal = None
  BY <1>1 DEF Recovered, Open, Triple
<1>2. CASE d.journal # None /\ d.journal.phase \in ClosedPhases
  BY <1>2 DEF Recovered, Open, Triple
<1>3. CASE Open(d)
  <2>1. d.journal \in Journal
    BY <1>3 DEF Open, Directory
  <2>2. d.journal.keyChanged \in BOOLEAN /\ d.journal.hadKey \in BOOLEAN
    BY <2>1, JournalRecords
  <2>3. d.journal # None /\ d.journal.phase \notin ClosedPhases
    BY <1>3 DEF Open
  <2>4. CASE ~d.journal.keyChanged
    BY <1>3, <2>3, <2>4 DEF Recovered, Former, FormerKey
  <2>5. CASE d.journal.keyChanged /\ ~d.journal.hadKey
    BY <1>3, <2>3, <2>5 DEF Recovered, Former, FormerKey
  <2>6. CASE d.journal.keyChanged /\ d.journal.hadKey
    BY <1>3, <2>3, <2>6 DEF Recovered, Former, FormerKey
  <2>7. QED
    BY <2>2, <2>4, <2>5, <2>6
<1>4. QED
  BY <1>1, <1>2, <1>3 DEF Open

\* Two directories recovery makes the same of.
LEMMA AheadAlike ==
  ASSUME NEW d \in Directory, NEW e \in Directory, KeyAhead(d),
         e.journal = d.journal,
         Open(d) => Former(e).source = Former(d).source /\ FormerKey(e) = FormerKey(d),
         ~Open(d) => e.config.source = d.config.source /\ e.credential = d.credential
  PROVE  KeyAhead(e)
<1>1. Open(e) = Open(d)
  BY DEF Open
<1>2. QED
  BY <1>1, RecoveredParts DEF KeyAhead

\* A directory in API mode with its key, and no open record.
LEMMA AheadClosed ==
  ASSUME NEW d \in Directory, ~Open(d), d.config.source = "api", d.credential # None
  PROVE  KeyAhead(d)
BY RecoveredParts DEF KeyAhead

(* --------------------- the invariant, step by step ---------------------- *)

\* An invocation that has ended was asked for nothing,
LEMMA IdleProposed == ASSUME run' = NoRun PROVE PInv'
BY DEF PInv, Unasked, NoRun

\* and one that has begun to apply its request has used the answer.
LEMMA LateProposed == ASSUME pc' \in {"validate", "ready"} \/ run'.caller \notin Recovers PROVE PInv'
BY DEF PInv, Unasked

\* A step of recovery that keeps what recovery makes of the directory.
LEMMA KeptProposed ==
  ASSUME PInv, pc \notin Later, pc' \notin CleanSteps, run.caller \in Recovers,
         run'.request = run.request, run'.supplied = run.supplied,
         Unasked(pc, run) /\ KeyAhead(Disk) => KeyAhead(Disk')
  PROVE  PInv'
BY DEF PInv, Unasked, Kept, Later

\* The same for a step that writes nothing.
LEMMA StillProposed ==
  ASSUME PInv, pc \notin Later, pc' \notin CleanSteps, run.caller \in Recovers, images' = images,
         run'.request = run.request, run'.supplied = run.supplied
  PROVE  PInv'
<1>1. Disk' = Disk
  BY DEF Disk
<1>2. QED
  BY <1>1, KeptProposed

\* An error and a kill end the recovery,
LEMMA RaiseProposed == ASSUME NEW self \in RunType, Raise(self) PROVE PInv'
<1>1. self.caller \in Callers
  BY DEF RunType
<1>2. [self EXCEPT !.caller = "keep"].caller = "keep"
      /\ [self EXCEPT !.caller = "undo"].caller = "undo"
  BY DEF RunType
<1>3. run' = NoRun \/ run'.caller \in {"keep", "undo"}
  BY <1>1, <1>2, RaiseLands
<1>4. QED
  BY <1>3, IdleProposed, LateProposed DEF Recovers

\* and so does a call of the store that is not completed.
LEMMA NotDoneProposed ==
  ASSUME NEW self \in RunType, NEW leaves, NotDone(self, leaves)
  PROVE  PInv'
<1>1. CASE Raise(self)
  BY <1>1, RaiseProposed
<1>2. CASE run' = NoRun
  BY <1>2, IdleProposed
<1>3. QED
  BY <1>1, <1>2 DEF NotDone, Fails, Cuts, Refuses, End

\* A restoration that fails keeps the key ahead.
LEMMA RestoreFailsProposed ==
  ASSUME run \in RunType, NEW backup, NEW target, RestoreFails(backup, target)
  PROVE  PInv'
<1>1. CASE Raise(run)
  BY <1>1, RaiseProposed
<1>2. CASE \E leaves : NotDone(run, leaves)
  BY <1>2, NotDoneProposed
<1>3. QED
  BY <1>1, <1>2 DEF RestoreFails

\* A command that is cut ends the invocation.
LEMMA CallsProposed ==
  ASSUME NEW results, NEW ACTION Done, NEW ACTION Failed, Calls(results, Done, Failed),
         Done => PInv', Failed => PInv'
  PROVE  PInv'
<1>1. ASSUME NEW r, CallCut(r) PROVE PInv'
  BY <1>1, IdleProposed DEF CallCut, End
<1>2. QED
  BY <1>1 DEF Calls

\* The state foreseen of a closed record, and of one that is going to be rolled back.
LEMMA ClosedState ==
  ASSUME NEW d, d.journal.phase \in ClosedPhases
  PROVE  /\ StateAfterRecovery(d).source = d.config.source
         /\ StateAfterRecovery(d).present <=> d.credential # None
<1>1. CASE d.credential = None
  BY <1>1 DEF StateAfterRecovery, ClosedPhases
<1>2. CASE d.credential # None
  BY <1>2 DEF StateAfterRecovery, ClosedPhases
<1>3. QED
  BY <1>1, <1>2

\* What the command line foresees of a record that can only be rolled back.
LEMMA RolledState ==
  ASSUME NEW d, d.journal.phase \notin ClosedPhases,
         d.journal.phase \notin {"activated", "verifying"}, StateAfterRecovery(d) # None
  PROVE  /\ StateAfterRecovery(d).source = Former(d).source
         /\ StateAfterRecovery(d).present = d.journal.hadKey
<1>1. CASE d.configPrevious # None
  BY <1>1 DEF StateAfterRecovery, Former
<1>2. CASE d.configPrevious = None
  BY <1>2 DEF StateAfterRecovery, Former
<1>3. QED
  BY <1>1, <1>2

\* Before the units are stopped: the question, and the invocation it starts.
LEMMA AskProposed ==
  ASSUME SInv, NEW r \in Requests, Ask(r)
  PROVE  PInv'
<1>1. images' = images /\ Disk' = Disk
  BY DEF Ask, Disk
<1>2. r \in Request /\ r.key \in Keys /\ r.key # None /\ r.mode \in {"api", "static"}
  BY ApplyAssumption, NoneApart DEF Request
<1>3. CASE End("inadmissible") \/ End("refused")
  BY <1>3, IdleProposed DEF End
<1>4. CASE /\ ~(r.mode = "api" /\ ProposalRefused(Disk, r))
           /\ run' = [NoRun EXCEPT !.request = r,
                        !.supplied = IF r.mode = "api" /\ RequiresProposal(Disk, r)
                                       THEN r.key ELSE None]
  <2>1. run'.request = r
        /\ run'.supplied = IF r.mode = "api" /\ RequiresProposal(Disk, r) THEN r.key ELSE None
    BY <1>4 DEF NoRun
  <2>2. SUFFICES ASSUME Unasked(pc', run')
                 PROVE  ~r.replace /\ KeyAhead(Disk)
    BY <1>1, <1>4, <2>1 DEF PInv, CleanSteps, Ask
  <2>3. r.mode = "api" /\ ~RequiresProposal(Disk, r) /\ ~ProposalRefused(Disk, r)
    BY <1>2, <1>4, <2>1, <2>2 DEF Unasked
  <2>4. /\ ~r.replace /\ CredentialState(Disk) # None
        /\ CredentialState(Disk).present /\ CredentialState(Disk).source = "api"
    BY <2>3 DEF RequiresProposal, ProposalRefused
  <2>6. Worth(Disk, wg, txn.kept) /\ Disk \in Directory
    BY HostFacts
  <2>7. CASE ~Open(Disk)
    <3>1. Disk.journal # None => Disk.journal.phase \in ClosedPhases
      BY <2>7 DEF Open
    <3>2. /\ CredentialState(Disk).source = Disk.config.source
          /\ CredentialState(Disk).present <=> Disk.credential # None
      <4>1. CASE Disk.journal = None
        BY <4>1 DEF CredentialState
      <4>2. CASE Disk.journal # None
        BY <3>1, <4>2, ClosedState DEF CredentialState
      <4>3. QED
        BY <4>1, <4>2
    <3>3. Disk.config.source = "api" /\ Disk.credential # None
      BY <2>4, <3>2
    <3>4. QED
      BY <2>4, <2>6, <2>7, <3>3, AheadClosed
  <2>8. CASE Open(Disk)
    <3>1. /\ Disk.journal # None /\ Disk.journal.phase \notin ClosedPhases
          /\ OpenWorth(Disk, wg) /\ CredentialState(Disk) = StateAfterRecovery(Disk)
      BY <2>6, <2>8 DEF Open, Worth, CredentialState
    <3>2. CASE Disk.journal.phase \in {"activated", "verifying"}
      <4>1. CredentialState(Disk) =
              [source |-> IF Disk.journal.operation = "api-update" THEN "api" ELSE "static",
               present |-> Disk.journal.hadKey]
        BY <3>1, <3>2 DEF StateAfterRecovery
      <4>2. Disk.journal.operation = "api-update" /\ Disk.journal.hadKey
        BY <2>4, <4>1
      <4>3. Former(Disk).source = "api" /\ FormerKey(Disk) # None
        BY <2>6, <3>1, <4>2 DEF Worth, OpenWorth, Former
      <4>4. QED
        BY <2>4, <2>6, <2>8, <4>2, <4>3, RecoveredParts DEF KeyAhead
    <3>3. CASE Disk.journal.phase \notin {"activated", "verifying"}
      <4>1. /\ CredentialState(Disk).source = Former(Disk).source
            /\ CredentialState(Disk).present = Disk.journal.hadKey
        BY <2>4, <3>1, <3>3, RolledState
      <4>2. Former(Disk).source = "api" /\ FormerKey(Disk) # None
        BY <2>4, <3>1, <4>1 DEF OpenWorth
      <4>3. QED
        BY <2>4, <2>6, <2>8, <3>1, <3>3, <4>2, RecoveredParts DEF KeyAhead
    <3>4. QED
      BY <3>2, <3>3
  <2>9. QED
    BY <2>7, <2>8
<1>5. QED
  BY <1>3, <1>4 DEF Ask

\* Between two invocations the key ahead stays.
LEMMA BetweenProposed ==
  ASSUME SInv, PInv,
         Preview \/ Check \/ PowerLoss \/ Enter \/ StopUnits \/ (\E r \in Requests : Ask(r))
  PROVE  PInv'
<1>1. run \in RunType
  BY HostFacts, RunFacts
<1>2. CASE Preview \/ Check
  <2>1. images' = images /\ run' = run /\ pc \in {"idle", "enter"} /\ pc' = pc
          /\ pc \notin Later
    BY <1>2 DEF Preview, Check, Later, CleanSteps
  <2>2. run.caller \in Recovers
    BY <2>1 DEF SInv, TInv, Control, CallerAt, NoRun, Recovers
  <2>3. QED
    BY <2>1, <2>2, StillProposed DEF Later
<1>3. CASE PowerLoss
  BY <1>3, IdleProposed DEF PowerLoss, End
<1>4. CASE Enter \/ StopUnits
  <2>1. pc \in {"enter", "stop"} /\ pc \notin Later
    BY <1>4 DEF Enter, StopUnits, Later, CleanSteps
  <2>2. run.caller \in Recovers
    BY <2>1 DEF SInv, TInv, Control, CallerAt, Recovers
  <2>3. \/ run' = NoRun
        \/ /\ images' = images /\ pc' \notin CleanSteps
           /\ run' \in {run, [run EXCEPT !.recovering = (Disk.journal # None)]}
    BY <1>4 DEF Enter, StopUnits, End, Go, Killed, CleanSteps
  <2>4. [run EXCEPT !.recovering = (Disk.journal # None)].request = run.request
        /\ [run EXCEPT !.recovering = (Disk.journal # None)].supplied = run.supplied
    BY <1>1 DEF RunType
  <2>5. QED
    BY <2>1, <2>2, <2>3, <2>4, IdleProposed, StillProposed
<1>5. QED
  BY <1>2, <1>3, <1>4, AskProposed

(* ----------------------------- recovery --------------------------------- *)

\* Discard keeps the key ahead.
LEMMA DiscardProposed ==
  ASSUME SInv, PInv, DiscardStaging
  PROVE  PInv'
<1> DEFINE after == [Disk EXCEPT !.staging = @ \ PrivateTargets]
<1>1. /\ pc = "discard" /\ pc \notin Later /\ run.caller \in Recovers /\ run \in RunType
      /\ Disk \in Directory
  BY HostFacts, RunFacts DEF DiscardStaging, SInv, TInv, Control, CallerAt, Recovers, Later,
     CleanSteps
<1>2. /\ after \in Directory /\ after.journal = Disk.journal /\ after.config = Disk.config
      /\ after.credential = Disk.credential /\ after.configPrevious = Disk.configPrevious
      /\ after.credentialPrevious = Disk.credentialPrevious
  BY <1>1 DEF Directory
<1> DEFINE mine == [run EXCEPT !.caller = "recovery", !.journal = Disk.journal]
<1>3. mine.request = run.request /\ mine.supplied = run.supplied
  BY <1>1 DEF RunType
<1>4. \/ /\ Completed(after) \/ (after = Disk /\ UNCHANGED <<images, status, faults>>)
         /\ run' = NoRun \/ (run' \in {run, mine} /\ pc' \in {"reconcile", "ready"})
      \/ \E leaves : NotDone(run, leaves)
  BY HostFacts, DiscardLands DEF End
<1> HIDE DEF after, mine
<1>5. CASE \E leaves : NotDone(run, leaves)
  BY <1>1, <1>5, NotDoneProposed
<1>6. CASE /\ Completed(after) \/ (after = Disk /\ UNCHANGED <<images, status, faults>>)
           /\ run' \in {run, mine} /\ pc' \in {"reconcile", "ready"}
  <2>1. Disk' = after
    BY <1>2, <1>6, OneImage DEF Completed, Disk
  <2>2. KeyAhead(Disk) => KeyAhead(after)
    BY <1>1, <1>2, AheadAlike DEF Former, FormerKey
  <2>3. QED
    BY <1>1, <1>3, <1>6, <2>1, <2>2, KeptProposed DEF CleanSteps
<1>7. QED
  BY <1>4, <1>5, <1>6, IdleProposed

\* A check or a clean-up of the runtime leaves the directory as it is.
LEMMA CallStill ==
  ASSUME SInv, NEW r \in ResultType, r.source = Disk.config.source, CallEnds(r)
  PROVE  images' = images
BY SourceKept

\* Reconcile keeps the key ahead.
LEMMA ReconcileProposed ==
  ASSUME SInv, PInv, Reconcile \/ CleanupCandidate
  PROVE  PInv'
<1>1. /\ pc \in {"reconcile", "unstage"} /\ pc \notin Later /\ run \in RunType
      /\ run.caller \in {"recovery", "rollback", "undo"} /\ Typed
  BY HostFacts, RunFacts DEF Reconcile, CleanupCandidate, SInv, TInv, Control, CallerAt, Later,
     CleanSteps
<1>2. CASE run' = run /\ images' = images /\ pc' \in {"unstage", "classify", "unadopt"}
  BY <1>1, <1>2, StillProposed, LateProposed DEF Recovers, CleanSteps
<1>3. \A r \in CheckResults \cup CandidateResults : r \in ResultType /\ r.source = Disk.config.source
  <2>1. \A r \in CheckResults : r \in ResultType /\ r.source = Disk.config.source
    BY <1>1, CheckTypes
  <2>2. \A r \in CandidateResults : r \in ResultType /\ r.source = Disk.config.source
    <3>1. CandidateResults \subseteq ResultType
      BY <1>1, CandidateTypes
    <3>2. ASSUME NEW r \in Failures({wg, [wg EXCEPT !.candidate = FALSE]}, {Disk.config.source})
          PROVE  r.source = Disk.config.source
      BY <3>2, FailureParts
    <3>3. Result([wg EXCEPT !.candidate = FALSE], Disk.config.source, status, TRUE, FALSE).source
            = Disk.config.source
      BY DEF Result
    <3>4. QED
      BY <3>1, <3>2, <3>3 DEF CandidateResults
  <2>3. QED
    BY <2>1, <2>2
<1>4. ASSUME NEW next \in {"unstage", "classify", "unadopt"}, NEW results \in SUBSET (CheckResults \cup CandidateResults),
             Calls(results, Go(next, run), Raise(run))
      PROVE  PInv'
  <2>1. PICK r \in results : \/ CallEnds(r) /\ (IF r.ok THEN Go(next, run) ELSE Raise(run))
                             \/ CallCut(r)
    BY <1>4 DEF Calls
  <2>2. CASE CallEnds(r) /\ Go(next, run)
    BY <1>2, <1>3, <2>2, CallStill DEF Go
  <2>3. CASE Raise(run)
    BY <1>1, <2>3, RaiseProposed
  <2>4. CASE CallCut(r)
    BY <2>4, IdleProposed DEF CallCut, End
  <2>5. QED
    BY <2>1, <2>2, <2>3, <2>4
<1>5. CASE Reconcile
  BY <1>2, <1>4, <1>5, HostFacts, ReconcileLands DEF Go
<1>6. CASE CleanupCandidate
  <2> DEFINE next == IF run.caller = "recovery" THEN "classify" ELSE "unadopt"
  <2>1. \/ UNCHANGED images /\ Go(next, run)
        \/ Calls(CandidateResults, Go(next, run), Raise(run))
    BY <1>6, HostFacts, CleanupCandidateLands
  <2>2. /\ CandidateResults \in SUBSET (CheckResults \cup CandidateResults)
        /\ next \in {"unstage", "classify", "unadopt"}
    OBVIOUS
  <2> HIDE DEF next
  <2>3. QED
    BY <1>2, <1>4, <2>1, <2>2 DEF Go
<1>7. QED
  BY <1>5, <1>6

\* The record of a restoration is one of phase activating, if the key is ahead.
LEMMA UnderwayAhead ==
  ASSUME NEW d \in Directory, Underway(d), KeyAhead(d)
  PROVE  d.journal.phase = "activating"
<1>1. /\ Open(d) /\ d.journal.operation = "static-restore" /\ d.journal.phase # "prepared"
      /\ d.journal.phase \notin ClosedPhases /\ d.journal \in Journal
  BY DEF Underway, Open, Directory
<1>2. d.journal.phase \in OperationPhases("static-restore")
  BY <1>1, JournalRecords DEF ValidateSemantics
<1>3. d.journal.phase \in {"activating", "activated", "verifying"}
  BY <1>1, <1>2 DEF OperationPhases, ProofPhases, ClosedPhases, ApiOperations
<1>4. QED
  BY <1>1, <1>3 DEF KeyAhead

\* Classify keeps the key ahead, or the restoration that is visible.
LEMMA ClassifyProposed ==
  ASSUME SInv, PInv, Classify
  PROVE  PInv'
<1>1. /\ pc = "classify" /\ run.caller = "recovery" /\ run \in RunType /\ run.journal = Disk.journal
      /\ Disk.journal # None /\ pc \notin Later /\ Disk \in Directory
  BY ClassifyingFacts, HostFacts DEF Classify, Later, CleanSteps
<1>2. [run EXCEPT !.caller = "rollback"].request = run.request
      /\ [run EXCEPT !.caller = "rollback"].supplied = run.supplied
  BY <1>1 DEF RunType
<1>3. images' = images /\ Disk' = Disk
  BY ClassifyLands DEF Disk
<1>4. CASE /\ run.journal.phase \in ClosedPhases \/ Underway(Disk)
           /\ pc' = "cleanConfig" /\ run' = run
  <2>1. SUFFICES ASSUME Unasked(pc', run')
                 PROVE  ~run.request.replace /\ (Kept(pc', run) \/ (KeyAhead(Disk) /\ ~Open(Disk)))
    BY <1>3, <1>4 DEF PInv
  <2>2. ~run.request.replace /\ KeyAhead(Disk)
    BY <1>1, <1>4, <2>1 DEF PInv, Unasked, Kept, CleanSteps
  <2>3. CASE Underway(Disk)
    BY <1>1, <1>4, <2>2, <2>3, UnderwayAhead DEF Kept, CleanSteps
  <2>4. CASE run.journal.phase \in ClosedPhases
    BY <1>1, <2>2, <2>4 DEF Open
  <2>5. QED
    BY <1>4, <2>3, <2>4
<1>5. CASE pc' \in {"markVerified", "beginProof"} /\ run' = run
  BY <1>1, <1>3, <1>5, StillProposed DEF Recovers, CleanSteps
<1>6. CASE pc' = UndoStep(run) /\ run' = [run EXCEPT !.caller = "rollback"]
  BY <1>1, <1>2, <1>3, <1>6, StillProposed DEF Recovers, CleanSteps, UndoStep
<1>7. QED
  BY <1>4, <1>5, <1>6, ClassifyLands

(* ----------------------- rollback and clean-up -------------------------- *)

\* A step that keeps the record in memory, and what recovery makes of the directory.
LEMMA RunProposed ==
  ASSUME PInv, pc \notin Later, pc' \notin CleanSteps, run' = run,
         Unasked(pc, run) /\ KeyAhead(Disk) => KeyAhead(Disk')
  PROVE  PInv'
BY KeptProposed, LateProposed

\* A completed call leaves the directory it says.
LEMMA CompletedDisk ==
  ASSUME NEW d \in Directory, Completed(d)
  PROVE  Disk' = d
BY OneImage DEF Completed

\* Unadopt keeps the key ahead.
LEMMA UnadoptProposed ==
  ASSUME SInv, PInv, Unadopt
  PROVE  PInv'
<1>1. pc = "unadopt" /\ pc \notin Later /\ run \in RunType /\ Disk \in Directory
  BY HostFacts, RunFacts DEF Unadopt, Later, CleanSteps
<1>2. Rolling(pc, run)
  BY <1>1 DEF Rolling, RollbackSteps
<1>3. CASE run' = run /\ images' = images /\ pc' = "restoreConfig"
  <2>1. Disk' = Disk
    BY <1>3 DEF Disk
  <2>2. QED
    BY <1>1, <1>3, <2>1, RunProposed DEF CleanSteps
<1>4. CASE /\ UndoesAdoption(run.journal)
           /\ Calls(UnadoptResults, Go("restoreConfig", run), Raise(run))
  <2>1. Open(Disk) /\ Disk.journal.operation = "adopt"
    BY <1>2, <1>4, RollingFacts, RecordsAgree DEF UndoesAdoption
  <2>2. Former(Disk).source = "static"
    BY <2>1, HostFacts DEF Worth, OpenWorth
  <2>3. ~KeyAhead(Disk)
    BY <1>1, <2>1, <2>2, RecoveredParts DEF KeyAhead
  <2>4. Go("restoreConfig", run) => PInv'
    BY <1>1, <2>3, RunProposed DEF Go, CleanSteps
  <2>5. Raise(run) => PInv'
    BY <1>1, RaiseProposed
  <2>6. QED
    BY <1>4, <2>4, <2>5, CallsProposed
<1>5. QED
  BY <1>3, <1>4, HostFacts, UnadoptLands DEF Go

\* RestoreConfig keeps the key ahead.
LEMMA RestoreConfigProposed ==
  ASSUME SInv, PInv, RestoreConfig
  PROVE  PInv'
<1>1. pc = "restoreConfig" /\ pc \notin Later /\ run \in RunType /\ Disk \in Directory /\ TInv
  BY HostFacts, RunFacts DEF RestoreConfig, Later, CleanSteps
<1> DEFINE onward == pc' \in {"restoreKey", "markRolledBack"} /\ run' = run
<1>2. CASE onward /\ images' = images
  <2>1. Disk' = Disk
    BY <1>2 DEF Disk
  <2>2. QED
    BY <1>1, <1>2, <2>1, RunProposed DEF CleanSteps
<1>3. CASE RestoresWith("configPrevious", "config") /\ onward
  <2> DEFINE e == Restored(Disk, "configPrevious", "config")
  <2>1. Disk.configPrevious # None /\ Completed(e)
    BY <1>3 DEF RestoresWith
  <2>2. e \in Directory
    BY <1>1, <2>1, RestoreTypes
  <2>3. /\ e.journal = Disk.journal /\ e.config = Disk.configPrevious
        /\ e.configPrevious = Disk.configPrevious /\ e.credential = Disk.credential
        /\ e.credentialPrevious = Disk.credentialPrevious
    BY <1>1, <2>2 DEF Restored, Written, Unstaged, Directory
  <2> HIDE DEF e
  <2>4. Open(Disk)
    BY <1>1, RollingFacts DEF Rolling, RollbackSteps
  <2>5. Former(e) = Former(Disk) /\ FormerKey(e) = FormerKey(Disk)
    BY <2>1, <2>3 DEF Former, FormerKey
  <2>6. KeyAhead(Disk) => KeyAhead(e)
    BY <1>1, <2>2, <2>3, <2>4, <2>5, AheadAlike
  <2>7. QED
    BY <1>1, <1>3, <2>1, <2>2, <2>6, CompletedDisk, RunProposed DEF CleanSteps
<1>4. CASE RestoreFails("configPrevious", "config")
  BY <1>1, <1>4, RestoreFailsProposed
<1>5. CASE End("stuck")
  BY <1>5, IdleProposed DEF End
<1>6. QED
  BY <1>1, <1>2, <1>3, <1>4, <1>5, RestoreConfigLands

\* RestoreKey keeps the key ahead.
LEMMA RestoreKeyProposed ==
  ASSUME SInv, PInv, RestoreKey
  PROVE  PInv'
<1>1. pc = "restoreKey" /\ pc \notin Later /\ run \in RunType /\ Disk \in Directory /\ TInv
  BY HostFacts, RunFacts DEF RestoreKey, Later, CleanSteps
<1>2. /\ Open(Disk) /\ run.journal.keyChanged = Disk.journal.keyChanged
      /\ run.journal.hadKey = Disk.journal.hadKey
  BY <1>1, RollingFacts, KeyAgain
<1> DEFINE onward == pc' = "dropPreManaged" /\ run' = run
<1>3. CASE onward /\ images' = images
  <2>1. Disk' = Disk
    BY <1>3 DEF Disk
  <2>2. QED
    BY <1>1, <1>3, <2>1, RunProposed DEF CleanSteps
<1>4. CASE run.journal.keyChanged /\ ~run.journal.hadKey /\ onward
  <2>1. FormerKey(Disk) = None
    BY <1>2, <1>4 DEF FormerKey
  <2>2. ~KeyAhead(Disk)
    BY <1>1, <1>2, <2>1, RecoveredParts DEF KeyAhead
  <2>3. QED
    BY <1>1, <1>4, <2>2, RunProposed DEF CleanSteps
<1>5. CASE /\ run.journal.keyChanged /\ run.journal.hadKey /\ onward
           /\ RestoresWith("credentialPrevious", "credential")
  <2> DEFINE e == Restored(Disk, "credentialPrevious", "credential")
  <2>1. Disk.credentialPrevious # None /\ Completed(e)
    BY <1>5 DEF RestoresWith
  <2>2. e \in Directory
    BY <1>1, <2>1, RestoreTypes
  <2>3. /\ e.journal = Disk.journal /\ e.config = Disk.config
        /\ e.configPrevious = Disk.configPrevious /\ e.credential = Disk.credentialPrevious
        /\ e.credentialPrevious = Disk.credentialPrevious
    BY <1>1, <2>2 DEF Restored, Written, Unstaged, Directory
  <2> HIDE DEF e
  <2>4. Former(e) = Former(Disk) /\ FormerKey(e) = FormerKey(Disk)
    BY <1>2, <1>5, <2>1, <2>3 DEF Former, FormerKey
  <2>5. KeyAhead(Disk) => KeyAhead(e)
    BY <1>1, <1>2, <2>2, <2>3, <2>4, AheadAlike
  <2>6. QED
    BY <1>1, <1>5, <2>1, <2>2, <2>5, CompletedDisk, RunProposed DEF CleanSteps
<1>6. CASE \/ NotDone(run, RemoveLeaves(Disk, "credential"))
           \/ RestoreFails("credentialPrevious", "credential")
  BY <1>1, <1>6, NotDoneProposed, RestoreFailsProposed
<1>7. CASE End("stuck")
  BY <1>7, IdleProposed DEF End
<1>8. QED
  BY <1>1, <1>3, <1>4, <1>5, <1>6, <1>7, RestoreKeyLands

\* Drop keeps the key ahead.
LEMMA DropProposed ==
  ASSUME SInv, PInv, DropPreManaged
  PROVE  PInv'
<1>1. pc = "dropPreManaged" /\ pc \notin Later /\ run \in RunType
  BY HostFacts, RunFacts DEF DropPreManaged, Later, CleanSteps
<1>2. \/ images' = images /\ run' = run /\ pc' = "markRolledBack"
      \/ Raise(run)
      \/ End("killed")
  BY DEF DropPreManaged, Skip, Go, Killed
<1>3. CASE images' = images /\ run' = run /\ pc' = "markRolledBack"
  <2>1. Disk' = Disk
    BY <1>3 DEF Disk
  <2>2. QED
    BY <1>1, <1>3, <2>1, RunProposed DEF CleanSteps
<1>4. QED
  BY <1>1, <1>2, <1>3, RaiseProposed, IdleProposed DEF End

\* A write of the record that closes it: the source and the key are those of recovery.
LEMMA ClosingProposed ==
  ASSUME SInv, PInv, pc \notin Later, run \in RunType, NEW j \in Journal,
         j.phase \in ClosedPhases, Completed(Written(Disk, "journal", j)),
         run'.request = run.request, run'.supplied = run.supplied, run.caller \in Recovers,
         Unasked(pc, run) /\ KeyAhead(Disk) => Disk.config.source = "api"
  PROVE  PInv'
<1> DEFINE e == Written(Disk, "journal", j)
<1>1. Disk \in Directory /\ Worth(Disk, wg, txn.kept)
  BY HostFacts
<1>2. e \in Directory
  BY <1>1, WriteTypes DEF Entry
<1>3. e.journal = j /\ e.config = Disk.config /\ e.credential = Disk.credential
  BY <1>1 DEF Written, Directory
<1> HIDE DEF e
<1>4. ~Open(e)
  BY <1>3 DEF Open
<1>5. Disk.config.source = "api" => KeyAhead(e)
  BY <1>1, <1>2, <1>3, <1>4, AheadClosed DEF Worth
<1>6. Disk' = e
  BY <1>2, CompletedDisk DEF e
<1>7. QED
  BY <1>4, <1>5, <1>6 DEF PInv, Unasked, Kept, Later

\* MarkRolledBack keeps the key ahead.
LEMMA MarkRolledBackProposed ==
  ASSUME SInv, PInv, MarkRolledBack
  PROVE  PInv'
<1>1. /\ pc = "markRolledBack" /\ pc \notin Later /\ run \in RunType /\ Disk \in Directory /\ TInv
      /\ run.caller \in {"rollback", "undo"}
  BY HostFacts, RunFacts DEF MarkRolledBack, SInv, TInv, Control, CallerAt, RollbackSteps, Later,
     CleanSteps
<1>2. CASE NotDone(run, WriteLeaves(Disk, "journal", RolledBack(run.journal)))
  BY <1>1, <1>2, NotDoneProposed
<1>3. CASE /\ Completed(Written(Disk, "journal", RolledBack(run.journal)))
           /\ RolledBack(run.journal) \in Journal /\ run.journal \in Journal /\ run' = run
  <2>1. Open(Disk)
    BY <1>1, RollingFacts DEF Rolling, RollbackSteps
  <2>2. Disk.config.source = Former(Disk).source
    BY <1>1 DEF SInv, RunInv, Runs, Backed
  <2>3. KeyAhead(Disk) => Disk.config.source = "api"
    BY <1>1, <2>1, <2>2, RecoveredParts DEF KeyAhead
  <2>4. RolledBack(run.journal).phase \in ClosedPhases
    BY <1>3, JournalRecords DEF RolledBack, ClosedPhases
  <2>5. QED
    BY <1>1, <1>3, <2>3, <2>4, ClosingProposed, LateProposed
<1>4. QED
  BY <1>1, <1>2, <1>3, MarkRolledBackLands

\* CleanUp removes what the key does not hang on.
LEMMA CleanUpProposed ==
  ASSUME SInv, PInv, CleanUp
  PROVE  PInv'
<1>1. /\ pc \in CleanSteps /\ pc \notin {"validate", "ready"} /\ run \in RunType /\ Disk \in Directory /\ TInv
  BY HostFacts, RunFacts DEF CleanUp, CleanConfig, CleanKey, CleanJournal, CleanSteps
<1>2. ASSUME NEW entry \in {"journal", "configPrevious", "credentialPrevious"}, Gone(entry),
             KeyAhead(Disk), ~Open(Disk)
      PROVE  KeyAhead(Disk') /\ ~Open(Disk')
  <2> DEFINE e == Removed(Disk, entry)
  <2>1. e \in Directory
    BY <1>1, RemoveTypes
  <2>2. Disk' = e
    <3>1. CASE e = Disk /\ images' = images
      BY <3>1 DEF Disk
    <3>2. CASE Completed(e)
      BY <2>1, <3>2, CompletedDisk
    <3>3. QED
      BY <1>2, <3>1, <3>2 DEF Gone
  <2>3. /\ e.config = Disk.config /\ e.credential = Disk.credential
        /\ e.journal \in {Disk.journal, None}
    BY <1>1 DEF Removed, Cleaned, Unstaged, Directory
  <2> HIDE DEF e
  <2>4. ~Open(Disk) /\ Disk.config.source = "api" /\ Disk.credential # None
    BY <1>1, <1>2, RecoveredParts DEF KeyAhead
  <2>5. ~Open(e)
    BY <2>3, <2>4 DEF Open
  <2>6. QED
    BY <2>1, <2>2, <2>3, <2>4, <2>5, AheadClosed
<1>3. [run EXCEPT !.caller = "post"].caller \notin Recovers
  BY <1>1 DEF RunType, Recovers
<1>4. CASE \E leaves : NotDone(run, leaves)
  BY <1>1, <1>4, NotDoneProposed
<1>5. CASE run' = NoRun \/ run' = [run EXCEPT !.caller = "post"]
  BY <1>3, <1>5, IdleProposed, LateProposed
<1>6. CASE /\ run' = run /\ pc' \in CleanSteps
           /\ \E entry \in {"configPrevious", "credentialPrevious"} : Gone(entry)
  BY <1>1, <1>2, <1>6 DEF PInv, Unasked, Kept
<1>7. CASE pc' = "ready"
  BY <1>7, LateProposed
<1>8. CASE CleanConfig
  BY <1>1, <1>4, <1>6, <1>8, CleanConfigLands DEF CleanSteps
<1>9. CASE CleanKey
  BY <1>1, <1>4, <1>6, <1>9, CleanKeyLands DEF CleanSteps
<1>10. CASE CleanJournal
  BY <1>1, <1>4, <1>5, <1>7, <1>10, CleanJournalLands DEF End
<1>11. QED
  BY <1>8, <1>9, <1>10 DEF CleanUp

(* ------------------------- the health proof ----------------------------- *)

\* BeginProof keeps the key ahead.
LEMMA BeginProofProposed == ASSUME SInv, PInv, BeginProof PROVE PInv'
<1>1. pc \notin Later /\ pc' \notin CleanSteps /\ run' = run /\ Disk' = Disk
  BY DEF BeginProof, Go, Disk, Later, CleanSteps
<1>2. QED
  BY <1>1, RunProposed

\* MarkVerifying keeps the key ahead.
LEMMA MarkVerifyingProposed ==
  ASSUME SInv, PInv, MarkVerifying
  PROVE  PInv'
<1> DEFINE j == [run.journal EXCEPT !.phase = "verifying", !.proof = TRUE]
<1> DEFINE mine == [run EXCEPT !.journal = j]
<1> DEFINE e == Written(Disk, "journal", j)
<1>1. /\ pc = "markVerifying" /\ pc \notin Later /\ run \in RunType /\ Disk \in Directory /\ TInv
      /\ run.caller \in {"recovery", "apply"}
  BY HostFacts, RunFacts DEF MarkVerifying, SInv, TInv, Control, CallerAt, ProofSteps, Later,
     CleanSteps
<1>2. mine.request = run.request /\ mine.supplied = run.supplied /\ mine.caller = run.caller
  BY <1>1 DEF RunType
<1>3. /\ j \in Journal /\ run.journal \in Journal
      /\ \/ Completed(e) /\ run' = mine /\ pc' = "verify"
         \/ NotDone(run, WriteLeaves(Disk, "journal", j))
  BY <1>1, MarkVerifyingLands
<1>4. /\ j.operation = run.journal.operation /\ j.hadKey = run.journal.hadKey
      /\ j.keyChanged = run.journal.keyChanged /\ j.phase = "verifying" /\ j # None
  BY <1>3, NoneApart, JournalRecords
<1>5. /\ e \in Directory /\ e.journal = j /\ e.config = Disk.config
      /\ e.credential = Disk.credential /\ e.configPrevious = Disk.configPrevious
      /\ e.credentialPrevious = Disk.credentialPrevious
  BY <1>1, <1>3, WriteTypes DEF Written, Directory, Entry
<1> HIDE DEF j, mine, e
<1>6. CASE run.caller = "recovery" /\ Completed(e) /\ run' = mine /\ pc' = "verify"
  <2>1. /\ run.journal = Disk.journal /\ Open(Disk) /\ run.journal.phase = "activated"
    BY <1>1, <1>6, ProvingFacts DEF SInv, TInv, Control, JournalAt
  <2>2. Open(e)
    BY <1>4, <1>5 DEF Open, ClosedPhases
  <2>3. Former(e) = Former(Disk) /\ FormerKey(e) = FormerKey(Disk)
    BY <1>4, <1>5, <2>1 DEF Former, FormerKey
  <2>4. KeyAhead(Disk) => KeyAhead(e)
    BY <1>1, <1>4, <1>5, <2>1, <2>2, <2>3, RecoveredParts DEF KeyAhead
  <2>5. Disk' = e
    BY <1>5, <1>6, CompletedDisk
  <2>6. QED
    BY <1>1, <1>2, <1>6, <2>4, <2>5, KeptProposed DEF Recovers, CleanSteps
<1>7. CASE run.caller = "apply" /\ run' = mine
  BY <1>2, <1>7, LateProposed DEF Recovers
<1>8. QED
  BY <1>1, <1>3, <1>6, <1>7, NotDoneProposed

\* Verify keeps the key ahead.
LEMMA VerifyProposed ==
  ASSUME SInv, PInv, Verify
  PROVE  PInv'
<1>1. /\ pc = "verify" /\ pc \notin Later /\ run \in RunType /\ TInv /\ Typed
      /\ run.caller \in {"recovery", "apply"}
  BY HostFacts, RunFacts DEF Verify, SInv, TInv, Control, CallerAt, ProofSteps, Later, CleanSteps
<1>2. PICK r \in CheckResults : \/ CallEnds(r) /\ (IF r.ok THEN ProofEnds ELSE ProofFails)
                                \/ CallCut(r)
  BY <1>1, VerifyLands DEF Calls
<1>3. CASE CallEnds(r) /\ (ProofEnds \/ ProofFails)
  <2>1. images' = images
    BY <1>1, <1>3, CheckTypes, CallStill
  <2>2. /\ [run EXCEPT !.caller = "finalize"].caller = "finalize"
        /\ [run EXCEPT !.caller = "rollback"].request = run.request
        /\ [run EXCEPT !.caller = "rollback"].supplied = run.supplied
    BY <1>1 DEF RunType
  <2>3. CASE Raise(run)
    BY <1>1, <2>3, RaiseProposed
  <2>4. CASE run.caller = "apply" /\ run' = [run EXCEPT !.caller = "finalize"]
    BY <2>2, <2>4, LateProposed DEF Recovers
  <2>5. CASE /\ run.caller = "recovery" /\ run' \in {run, [run EXCEPT !.caller = "rollback"]}
             /\ pc' \in {"markVerified", "reconcile", "restoreConfig"}
    BY <1>1, <2>1, <2>2, <2>5, StillProposed DEF Recovers, CleanSteps
  <2>6. QED
    BY <1>1, <1>3, <2>3, <2>4, <2>5 DEF ProofEnds, ProofFails, RollBack, Go
<1>4. CASE CallCut(r)
  BY <1>4, IdleProposed DEF CallCut, End
<1>5. QED
  BY <1>2, <1>3, <1>4

\* MarkVerified keeps the key ahead.
LEMMA MarkVerifiedProposed ==
  ASSUME SInv, PInv, MarkVerified
  PROVE  PInv'
<1>1. /\ pc = "markVerified" /\ pc \notin Later /\ run \in RunType /\ Disk \in Directory /\ TInv
      /\ run.caller \in {"recovery", "finalize"} /\ run.journal # None
      /\ run.journal.phase = "verifying"
  BY HostFacts, RunFacts DEF MarkVerified, Mark, SInv, TInv, Control, CallerAt, JournalAt, Later,
     CleanSteps
<1>2. /\ "verified" \in Phases /\ "verified" \in OperationPhases(run.journal.operation)
      /\ run.journal.proof <=> "verified" \in ProofPhases
  BY <1>1, Unproved DEF Phases, OperationPhases, ProofPhases
<1>3. /\ Phased("verified") \in RunType /\ Phased("verified").journal \in Journal
      /\ Phased("verified").request = run.request /\ Phased("verified").caller = run.caller
      /\ Phased("verified").supplied = run.supplied
      /\ Phased("verified").journal.phase \in ClosedPhases
  BY <1>1, <1>2, PhasedTypes, PhasedAt DEF ClosedPhases
<1>4. \/ /\ Completed(Written(Disk, "journal", Phased("verified").journal))
         /\ run' = Phased("verified")
      \/ NotDone(Phased("verified"), WriteLeaves(Disk, "journal", Phased("verified").journal))
  BY <1>1, <1>2, MarkLands DEF MarkVerified
<1>5. ASSUME run.caller = "recovery", KeyAhead(Disk) PROVE Disk.config.source = "api"
  <2>1. run.journal = Disk.journal /\ Open(Disk) /\ Disk.journal # None
    BY <1>1, <1>5, ProvingFacts
  <2>2. Disk.journal.operation = "api-update"
    BY <1>1, <1>5, <2>1 DEF KeyAhead
  <2>3. QED
    BY <2>1, <2>2, HostFacts DEF Worth
<1>6. CASE run.caller = "recovery" /\ run' = Phased("verified")
           /\ Completed(Written(Disk, "journal", Phased("verified").journal))
  BY <1>1, <1>3, <1>5, <1>6, ClosingProposed DEF Recovers
<1>7. CASE run.caller = "finalize" /\ run' = Phased("verified")
  BY <1>3, <1>7, LateProposed DEF Recovers
<1>8. QED
  BY <1>1, <1>3, <1>4, <1>6, <1>7, NotDoneProposed

(* ------------------------ applying the request -------------------------- *)

\* Begin keeps the key ahead.
LEMMA BeginProposed == ASSUME SInv, PInv, Begin \/ Validate PROVE PInv'
<1>1. run \in RunType /\ TInv
  BY HostFacts, RunFacts
<1>2. [run EXCEPT !.caller = "apply"].caller \notin Recovers
      /\ OpenedApply(run.request).caller \notin Recovers
  BY <1>1 DEF RunType, OpenedApply, Opened, Recovers
<1>3. CASE Begin
  BY <1>1, <1>2, <1>3, BeginLands, IdleProposed, LateProposed DEF Go, End
<1>4. CASE Validate
  <2>1. Calls(ValidationResults, Go("prepare", [run EXCEPT !.caller = "apply"]), End("refused"))
    BY <1>1, <1>4, ValidateLands
  <2>2. Go("prepare", [run EXCEPT !.caller = "apply"]) => PInv'
    BY <1>2, LateProposed DEF Go
  <2>3. End("refused") => PInv'
    BY IdleProposed DEF End
  <2>4. QED
    BY <2>1, <2>2, <2>3, CallsProposed
<1>5. QED
  BY <1>3, <1>4

\* The steps that write the request's files,
LEMMA WritingProposed ==
  ASSUME SInv, SnapshotConfig \/ SnapshotKey \/ WriteConfig \/ WriteKey
  PROVE  PInv'
<1>1. run \in RunType /\ TInv /\ run.caller = "apply"
  BY HostFacts, RunFacts DEF SnapshotConfig, SnapshotKey, WriteConfig, WriteKey, SInv, TInv, Control,
     CallerAt, ApplySteps
<1>2. run' = run \/ \E leaves : NotDone(run, leaves)
  BY <1>1, SnapshotConfigLands, SnapshotKeyLands, WriteConfigLands, WriteKeyLands
<1>3. QED
  BY <1>1, <1>2, NotDoneProposed, LateProposed DEF Recovers

\* that call the runtime for it,
LEMMA RunningProposed ==
  ASSUME SInv, Revalidate \/ Activate \/ RestoreStatic
  PROVE  PInv'
<1>1. run \in RunType /\ TInv /\ run.caller = "apply"
  BY HostFacts, RunFacts DEF Revalidate, Activate, RestoreStatic, SInv, TInv, Control, CallerAt,
     ApplySteps
<1>2. ASSUME NEW next PROVE Go(next, run) => PInv'
  BY <1>1, LateProposed DEF Go, Recovers
<1>3. Raise(run) => PInv'
  BY <1>1, RaiseProposed
<1>4. CASE Revalidate
  <2>1. \E next : Calls(ValidationResults, Go(next, run), Raise(run))
    BY <1>1, <1>4, RevalidateLands
  <2>2. QED
    BY <1>2, <1>3, <2>1, CallsProposed
<1>5. CASE Activate
  <2>1. Calls(ActivationResults, Go("markActivated", run), Raise(run))
    BY <1>1, <1>5, ActivateLands
  <2>2. QED
    BY <1>2, <1>3, <2>1, CallsProposed
<1>6. CASE RestoreStatic
  <2>1. \/ Calls({r \in RestoreStaticResults : r.ok}, Go("markActivated", run), FALSE)
        \/ Calls({r \in RestoreStaticResults : ~r.ok}, FALSE, Raise(run))
    BY <1>1, <1>6, RestoreStaticLands
  <2>2. \/ Go("markActivated", run) \/ Raise(run)
        \/ \E r \in RestoreStaticResults : CallCut(r)
    BY <2>1 DEF Calls
  <2>3. QED
    BY <1>2, <1>3, <2>2, IdleProposed DEF CallCut, End
<1>7. QED
  BY <1>4, <1>5, <1>6

\* that move its record,
LEMMA MarkProposed ==
  ASSUME SInv, run.caller = "apply", NEW step, NEW phase, NEW next, Mark(step, phase, next)
  PROVE  PInv'
<1> DEFINE self == [run EXCEPT !.journal.phase = phase]
<1>1. run \in RunType
  BY HostFacts, RunFacts
<1>2. self.caller = "apply" /\ "caller" \in DOMAIN self
  BY <1>1 DEF RunType
<1>3. \/ Go(next, self) \/ Raise(self) \/ End("killed")
  BY DEF Mark, PersistJournal, AtomicWrite, Refuse, StoreCall, Killed
<1> HIDE DEF self
<1>4. [self EXCEPT !.caller = "keep"].caller = "keep"
      /\ [self EXCEPT !.caller = "undo"].caller = "undo"
  BY <1>2
<1>5. CASE Raise(self)
  <2>1. run' = NoRun \/ run'.caller \in {"keep", "undo"}
    BY <1>2, <1>4, <1>5, RaiseLands DEF Callers
  <2>2. QED
    BY <2>1, IdleProposed, LateProposed DEF Recovers
<1>6. QED
  BY <1>2, <1>3, <1>5, IdleProposed, LateProposed DEF Go, End, Recovers

\* Marking a phase leaves what recovery would make of the directory.
LEMMA MarkingProposed ==
  ASSUME SInv, \/ Prepare \/ MarkConfig \/ MarkKey \/ MarkActivating \/ MarkActivated
  PROVE  PInv'
<1>1. run.caller = "apply"
  BY DEF Prepare, MarkConfig, MarkKey, MarkActivating, MarkActivated, Mark,
     SInv, TInv, Control, CallerAt, ApplySteps
<1>2. \E step, phase, next : Mark(step, phase, next)
  BY DEF Prepare, MarkConfig, MarkKey, MarkActivating, MarkActivated
<1>3. QED
  BY <1>1, <1>2, MarkProposed

\* and that come after its commit.
LEMMA EndingProposed ==
  ASSUME SInv, Ending
  PROVE  PInv'
<1>1. run \in RunType /\ TInv /\ run.caller = "post"
  BY HostFacts, RunFacts DEF Ending, ResetApiState, RemoveKey, EnableTimer, SInv, TInv, Control,
     CallerAt, PostSteps
<1>2. run' = run => PInv'
  BY <1>1, LateProposed DEF Recovers
<1>3. CASE ResetApiState
  <2>1. CASE Calls(ResetResults, Go("removeKey", run), Raise(run))
    <3>1. (Go("removeKey", run) => PInv') /\ (Raise(run) => PInv')
      BY <1>1, <1>2, RaiseProposed DEF Go
    <3>2. QED
      BY <2>1, <3>1, CallsProposed
  <2>2. QED
    BY <1>1, <1>2, <1>3, <2>1, ResetLands DEF Go
<1>4. CASE RemoveKey
  BY <1>1, <1>2, <1>4, RemoveKeyLands, NotDoneProposed
<1>5. CASE EnableTimer
  BY <1>5, IdleProposed DEF EnableTimer, Skip, End, Killed
<1>6. QED
  BY <1>3, <1>4, <1>5 DEF Ending

\* Every step keeps it.
LEMMA StepProposed ==
  ASSUME SInv, PInv, Next
  PROVE  PInv'
<1>1. CASE Recovery
  BY <1>1, DiscardProposed, ReconcileProposed, ClassifyProposed DEF Recovery
<1>2. CASE RollingBack
  BY <1>2, UnadoptProposed, RestoreConfigProposed, RestoreKeyProposed, DropProposed,
     MarkRolledBackProposed DEF RollingBack
<1>3. CASE CleanUp
  BY <1>3, CleanUpProposed
<1>4. CASE Applying
  BY <1>4, BeginProposed, WritingProposed, RunningProposed, MarkingProposed DEF Applying
<1>5. CASE Proving
  BY <1>5, BeginProofProposed, MarkVerifyingProposed, VerifyProposed, MarkVerifiedProposed
     DEF Proving
<1>6. CASE Ending
  BY <1>6, EndingProposed
<1>7. CASE Enter \/ StopUnits \/ Preview \/ Check \/ PowerLoss \/ (\E r \in Requests : Ask(r))
  BY <1>7, BetweenProposed
<1>8. QED
  BY <1>1, <1>2, <1>3, <1>4, <1>5, <1>6, <1>7 DEF Next, Proceed

(* ----------------------- where recovery returns ------------------------- *)

\* An error does not lead there,
LEMMA RaiseUnready == ASSUME NEW self \in RunType, Raise(self) PROVE pc' # "ready"
<1>1. self.caller \in Callers
  BY DEF RunType
<1>2. QED
  BY <1>1, RaiseLands

\* nor a call of the store that is not completed,
LEMMA NotDoneUnready == ASSUME NEW self \in RunType, NEW leaves, NotDone(self, leaves) PROVE pc' # "ready"
BY RaiseUnready DEF NotDone, Fails, Cuts, Refuses, End

\* nor a command, unless its result does.
LEMMA CallsUnready ==
  ASSUME NEW results, NEW ACTION Done, NEW ACTION Failed, Calls(results, Done, Failed),
         Done => pc' # "ready", Failed => pc' # "ready"
  PROVE  pc' # "ready"
BY DEF Calls, CallCut, End

\* A phase marked leads to the step named.
LEMMA MarkUnready ==
  ASSUME SInv, NEW step, NEW phase, NEW next, Mark(step, phase, next), next # "ready"
  PROVE  pc' # "ready"
<1> DEFINE self == [run EXCEPT !.journal.phase = phase]
<1>1. run \in RunType
  BY HostFacts, RunFacts
<1>2. self.caller \in Callers
  BY <1>1 DEF RunType
<1>3. \/ Go(next, self) \/ Raise(self) \/ End("killed")
  BY DEF Mark, PersistJournal, AtomicWrite, Refuse, StoreCall, Killed
<1> HIDE DEF self
<1>4. CASE Raise(self)
  BY <1>2, <1>4, RaiseLands
<1>5. CASE Go(next, self) \/ End("killed")
  BY <1>5 DEF Go, End
<1>6. QED
  BY <1>3, <1>4, <1>5

\* A step of the rollback leads elsewhere,
LEMMA RollingUnready == ASSUME SInv, RollingBack PROVE pc' # "ready"
<1>1. TInv /\ run \in RunType
  BY HostFacts, RunFacts
<1>2. Raise(run) \/ (\E leaves : NotDone(run, leaves)) => pc' # "ready"
  BY <1>1, RaiseUnready, NotDoneUnready
<1>3. CASE Unadopt
  <2>1. CASE Calls(UnadoptResults, Go("restoreConfig", run), Raise(run))
    <3>1. Go("restoreConfig", run) => pc' # "ready"
      BY DEF Go
    <3>2. QED
      BY <1>2, <2>1, <3>1, CallsUnready
  <2>2. QED
    BY <1>1, <1>3, <2>1, UnadoptLands DEF Go
<1>4. CASE RestoreConfig
  BY <1>1, <1>2, <1>4, RestoreConfigLands DEF RestoreFails, End
<1>5. CASE RestoreKey
  BY <1>1, <1>2, <1>5, RestoreKeyLands DEF RestoreFails, End
<1>6. CASE DropPreManaged
  BY <1>2, <1>6 DEF DropPreManaged, Skip, Go, Killed, End
<1>7. CASE MarkRolledBack
  BY <1>1, <1>2, <1>7, MarkRolledBackLands
<1>8. QED
  BY <1>3, <1>4, <1>5, <1>6, <1>7 DEF RollingBack

\* and so does one of recovery but the first, which may find nothing to recover.
LEMMA RecoveryUnready == ASSUME SInv, Reconcile \/ CleanupCandidate \/ Classify PROVE pc' # "ready"
<1>1. TInv /\ run \in RunType
  BY HostFacts, RunFacts
<1>2. Raise(run) => pc' # "ready"
  BY <1>1, RaiseUnready
<1>3. ASSUME NEW next \in {"unstage", "classify", "unadopt"} PROVE Go(next, run) => pc' # "ready"
  BY <1>3 DEF Go
<1>4. CASE Reconcile
  <2>1. CASE Calls(CheckResults, Go("unstage", run), Raise(run))
    BY <1>2, <1>3, <2>1, CallsUnready
  <2>2. QED
    BY <1>1, <1>3, <1>4, <2>1, ReconcileLands
<1>5. CASE CleanupCandidate
  <2> DEFINE next == IF run.caller = "recovery" THEN "classify" ELSE "unadopt"
  <2>1. next \in {"unstage", "classify", "unadopt"}
    OBVIOUS
  <2>2. Go(next, run) \/ Calls(CandidateResults, Go(next, run), Raise(run))
    BY <1>1, <1>5, CleanupCandidateLands
  <2> HIDE DEF next
  <2>3. Go(next, run) => pc' # "ready"
    BY <1>3, <2>1
  <2>4. CASE Calls(CandidateResults, Go(next, run), Raise(run))
    BY <1>2, <2>3, <2>4, CallsUnready
  <2>5. QED
    BY <2>2, <2>3, <2>4
<1>6. CASE Classify
  BY <1>6, ClassifyLands DEF UndoStep
<1>7. QED
  BY <1>4, <1>5, <1>6

\* A step that applies the request leads on,
LEMMA ApplyingUnready == ASSUME SInv, Applying PROVE pc' # "ready"
<1>1. TInv /\ run \in RunType
  BY HostFacts, RunFacts
<1>2. Raise(run) \/ (\E leaves : NotDone(run, leaves)) => pc' # "ready"
  BY <1>1, RaiseUnready, NotDoneUnready
<1>3. ASSUME NEW next, NEW self, next # "ready" PROVE Go(next, self) => pc' # "ready"
  BY <1>3 DEF Go
<1>4. CASE Begin
  BY <1>1, <1>4, BeginLands DEF Go, End
<1>5. CASE Validate
  <2>1. Calls(ValidationResults, Go("prepare", [run EXCEPT !.caller = "apply"]), End("refused"))
    BY <1>1, <1>5, ValidateLands
  <2>2. End("refused") => pc' # "ready"
    BY DEF End
  <2>3. Go("prepare", [run EXCEPT !.caller = "apply"]) => pc' # "ready"
    BY <1>3
  <2>4. QED
    BY <2>1, <2>2, <2>3, CallsUnready
<1>6. CASE SnapshotConfig \/ SnapshotKey \/ WriteConfig \/ WriteKey
  BY <1>1, <1>2, <1>6, SnapshotConfigLands, SnapshotKeyLands, WriteConfigLands, WriteKeyLands
<1>7. CASE Prepare \/ MarkConfig \/ MarkKey \/ MarkActivating \/ MarkActivated
  BY <1>7, MarkUnready DEF Prepare, MarkConfig, MarkKey, MarkActivating, MarkActivated
<1>8. CASE Revalidate
  <2>1. PICK next : Calls(ValidationResults, Go(next, run), Raise(run)) /\ next # "ready"
    BY <1>1, <1>8, RevalidateLands
  <2>2. QED
    BY <1>2, <1>3, <2>1, CallsUnready
<1>9. CASE Activate
  <2>1. Calls(ActivationResults, Go("markActivated", run), Raise(run))
    BY <1>1, <1>9, ActivateLands
  <2>2. QED
    BY <1>2, <1>3, <2>1, CallsUnready
<1>10. CASE RestoreStatic
  <2>1. \/ Go("markActivated", run) \/ Raise(run)
        \/ \E r \in RestoreStaticResults : CallCut(r)
    BY <1>1, <1>10, RestoreStaticLands DEF Calls
  <2>2. QED
    BY <1>2, <1>3, <2>1 DEF CallCut, End
<1>11. QED
  BY <1>4, <1>5, <1>6, <1>7, <1>8, <1>9, <1>10 DEF Applying

\* proves it healthy, or comes after its commit,
LEMMA ProvingUnready == ASSUME SInv, Proving \/ Ending PROVE pc' # "ready"
<1>1. TInv /\ run \in RunType
  BY HostFacts, RunFacts
<1>2. Raise(run) \/ (\E leaves : NotDone(run, leaves)) => pc' # "ready"
  BY <1>1, RaiseUnready, NotDoneUnready
<1>3. CASE BeginProof
  BY <1>3 DEF BeginProof, Go
<1>4. CASE MarkVerifying
  BY <1>1, <1>2, <1>4, MarkVerifyingLands
<1>5. CASE Verify
  <2>1. ProofFails => pc' # "ready"
    BY <1>2 DEF ProofFails, RollBack, Go
  <2>2. ProofEnds => pc' # "ready"
    BY <2>1 DEF ProofEnds, Go
  <2>3. QED
    BY <1>1, <1>5, <2>1, <2>2, VerifyLands, CallsUnready
<1>6. CASE MarkVerified
  BY <1>6, MarkUnready DEF MarkVerified
<1>7. CASE ResetApiState
  <2>1. CASE Calls(ResetResults, Go("removeKey", run), Raise(run))
    <3>1. Go("removeKey", run) => pc' # "ready"
      BY DEF Go
    <3>2. QED
      BY <1>2, <2>1, <3>1, CallsUnready
  <2>2. QED
    BY <1>1, <1>7, <2>1, ResetLands DEF Go
<1>8. CASE RemoveKey
  BY <1>1, <1>2, <1>8, RemoveKeyLands
<1>9. CASE EnableTimer
  BY <1>9 DEF EnableTimer, Skip, End, Killed
<1>10. QED
  BY <1>3, <1>4, <1>5, <1>6, <1>7, <1>8, <1>9 DEF Proving, Ending

\* So recovery returns from its first step, with nothing to recover, or from its last.
LEMMA Returns ==
  ASSUME SInv, Next, pc' = "ready"
  PROVE  DiscardStaging \/ CleanJournal
<1>1. TInv /\ run \in RunType
  BY HostFacts, RunFacts
<1>2. CASE CleanConfig \/ CleanKey
  BY <1>1, <1>2, CleanConfigLands, CleanKeyLands, NotDoneUnready
<1>3. CASE Enter \/ StopUnits \/ PowerLoss
  BY <1>3 DEF Enter, StopUnits, PowerLoss, Go, End, Killed
<1>4. CASE Preview \/ Check \/ (\E r \in Requests : Ask(r))
  BY <1>4 DEF Preview, Check, Ask, End
<1>5. QED
  BY <1>2, <1>3, <1>4, RollingUnready, RecoveryUnready, ApplyingUnready, ProvingUnready
     DEF Next, Proceed, Recovery, CleanUp

(* ----------------------------- the theorem ------------------------------ *)

\* There, an API request that was asked for no key finds API mode and its key, unless
\* recovery kept a restoration cut in phase activating.
LEMMA ReadyProposed ==
  ASSUME SInv, PInv, Next, pc' = "ready", run.request.mode = "api", run.supplied = None,
         ~(run.journal # None /\ run.journal.phase = "activating")
  PROVE  ~RequiresProposal(Disk', run.request)
<1>1. Disk \in Directory /\ TInv /\ run \in RunType
  BY HostFacts, RunFacts
<1> DEFINE Ready(e) == ~Open(e) /\ e.config.source = "api" /\ e.credential # None
<1>2. CASE DiscardStaging
  <2> DEFINE e == [Disk EXCEPT !.staging = @ \ PrivateTargets]
  <2>1. /\ e \in Directory /\ e.journal = Disk.journal /\ e.config = Disk.config
        /\ e.credential = Disk.credential
    BY <1>1 DEF Directory
  <2>2. /\ pc = "discard" /\ Disk.journal = None
        /\ Completed(e) \/ (e = Disk /\ UNCHANGED <<images, status, faults>>)
    BY <1>1, <1>2, DiscardLands, NotDoneUnready DEF End
  <2> HIDE DEF e
  <2>3. Disk' = e
    BY <2>1, <2>2, OneImage DEF Completed, Disk
  <2>4. run.caller = "none" /\ run.request # None
    BY <1>1, <2>2 DEF TInv, Control, CallerAt
  <2>5. ~run.request.replace /\ KeyAhead(Disk)
    BY <2>2, <2>4 DEF PInv, Unasked, Recovers, Kept, CleanSteps
  <2>6. Disk.config.source = "api" /\ Disk.credential # None
    BY <1>1, <2>2, <2>5, RecoveredParts DEF KeyAhead, Open
  <2>7. QED
    BY <2>1, <2>2, <2>3, <2>5, <2>6 DEF RequiresProposal, CredentialState
<1>3. CASE CleanJournal
  <2> DEFINE e == Removed(Disk, "journal")
  <2>1. e \in Directory
    BY <1>1, RemoveTypes
  <2>2. /\ e.journal = None /\ e.config = Disk.config /\ e.credential = Disk.credential
    BY <1>1 DEF Removed, Cleaned, Unstaged, Directory
  <2>3. /\ pc = "cleanJournal" /\ Gone("journal") /\ run.caller \in {"recovery", "rollback"}
    BY <1>1, <1>3, CleanJournalLands, NotDoneUnready DEF End
  <2>4. Disk' = e
    BY <2>1, <2>3, OneImage DEF Gone, Completed, Disk
  <2> HIDE DEF e
  <2>5. run.request # None /\ run.journal # None
    BY <1>1, <2>3 DEF TInv, Control, CallerAt, CleanSteps
  <2>6. ~run.request.replace /\ KeyAhead(Disk) /\ ~Open(Disk)
    BY <2>3, <2>5 DEF PInv, Unasked, Recovers, Kept, CleanSteps
  <2>7. Disk.config.source = "api" /\ Disk.credential # None
    BY <1>1, <2>6, RecoveredParts DEF KeyAhead
  <2>8. QED
    BY <2>2, <2>4, <2>6, <2>7 DEF RequiresProposal, CredentialState
<1>4. QED
  BY <1>2, <1>3, Returns

\* Whatever recovery finds and does, an API request that was asked for no key needs none
\* when recovery returns: API mode, its key, and no key to replace
\* (api_requires_proposed_credential, credential_state_after_recovery); unless recovery has
\* just kept a restoration cut in phase activating, which credential_state.py:91 leaves out.
THEOREM ForeseenKeySuffices ==
  ASSUME Windows \subseteq {"moved restore"}
  PROVE  Spec /\ [][~RotatesRestoration]_vars => ProposalSuffices
<1>1. Init => PInv
  <2>1. SUFFICES ASSUME Init PROVE PInv
    OBVIOUS
  <2>2. run = NoRun
    BY <2>1 DEF Init
  <2>3. QED
    BY <2>2 DEF PInv, Unasked, NoRun
<1>2. SInv /\ PInv /\ [Next]_vars => PInv'
  <2>1. SUFFICES ASSUME SInv, PInv, [Next]_vars PROVE PInv'
    OBVIOUS
  <2>2. CASE UNCHANGED vars
    <3>1. Disk' = Disk /\ pc' = pc /\ run' = run
      BY <2>2 DEF vars, Disk
    <3>2. QED
      BY <2>1, <3>1 DEF PInv
  <2>3. CASE Next
    BY <2>1, <2>3, StepProposed
  <2>4. QED
    BY <2>1, <2>2, <2>3
<1>3. SInv /\ PInv /\ [Next]_vars =>
        [/\ pc' = "ready" /\ run.request.mode = "api" /\ run.supplied = None
         /\ ~(run.journal # None /\ run.journal.phase = "activating")
         => ~RequiresProposal(Disk', run.request)]_vars
  BY ReadyProposed
<1>4. QED
  BY <1>1, <1>2, <1>3, EngineSound, PTL DEF Spec, ProposalSuffices
=============================================================================
