---------------------- MODULE ManagedTransaction_proof ----------------------
(***************************************************************************)
(* Theorems about ManagedTransaction, for every number of profiles,        *)
(* containers, faults, crashes and transactions: types and crash safety    *)
(* first; then what a managed switch promises the profile and the client,  *)
(* and that it implements the atomic ProfileSwitch.                        *)
(*                                                                         *)
(* CrashRecoverable speaks of whole directory images.  It is not           *)
(* inductive: whether an unlink is safe depends on what earlier barriers   *)
(* made certain, so the invariant ties the sets in disk to the step the    *)
(* process is at.  Agreement, Unowned and PhaseGap say, entry by entry,    *)
(* that any two entries a power loss may leave together fit; Control says  *)
(* what is certain at each step.                                           *)
(*                                                                         *)
(* IInv says nothing of the client.  OneSwitch adds that the records a     *)
(* power loss may leave tell of one and the same switch, Identified that   *)
(* they name the configured container until something else touches it,     *)
(* ClientControl at which steps the client is known to be down and the     *)
(* tunnel known to be up.                                                  *)
(***************************************************************************)
EXTENDS ManagedTransaction, TLAPS

\* Every entry of d that may persist fits the safety record s.
Fits(s, d) ==
  /\ s.backup # s.candidate
  /\ \A b \in d["backup"] : b = s.backup
  /\ \A a \in d["active"] :
       a = s.candidate \/ (s.state = "pending" /\ a = s.backup)
  /\ \A c \in d["candidate"] :
       c = None \/ (s.state = "pending" /\ c = s.candidate)
  /\ \A j \in d["journal"] :
       j = None \/ (s.state = "pending" /\ j.backup = s.backup /\ j.candidate = s.candidate)
Agreement == \A s \in disk["safety"] : s # None => Fits(s, disk)

\* Where the safety record may be gone, so is the journal.
Unowned == None \in disk["safety"] => disk["journal"] = {None}

\* An installed candidate whose file may be gone has a verified journal.
PhaseGap ==
  \A j \in disk["journal"], a \in disk["active"], c \in disk["candidate"] :
    j # None /\ c = None /\ a = j.candidate => j.phase = "verified"

\* Steps of a process that owns nothing yet.
NoOwner == pc \in {"clean_orphan", "drop_candidate"} \cup StagingSteps
             \/ (pc = "prepare_safety" /\ ~unsynced)
Staged == pc \in {"snapshot", "backup", "preexclude"}
            \/ (pc = "prepare_safety" /\ ~unsynced)
\* Steps that run under a durable pending record.
Owned ==
  \/ pc \in {"prepare_journal", "exclude_again"} \cup PlainAborts \cup CandidateAborts
       \cup (RollbackSteps \ {"rb_remove_safety"})
  \/ pc \in {"commit", "rb_remove_safety"} /\ ~unsynced
\* ... with the candidate file still in place.
Present ==
  \/ pc = "prepare_safety" /\ unsynced
  \/ pc \in {"prepare_journal"} \cup CandidateAborts
       \cup (PlainAborts \ {"remove_candidate", "remove_journal", "prove_cleaned"})
  \/ pc = "remove_candidate" /\ ~unsynced
\* ... and after the backup has been put back.
Restored ==
  \/ pc \in RollbackSteps \ {"rb_enter", "rb_before_down", "rb_down", "rb_after_down",
                             "rb_install", "rb_remove_safety"}
  \/ pc = "rb_remove_safety" /\ ~unsynced
JournalGone == pc \in {"prove_cleaned", "rb_post_cleanup", "rb_prove", "rb_restore",
                       "rb_prove_final"}
                 \/ (pc \in {"commit", "rb_remove_safety"} /\ ~unsynced)

StagingControl ==
  /\ NoOwner => /\ disk["safety"] = {None} /\ disk["journal"] = {None}
                /\ disk["active"] = {fs["active"]}
  /\ (pc \in {"stage", "generate"} /\ unsynced) \/ Staged =>
       fs["candidate"] \in Profiles /\ fs["candidate"] # fs["active"]
  /\ Staged => disk["candidate"] = {fs["candidate"]}
  /\ pc = "backup" /\ unsynced => fs["backup"] = fs["active"]
  /\ pc = "preexclude" \/ (pc = "prepare_safety" /\ ~unsynced) =>
       disk["backup"] = {fs["backup"]} /\ fs["backup"] = fs["active"]

ForwardControl ==
  /\ pc = "prepare_safety" /\ unsynced => Pending /\ disk["journal"] = {None}
  /\ Owned => Pending /\ disk["safety"] = {fs["safety"]}
  /\ Present => disk["candidate"] = {fs["safety"].candidate}
  /\ pc = "journal_verified" /\ unsynced =>
       /\ fs["journal"] # None /\ fs["journal"].phase = "verified"
       /\ fs["active"] = fs["safety"].candidate
  /\ pc \in {"prove_restored", "remove_candidate"} =>
       /\ disk["journal"] = {fs["journal"]}
       /\ fs["journal"] # None /\ fs["journal"].phase = "verified"
  /\ pc = "remove_candidate" /\ unsynced => fs["candidate"] = None
  /\ pc = "remove_journal" /\ ~unsynced => disk["journal"] = {fs["journal"]}
  /\ pc \in {"remove_journal", "prove_cleaned"} \/ (pc = "commit" /\ ~unsynced) =>
       disk["candidate"] = {None}
  /\ pc \in {"prove_restored", "remove_candidate", "remove_journal", "prove_cleaned"}
       \/ (pc = "commit" /\ ~unsynced) =>
       disk["active"] = {fs["safety"].candidate}
  /\ pc = "remove_journal" /\ unsynced => fs["journal"] = None
  /\ JournalGone => disk["journal"] = {None}

RecoveryControl ==
  /\ pc = "rb_install" /\ unsynced => fs["active"] = fs["safety"].backup
  /\ Restored => disk["active"] = {fs["safety"].backup}
  /\ Restored /\ ~unsynced => disk["journal"] = {fs["journal"]}
  /\ pc = "rb_remove_journal" /\ unsynced => fs["journal"] = None
  /\ pc \in ReconcileSteps => fs["safety"] # None
  /\ pc = "rec_barrier" => Pending
  /\ pc = "rec_check" /\ Pending => disk["safety"] = {fs["safety"]}
  /\ pc \in FinalizeSteps \ {"remove_safety"} => Committed
  /\ pc \in {"remove_safety"} /\ ~unsynced => Committed
  /\ pc = "commit" /\ unsynced => Committed

\* What the exclusions and the published success say of the owner.
LedgerControl ==
  /\ PublishedOnlyCommitted /\ ExcludedWhilePending
  /\ pc = "prepare_safety" /\ ~unsynced =>
       fs["candidate"] \in excluded \cup {StaticProfile}
  /\ pc \in {"fin_network", "fin_intent", "bookkeeping"} /\ mode = "forward" =>
       disk["safety"] = {fs["safety"]}
  /\ pc \in ReconcileSteps => mode = "resumed"

\* The configured name denotes a container that exists.
ConfiguredExists == configured # None => containers[configured] # "gone"

IInv ==
  /\ TypeOK /\ ConfiguredExists
  /\ Agreement /\ Unowned /\ PhaseGap
  /\ StagingControl /\ ForwardControl /\ RecoveryControl /\ LedgerControl

(* ------------------------------- typing -------------------------------- *)

\* Every step leaves the process at a step of the program, and a sync
\* outstanding only where there is one.
LEMMA ControlTypes ==
  ASSUME ControlTypeOK, Next
  PROVE  ControlTypeOK'
<1> USE DEF ControlTypeOK, AfterSync, Steps, StagingSteps, PlainAborts, CandidateAborts,
    RollbackSteps, FinalizeSteps, ReconcileSteps, Put, Barrier, Images, At, GoTo,
    Onward, Changed, Return, Fail, ContainAndFail, process, budgets
<1>1. CASE Start
  BY <1>1 DEF Start
<1>2. CASE HealthyCheck
  BY <1>2 DEF HealthyCheck
<1>3. CASE CleanOrphan
  <2>1. unsynced' \in BOOLEAN
    BY Zenon, <1>3 DEF CleanOrphan, Onward, Changed
  <2> QED BY <1>3, <2>1 DEF CleanOrphan, At, Onward, Changed, GoTo, process
<1>4. CASE OpenCandidate
  BY <1>4 DEF OpenCandidate
<1>5. CASE GenerateCandidate
  <2>1. unsynced' \in BOOLEAN
    BY Zenon, <1>5 DEF GenerateCandidate, Onward, Changed
  <2> QED BY <1>5, <2>1 DEF GenerateCandidate, At, Onward, Changed, GoTo, process
<1>6. CASE StageStatic
  BY <1>6 DEF StageStatic
<1>7. CASE DropCandidate
  BY <1>7 DEF DropCandidate
<1>8. CASE TakeSnapshot
  BY <1>8 DEF TakeSnapshot
<1>9. CASE PrepareBackup
  BY <1>9 DEF PrepareBackup
<1>10. CASE PreexcludeCandidate
  BY <1>10 DEF PreexcludeCandidate
<1>11. CASE PrepareSafety
  BY <1>11 DEF PrepareSafety
<1>12. CASE PrepareJournal
  BY <1>12 DEF PrepareJournal
<1>13. CASE StopClient
  BY <1>13 DEF StopClient, OnFailure
<1>14. CASE Checkpoint
  BY <1>14 DEF Checkpoint, AfterCheckpoint, OnFailure
<1>15. CASE JournalTransition
  BY <1>15 DEF JournalTransition, JournalSteps
<1>16. CASE InterfaceDown
  BY <1>16 DEF InterfaceDown
<1>17. CASE InstallCandidate
  BY <1>17 DEF InstallCandidate
<1>18. CASE InterfaceUp
  BY <1>18 DEF InterfaceUp
<1>19. CASE VerifyNetwork
  BY <1>19 DEF VerifyNetwork, OnFailure
<1>20. CASE RestoreIntent
  BY <1>20 DEF RestoreIntent, OnFailure
<1>21. CASE Prove
  BY <1>21 DEF Prove, OnFailure
<1>22. CASE RemoveCandidate
  <2>1. unsynced' \in BOOLEAN
    BY Zenon, <1>22 DEF RemoveCandidate, Onward, Changed
  <2> QED BY <1>22, <2>1 DEF RemoveCandidate, At, Onward, Changed, GoTo, process
<1>23. CASE RemoveJournal
  <2>1. unsynced' \in BOOLEAN
    BY Zenon, <1>23 DEF RemoveJournal, Onward, Changed
  <2> QED BY <1>23, <2>1 DEF RemoveJournal, At, Onward, Changed, GoTo, process
<1>24. CASE Commit
  BY <1>24 DEF Commit
<1>25. CASE EnsureIntent
  BY <1>25 DEF EnsureIntent, OnFailure
<1>26. CASE Bookkeeping
  BY <1>26 DEF Bookkeeping
<1>27. CASE MarkFinalizing
  BY <1>27 DEF MarkFinalizing
<1>28. CASE RemoveSafety
  BY <1>28 DEF RemoveSafety
<1>29. CASE ExcludeAgain
  BY <1>29 DEF ExcludeAgain
<1>30. CASE EnterRollback
  BY <1>30 DEF EnterRollback, OnFailure
<1>31. CASE RollbackCheckpoint
  BY <1>31 DEF RollbackCheckpoint, AfterRollbackCheckpoint, OnFailure
<1>32. CASE InstallBackup
  BY <1>32 DEF InstallBackup
<1>33. CASE CleanupGate
  BY <1>33 DEF CleanupGate
<1>34. CASE ContainAndExit
  BY <1>34 DEF ContainAndExit
<1>35. CASE StartReconcile
  BY <1>35 DEF StartReconcile
<1>36. CASE ReconcileContain
  BY <1>36 DEF ReconcileContain, OnFailure
<1>37. CASE RebarrierPending
  BY <1>37 DEF RebarrierPending
<1>38. CASE Classify
  BY <1>38 DEF Classify, OnFailure
<1>39. CASE Sync
  <2>1. unsynced' \in BOOLEAN
    BY Zenon, <1>39 DEF Sync
  <2> QED BY <1>39, <2>1 DEF Sync, Return, GoTo, process
<1>40. CASE StepFails
  <2>1. unsynced' \in BOOLEAN /\ ~unsynced'
    BY Zenon, <1>40 DEF StepFails
  <2> QED BY <1>40, <2>1 DEF StepFails, Fail, OnFailure, Return
<1>41. CASE Kill
  <2>1. unsynced' \in BOOLEAN
    BY Zenon, <1>41 DEF Kill
  <2> QED BY <1>41, <2>1 DEF Kill, Return
<1>42. CASE PowerLoss
  <2>1. unsynced' \in BOOLEAN
    BY Zenon, <1>42 DEF PowerLoss
  <2> QED BY <1>42, <2>1 DEF PowerLoss, Return
<1>43. CASE \E c \in Containers : OutsideStart(c)
  BY <1>43 DEF OutsideStart
<1>44. CASE \E c \in Containers : OutsideReplace(c)
  BY <1>44 DEF OutsideReplace
<1>45. CASE \E p \in Profiles : ExpireExclusion(p)
  BY <1>45 DEF ExpireExclusion
<1>46. CASE Writeback
  BY <1>46 DEF Writeback
<1> QED BY <1>1, <1>2, <1>3, <1>4, <1>5, <1>6, <1>7, <1>8, <1>9, <1>10, <1>11, <1>12,
    <1>13, <1>14, <1>15, <1>16, <1>17, <1>18, <1>19, <1>20, <1>21, <1>22, <1>23, <1>24,
    <1>25, <1>26, <1>27, <1>28, <1>29, <1>30, <1>31, <1>32, <1>33, <1>34, <1>35, <1>36,
    <1>37, <1>38, <1>39, <1>40, <1>41, <1>42, <1>43, <1>44, <1>45, <1>46
    DEF Next, Program, Staging, Forward, Finalize, Rollback, Reconcile, Crash, Outside

\* Every step keeps the types of the client, the snapshot and the ledger,
\* and the program never removes the configured container.
LEMMA WorldTypes ==
  ASSUME FilesTypeOK, WorldTypeOK, ConfiguredExists, StagingControl, ForwardControl,
      Next
  PROVE  WorldTypeOK' /\ ConfiguredExists'
<1> USE ConstantsAssumption DEF FilesTypeOK, WorldTypeOK, ConfiguredExists, Intents,
    Put, Barrier, Images, At, GoTo, Onward, Changed, Return, Fail, ContainAndFail,
    process, client, ledger, budgets, NoSnapshot
<1>1. CASE Start
  <2>1. outside' \in BOOLEAN
    BY Zenon, <1>1 DEF Start
  <2> QED BY <1>1, <2>1 DEF Start, At, GoTo, process, client, ledger
<1>2. CASE HealthyCheck
  BY <1>2 DEF HealthyCheck
<1>3. CASE CleanOrphan
  BY <1>3 DEF CleanOrphan
<1>4. CASE OpenCandidate
  BY <1>4 DEF OpenCandidate
<1>5. CASE GenerateCandidate
  BY <1>5 DEF GenerateCandidate
<1>6. CASE StageStatic
  BY <1>6 DEF StageStatic
<1>7. CASE DropCandidate
  BY <1>7 DEF DropCandidate
<1>8. CASE TakeSnapshot
  BY <1>8 DEF TakeSnapshot
<1>9. CASE PrepareBackup
  BY <1>9 DEF PrepareBackup
<1>10. CASE PreexcludeCandidate
  <2>1. fs["candidate"] \in Profiles
    BY <1>10 DEF PreexcludeCandidate, At, StagingControl, Staged
  <2> QED BY <1>10, <2>1 DEF PreexcludeCandidate, GoTo, process, client, budgets
<1>11. CASE PrepareSafety
  <2>1. published' \in BOOLEAN
    BY Zenon, <1>11 DEF PrepareSafety
  <2> QED BY <1>11, <2>1 DEF PrepareSafety, Changed, client, process, budgets
<1>12. CASE PrepareJournal
  BY <1>12 DEF PrepareJournal
<1>13. CASE StopClient
  BY <1>13 DEF StopClient, Intent, Recorded
<1>14. CASE Checkpoint
  BY <1>14 DEF Checkpoint, TupleMatches, Recorded, Intent, Contained, Targets
<1>15. CASE JournalTransition
  BY <1>15 DEF JournalTransition
<1>16. CASE InterfaceDown
  BY <1>16 DEF InterfaceDown
<1>17. CASE InstallCandidate
  BY <1>17 DEF InstallCandidate
<1>18. CASE InterfaceUp
  <2>1. fs["active"] \in Profiles
    BY DEF File
  <2> QED BY <1>18, <2>1 DEF InterfaceUp, GoTo, process, client, ledger, budgets
<1>19. CASE VerifyNetwork
  BY <1>19 DEF VerifyNetwork
<1>20. CASE RestoreIntent
  BY <1>20 DEF RestoreIntent, TupleMatches, Recorded, Intent, Contained, Targets
<1>21. CASE Prove
  BY <1>21 DEF Prove, IntentHolds, TupleMatches, Recorded, Intent, Contained, Targets
<1>22. CASE RemoveCandidate
  BY <1>22 DEF RemoveCandidate
<1>23. CASE RemoveJournal
  BY <1>23 DEF RemoveJournal
<1>24. CASE Commit
  BY <1>24 DEF Commit
<1>25. CASE EnsureIntent
  BY <1>25 DEF EnsureIntent, TupleMatches, Recorded, Intent, IntentHolds, Contained,
        Targets
<1>26. CASE Bookkeeping
  BY <1>26 DEF Bookkeeping
<1>27. CASE MarkFinalizing
  BY <1>27 DEF MarkFinalizing
<1>28. CASE RemoveSafety
  BY <1>28 DEF RemoveSafety
<1>29. CASE ExcludeAgain
  <2>1. Pending
    BY <1>29 DEF ExcludeAgain, At, ForwardControl, Owned
  <2>2. fs["safety"].candidate \in Profiles
    BY <2>1 DEF Pending, File, SafetyRecord
  <2> QED BY <1>29, <2>2 DEF ExcludeAgain, GoTo, process, client, budgets
<1>30. CASE EnterRollback
  BY <1>30 DEF EnterRollback, Contained, Targets, Recorded
<1>31. CASE RollbackCheckpoint
  BY <1>31 DEF RollbackCheckpoint, Targets, Recorded, Contained
<1>32. CASE InstallBackup
  BY <1>32 DEF InstallBackup
<1>33. CASE CleanupGate
  BY <1>33 DEF CleanupGate
<1>34. CASE ContainAndExit
  BY <1>34 DEF ContainAndExit, Contained, Targets, Recorded
<1>35. CASE StartReconcile
  <2>1. fs["safety"] \in SafetyRecord
    BY <1>35 DEF StartReconcile, File
  <2> QED BY <1>35, <2>1 DEF StartReconcile, SafetyRecord, client, ledger, budgets
<1>36. CASE ReconcileContain
  BY <1>36 DEF ReconcileContain, Contained, Targets, Recorded
<1>37. CASE RebarrierPending
  BY <1>37 DEF RebarrierPending, File
<1>38. CASE Classify
  BY <1>38 DEF Classify
<1>39. CASE Sync
  BY <1>39 DEF Sync, File
<1>40. CASE StepFails
  BY <1>40 DEF StepFails, Contained, Targets, Recorded
<1>41. CASE Kill
  BY <1>41 DEF Kill
<1>42. CASE PowerLoss
  <2>1. published' \in BOOLEAN /\ outside' \in BOOLEAN
    BY Zenon, <1>42 DEF PowerLoss
  <2>2. fs'["active"] \in Profiles
    BY <1>42 DEF PowerLoss, Images
  <2> QED BY <1>42, <2>1, <2>2 DEF PowerLoss, Return, NoSnapshot, client
<1>43. CASE \E c \in Containers : OutsideStart(c)
  BY <1>43 DEF OutsideStart
<1>44. CASE \E c \in Containers : OutsideReplace(c)
  BY <1>44 DEF OutsideReplace
<1>45. CASE \E p \in Profiles : ExpireExclusion(p)
  BY <1>45 DEF ExpireExclusion
<1>46. CASE Writeback
  BY <1>46 DEF Writeback, File
<1> QED BY <1>1, <1>2, <1>3, <1>4, <1>5, <1>6, <1>7, <1>8, <1>9, <1>10, <1>11, <1>12,
    <1>13, <1>14, <1>15, <1>16, <1>17, <1>18, <1>19, <1>20, <1>21, <1>22, <1>23, <1>24,
    <1>25, <1>26, <1>27, <1>28, <1>29, <1>30, <1>31, <1>32, <1>33, <1>34, <1>35, <1>36,
    <1>37, <1>38, <1>39, <1>40, <1>41, <1>42, <1>43, <1>44, <1>45, <1>46
    DEF Next, Program, Staging, Forward, Finalize, Rollback, Reconcile, Crash, Outside

(* ---------------------------- the directory ---------------------------- *)

\* The actions that touch the directory.
FileStep ==
  \/ CleanOrphan \/ OpenCandidate \/ GenerateCandidate \/ StageStatic
  \/ DropCandidate \/ PrepareBackup \/ PrepareSafety \/ PrepareJournal
  \/ JournalTransition \/ InstallCandidate \/ RemoveCandidate \/ RemoveJournal
  \/ Commit \/ MarkFinalizing \/ RemoveSafety \/ InstallBackup
  \/ Sync \/ RebarrierPending \/ Writeback \/ PowerLoss

\* All other actions leave the directory as it is.
LEMMA QuietSteps ==
  ASSUME Next
  PROVE  FileStep \/ UNCHANGED files
<1>1. CASE Start
  BY <1>1 DEF Start, files
<1>2. CASE HealthyCheck
  BY <1>2 DEF HealthyCheck, files
<1>3. CASE TakeSnapshot
  BY <1>3 DEF TakeSnapshot, files
<1>4. CASE PreexcludeCandidate
  BY <1>4 DEF PreexcludeCandidate, files
<1>5. CASE StopClient
  BY <1>5 DEF StopClient, files
<1>6. CASE Checkpoint
  BY <1>6 DEF Checkpoint, Onward, files, ContainAndFail
<1>7. CASE InterfaceDown
  BY <1>7 DEF InterfaceDown, files
<1>8. CASE InterfaceUp
  BY <1>8 DEF InterfaceUp, files
<1>9. CASE VerifyNetwork
  BY <1>9 DEF VerifyNetwork, Onward, files
<1>10. CASE RestoreIntent
  BY <1>10 DEF RestoreIntent, files, ContainAndFail
<1>11. CASE Prove
  BY <1>11 DEF Prove, Onward, files, ContainAndFail
<1>12. CASE EnsureIntent
  BY <1>12 DEF EnsureIntent, files, ContainAndFail
<1>13. CASE Bookkeeping
  BY <1>13 DEF Bookkeeping, files
<1>14. CASE ExcludeAgain
  BY <1>14 DEF ExcludeAgain, files
<1>15. CASE EnterRollback
  BY <1>15 DEF EnterRollback, files
<1>16. CASE RollbackCheckpoint
  BY <1>16 DEF RollbackCheckpoint, Onward, files, ContainAndFail
<1>17. CASE CleanupGate
  BY <1>17 DEF CleanupGate, Onward, files
<1>18. CASE ContainAndExit
  BY <1>18 DEF ContainAndExit, files
<1>19. CASE StartReconcile
  BY <1>19 DEF StartReconcile, files
<1>20. CASE ReconcileContain
  BY <1>20 DEF ReconcileContain, files
<1>21. CASE Classify
  BY <1>21 DEF Classify, files
<1>22. CASE StepFails
  BY <1>22 DEF StepFails, files
<1>23. CASE Kill
  BY <1>23 DEF Kill, files
<1>24. CASE \E c \in Containers : OutsideStart(c)
  BY <1>24 DEF OutsideStart, files
<1>25. CASE \E c \in Containers : OutsideReplace(c)
  BY <1>25 DEF OutsideReplace, files
<1>26. CASE \E p \in Profiles : ExpireExclusion(p)
  BY <1>26 DEF ExpireExclusion, files
<1>27. CASE FileStep
  BY <1>27
<1> QED BY <1>1, <1>2, <1>3, <1>4, <1>5, <1>6, <1>7, <1>8, <1>9, <1>10, <1>11, <1>12,
    <1>13, <1>14, <1>15, <1>16, <1>17, <1>18, <1>19, <1>20, <1>21, <1>22, <1>23, <1>24,
    <1>25, <1>26, <1>27 DEF Next, Program, Staging, Forward,
    Finalize, Rollback, Reconcile, Crash, Outside, FileStep

\* Rewriting the phase of a journal keeps its profiles.
LEMMA JournalUpdate ==
  ASSUME NEW j \in JournalRecord, NEW phase \in Phases
  PROVE  LET n == [j EXCEPT !.phase = phase]
         IN /\ n \in JournalRecord /\ n.phase = phase
            /\ n.backup = j.backup /\ n.candidate = j.candidate
  BY DEF JournalRecord

\* Rewriting the state of a safety record keeps its profiles.
LEMMA SafetyUpdate ==
  ASSUME NEW s \in SafetyRecord, NEW state \in {"pending", "committed", "finalizing"}
  PROVE  LET n == [s EXCEPT !.state = state]
         IN /\ n \in SafetyRecord /\ n # None /\ n.state = state
            /\ n.backup = s.backup /\ n.candidate = s.candidate
  BY ConstantsAssumption DEF SafetyRecord

\* What a step under a durable pending record can rely on.
LEMMA OwnerFacts ==
  ASSUME FilesTypeOK, Agreement, ForwardControl, Owned
  PROVE  /\ fs["safety"] \in SafetyRecord /\ fs["safety"].state = "pending"
         /\ disk["safety"] = {fs["safety"]} /\ Fits(fs["safety"], disk)
         /\ fs["safety"].backup \in Profiles /\ fs["safety"].candidate \in Profiles
         /\ fs["backup"] = fs["safety"].backup
<1>1. Pending /\ disk["safety"] = {fs["safety"]}
  BY DEF ForwardControl
<1>2. fs["safety"] \in SafetyRecord
  BY <1>1 DEF FilesTypeOK, Pending, File
<1>3. Fits(fs["safety"], disk)
  BY <1>1 DEF Agreement, Pending
<1> QED BY <1>1, <1>2, <1>3 DEF Pending, Fits, SafetyRecord, FilesTypeOK, File

\* ... and one that still has its candidate file.
LEMMA CandidateFacts ==
  ASSUME FilesTypeOK, Agreement, ForwardControl, Owned, Present
  PROVE  fs["candidate"] = fs["safety"].candidate
<1>1. disk["candidate"] = {fs["safety"].candidate}
  BY DEF ForwardControl
<1> QED BY <1>1 DEF FilesTypeOK, File

\* The record that opens a switch is well formed, from two different profiles.
LEMMA NewRecord ==
  ASSUME FilesTypeOK, WorldTypeOK, StagingControl, PrepareSafety
  PROVE  [state |-> "pending", backup |-> fs["backup"], candidate |-> fs["candidate"],
          intent |-> snapshot.intent, id |-> snapshot.id] \in SafetyRecord
<1>1. fs["active"] \in Profiles
  BY DEF FilesTypeOK, File
<1>2. fs["backup"] \in Profiles /\ fs["candidate"] \in Profiles
  BY <1>1 DEF PrepareSafety, At, StagingControl, Staged
<1> QED BY <1>2 DEF SafetyRecord, WorldTypeOK

\* Every step that touches the directory writes well-formed contents.
LEMMA FileTypes ==
  ASSUME FilesTypeOK, WorldTypeOK, Agreement, Unowned, PhaseGap, StagingControl,
      ForwardControl, RecoveryControl, FileStep
  PROVE  FilesTypeOK'
<1> USE ConstantsAssumption DEF FilesTypeOK, File, Put, Barrier, Images, At, Onward,
    Changed, Return, files
<1>1. CASE CleanOrphan
  BY <1>1 DEF CleanOrphan
<1>2. CASE OpenCandidate
  BY <1>2 DEF OpenCandidate
<1>3. CASE GenerateCandidate
  BY <1>3 DEF GenerateCandidate
<1>4. CASE StageStatic
  BY <1>4 DEF StageStatic
<1>5. CASE DropCandidate
  BY <1>5 DEF DropCandidate
<1>6. CASE PrepareBackup
  BY <1>6 DEF PrepareBackup
<1>7. CASE PrepareSafety
  <2> DEFINE record == [state |-> "pending", backup |-> fs["backup"],
                        candidate |-> fs["candidate"],
                        intent |-> snapshot.intent, id |-> snapshot.id]
  <2>2. record \in SafetyRecord
    BY <1>7, NewRecord
  <2>3. Put("safety", record)
    BY <1>7 DEF PrepareSafety, Changed
  <2> HIDE DEF record
  <2> QED BY <2>2, <2>3 DEF Put
<1>8. CASE PrepareJournal
  <2> DEFINE record == [phase |-> "prepared", backup |-> fs["backup"],
                        candidate |-> fs["candidate"]]
  <2>1. Owned /\ Present
    BY <1>8 DEF PrepareJournal, At, Owned, Present
  <2>2. record \in JournalRecord
    BY <2>1, OwnerFacts, CandidateFacts DEF JournalRecord, Phases
  <2>3. Put("journal", record)
    BY <1>8 DEF PrepareJournal, Changed
  <2> HIDE DEF record
  <2> QED BY <2>2, <2>3 DEF Put
<1>9. CASE JournalTransition
  <2> DEFINE new == [fs["journal"] EXCEPT !.phase = JournalSteps[pc].to]
  <2>1. fs["journal"] \in JournalRecord /\ JournalSteps[pc].to \in Phases
    BY <1>9 DEF JournalTransition, JournalSteps, Phases
  <2>2. new \in JournalRecord
    BY <2>1, JournalUpdate
  <2>3. Put("journal", new)
    BY <1>9 DEF JournalTransition, Changed
  <2> HIDE DEF new
  <2> QED BY <2>2, <2>3 DEF Put
<1>10. CASE InstallCandidate
  <2>1. Owned /\ Present
    BY <1>10 DEF InstallCandidate, At, Owned, Present, CandidateAborts
  <2>2. fs["candidate"] \in Profiles
    BY <2>1, OwnerFacts, CandidateFacts
  <2> QED BY <1>10, <2>2 DEF InstallCandidate, Changed, Put
<1>11. CASE RemoveCandidate
  BY <1>11 DEF RemoveCandidate
<1>12. CASE RemoveJournal
  BY <1>12 DEF RemoveJournal
<1>13. CASE Commit
  <2> DEFINE new == [fs["safety"] EXCEPT !.state = "committed"]
  <2>1. Owned
    BY <1>13 DEF Commit, At, Owned
  <2>2. new \in SafetyRecord
    BY <2>1, OwnerFacts, SafetyUpdate
  <2>3. Put("safety", new)
    BY <1>13 DEF Commit, Changed
  <2> HIDE DEF new
  <2> QED BY <2>2, <2>3 DEF Put
<1>14. CASE MarkFinalizing
  <2> DEFINE new == [fs["safety"] EXCEPT !.state = "finalizing"]
  <2>1. fs["safety"] \in SafetyRecord
    BY <1>14 DEF MarkFinalizing, At, RecoveryControl, FinalizeSteps, Committed
  <2>2. new \in SafetyRecord
    BY <2>1, SafetyUpdate
  <2>3. Put("safety", new)
    BY <1>14 DEF MarkFinalizing, Changed
  <2> HIDE DEF new
  <2> QED BY <2>2, <2>3 DEF Put
<1>15. CASE RemoveSafety
  BY <1>15 DEF RemoveSafety
<1>16. CASE InstallBackup
  <2>1. Owned
    BY <1>16 DEF InstallBackup, At, Owned, RollbackSteps
  <2>2. fs["backup"] \in Profiles
    BY <2>1, OwnerFacts
  <2> QED BY <1>16, <2>2 DEF InstallBackup, Changed, Put
<1>17. CASE Sync
  BY <1>17 DEF Sync
<1>18. CASE RebarrierPending
  BY <1>18 DEF RebarrierPending
<1>19. CASE Writeback
  BY <1>19 DEF Writeback
<1>20. CASE PowerLoss
  BY <1>20 DEF PowerLoss
<1> QED BY <1>1, <1>2, <1>3, <1>4, <1>5, <1>6, <1>7, <1>8, <1>9, <1>10, <1>11, <1>12,
    <1>13, <1>14, <1>15, <1>16, <1>17, <1>18, <1>19, <1>20 DEF FileStep

\* The part of the invariant that speaks of the directory alone.
FilesFit == Agreement /\ Unowned /\ PhaseGap

\* With neither a safety record nor a journal there is nothing to contradict.
LEMMA NothingOwned ==
  ASSUME disk'["safety"] = {None}, disk'["journal"] = {None}
  PROVE  FilesFit'
  BY DEF FilesFit, Agreement, Unowned, PhaseGap

\* Under one certain record, it suffices that everything fits that record.
LEMMA OneOwner ==
  ASSUME \E s : s # None /\ disk'["safety"] = {s} /\ Fits(s, disk'),
         PhaseGap'
  PROVE  FilesFit'
  BY DEF FilesFit, Agreement, Unowned

\* Whatever makes fewer contents possible keeps the rest fitting.
LEMMA FewerImages ==
  ASSUME \A f \in File : disk'[f] \subseteq disk[f] /\ disk'[f] # {}, FilesFit
  PROVE  FilesFit'
<1>1. Agreement'
  BY DEF File, FilesFit, Agreement, Fits
<1>2. Unowned'
  <2>1. disk'["journal"] \subseteq disk["journal"] /\ disk'["journal"] # {}
    BY DEF File
  <2>2. disk'["safety"] \subseteq disk["safety"]
    BY DEF File
  <2> QED BY <2>1, <2>2 DEF FilesFit, Unowned
<1>3. PhaseGap'
  BY DEF File, FilesFit, PhaseGap
<1> QED BY <1>1, <1>2, <1>3 DEF FilesFit

\* A step that owns the switch and changes another file than its record.
LEMMA OwnedPut ==
  ASSUME FilesTypeOK, FilesFit, ForwardControl, Owned,
         NEW f \in {"active", "candidate", "journal"}, NEW c, Put(f, c),
         f = "active" => c \in {fs["safety"].backup, fs["safety"].candidate},
         f = "candidate" => c = None,
         f = "journal" => \/ c = None
                          \/ /\ c.backup = fs["safety"].backup
                             /\ c.candidate = fs["safety"].candidate,
         PhaseGap'
  PROVE  FilesFit'
<1> DEFINE s == fs["safety"]
<1>1. /\ s # None /\ s.state = "pending" /\ disk["safety"] = {s} /\ Fits(s, disk)
  BY OwnerFacts, ConstantsAssumption DEF FilesFit
<1>2. /\ disk'[f] = disk[f] \cup {c}
      /\ \A g \in File \ {f} : disk'[g] = disk[g]
  BY DEF Put, FilesTypeOK, File
<1>3. disk'["safety"] = {s}
  BY <1>1, <1>2 DEF File
<1>4. Fits(s, disk')
  BY <1>1, <1>2 DEF Fits, File
<1> QED BY <1>1, <1>3, <1>4, OneOwner

\* While every image holds the candidate, no phase can lag behind.
LEMMA StillPresent ==
  ASSUME FilesTypeOK, FilesFit, ForwardControl, Owned, Present,
         NEW f \in {"active", "journal"}, NEW c, Put(f, c)
  PROVE  PhaseGap'
<1>1. disk["candidate"] = {fs["safety"].candidate} /\ fs["safety"].candidate # None
  BY OwnerFacts, ConstantsAssumption DEF ForwardControl, FilesFit
<1>2. disk'["candidate"] = disk["candidate"]
  BY DEF Put, FilesTypeOK, File
<1> QED BY <1>1, <1>2 DEF PhaseGap

\* No step makes a contradiction between two files possible.
LEMMA FilesStep ==
  ASSUME TypeOK, FilesFit, StagingControl, ForwardControl, RecoveryControl, FileStep
  PROVE  FilesFit'
<1> DEFINE s == fs["safety"]
<1> USE DEF TypeOK
<1>0. DOMAIN disk = File /\ DOMAIN fs = File
  BY DEF FilesTypeOK
<1>1. CASE NoOwner /\ (CleanOrphan \/ OpenCandidate \/ GenerateCandidate \/ StageStatic
                         \/ DropCandidate \/ PrepareBackup)
  <2>1. disk["safety"] = {None} /\ disk["journal"] = {None}
    BY <1>1 DEF StagingControl
  <2>2. disk'["safety"] = disk["safety"] /\ disk'["journal"] = disk["journal"]
    <3>1. UNCHANGED files \/ \E f \in {"candidate", "backup"} : \E c : Put(f, c)
      BY <1>1 DEF CleanOrphan, OpenCandidate, GenerateCandidate, StageStatic,
         DropCandidate, PrepareBackup, Onward, Changed
    <3> QED BY <1>0, <3>1 DEF Put, files, File
  <2> QED BY <2>1, <2>2, NothingOwned
<1>2. CASE PrepareSafety
  <2> DEFINE record == [state |-> "pending", backup |-> fs["backup"],
                        candidate |-> fs["candidate"],
                        intent |-> snapshot.intent, id |-> snapshot.id]
  <2>1. /\ disk["safety"] = {None} /\ disk["journal"] = {None}
        /\ disk["active"] = {fs["active"]} /\ disk["candidate"] = {fs["candidate"]}
        /\ disk["backup"] = {fs["backup"]} /\ fs["backup"] = fs["active"]
        /\ fs["candidate"] # fs["active"]
    BY <1>2 DEF PrepareSafety, At, StagingControl, NoOwner, Staged
  <2>2. Put("safety", record)
    BY <1>2 DEF PrepareSafety, Changed
  <2>3. /\ disk'["safety"] = {None, record} /\ disk'["journal"] = {None}
        /\ disk'["active"] = {fs["active"]} /\ disk'["candidate"] = {fs["candidate"]}
        /\ disk'["backup"] = {fs["backup"]}
    <3> HIDE DEF record
    <3> QED BY <1>0, <2>1, <2>2 DEF Put, File
  <2>4. Fits(record, disk')
    BY <2>1, <2>3 DEF Fits
  <2>5. Agreement' /\ Unowned' /\ PhaseGap'
    <3> HIDE DEF record
    <3> QED BY <2>3, <2>4 DEF Agreement, Unowned, PhaseGap
  <2> QED BY <2>5 DEF FilesFit
<1>3. CASE PrepareJournal
  <2> DEFINE record == [phase |-> "prepared", backup |-> fs["backup"],
                        candidate |-> fs["candidate"]]
  <2>1. Owned /\ Present
    BY <1>3 DEF PrepareJournal, At, Owned, Present
  <2>2. record.backup = s.backup /\ record.candidate = s.candidate
    BY <2>1, OwnerFacts, CandidateFacts DEF FilesFit
  <2>3. Put("journal", record)
    BY <1>3 DEF PrepareJournal, Changed
  <2> HIDE DEF record
  <2> QED BY <2>1, <2>2, <2>3, OwnedPut, StillPresent
<1>4. CASE JournalTransition
  <2> DEFINE new == [fs["journal"] EXCEPT !.phase = JournalSteps[pc].to]
  <2>1. Owned /\ Present
    BY <1>4
      DEF JournalTransition, JournalSteps, Owned, Present, PlainAborts, CandidateAborts
  <2>2. Put("journal", new)
    BY <1>4 DEF JournalTransition, Changed
  <2>3. fs["journal"] # None /\ fs["journal"] \in disk["journal"]
        /\ fs["journal"] \in JournalRecord /\ JournalSteps[pc].to \in Phases
    BY <1>4 DEF JournalTransition, JournalSteps, Phases, FilesTypeOK, File
  <2>4. new.backup = s.backup /\ new.candidate = s.candidate
    BY <2>1, <2>3, OwnerFacts, JournalUpdate DEF Fits, FilesFit
  <2> HIDE DEF new
  <2> QED BY <2>1, <2>2, <2>4, OwnedPut, StillPresent
<1>5. CASE InstallCandidate
  <2>1. Owned /\ Present
    BY <1>5 DEF InstallCandidate, At, Owned, Present, CandidateAborts
  <2>2. Put("active", s.candidate)
    BY <1>5, <2>1, CandidateFacts DEF InstallCandidate, Changed, FilesFit
  <2> QED BY <2>1, <2>2, OwnedPut, StillPresent
<1>6. CASE RemoveCandidate /\ ~UNCHANGED files
  <2>1. Owned
    BY <1>6 DEF RemoveCandidate, Owned, PlainAborts, RollbackSteps
  <2>2. Put("candidate", None)
    BY <1>6 DEF RemoveCandidate, Onward, Changed
  <2>3. PhaseGap'
    <3>1. disk'["journal"] = disk["journal"] /\ disk'["active"] = disk["active"]
      BY <1>0, <2>2 DEF Put, File
    <3>2. CASE pc = "remove_candidate"
      BY <3>1, <3>2 DEF ForwardControl, PhaseGap
    <3>3. CASE pc = "rb_remove_candidate"
      <4>1. disk["active"] = {s.backup}
        BY <3>3 DEF RecoveryControl, Restored, RollbackSteps
      <4> QED BY <2>1, <3>1, <4>1, OwnerFacts DEF Fits, PhaseGap, FilesFit
    <3> QED BY <1>6, <3>2, <3>3 DEF RemoveCandidate
  <2> QED BY <2>1, <2>2, <2>3, OwnedPut
<1>7. CASE RemoveJournal /\ ~UNCHANGED files
  <2>1. Owned
    BY <1>7 DEF RemoveJournal, Owned, PlainAborts, RollbackSteps
  <2>2. Put("journal", None)
    BY <1>7 DEF RemoveJournal, Onward, Changed
  <2>3. PhaseGap'
    BY <1>0, <2>2 DEF Put, File, PhaseGap, FilesFit
  <2> QED BY <2>1, <2>2, <2>3, OwnedPut
<1>8. CASE InstallBackup
  <2>1. Owned
    BY <1>8 DEF InstallBackup, At, Owned, RollbackSteps
  <2>2. Put("active", s.backup)
    BY <1>8, <2>1, OwnerFacts DEF InstallBackup, Changed, FilesFit
  <2>3. /\ disk'["active"] = disk["active"] \cup {s.backup}
        /\ disk'["journal"] = disk["journal"] /\ disk'["candidate"] = disk["candidate"]
    BY <1>0, <2>2 DEF Put, File
  <2>4. PhaseGap'
    BY <2>1, <2>3, OwnerFacts DEF Fits, PhaseGap, FilesFit
  <2> QED BY <2>1, <2>2, <2>4, OwnedPut
<1>9. CASE Commit
  <2> DEFINE new == [s EXCEPT !.state = "committed"]
  <2>1. Owned
    BY <1>9 DEF Commit, At, Owned
  <2>2. Put("safety", new)
    BY <1>9 DEF Commit, Changed
  <2>3. /\ new # None /\ new.state # "pending"
        /\ new.backup = s.backup /\ new.candidate = s.candidate
    BY <2>1, OwnerFacts, SafetyUpdate DEF FilesFit
  <2>4. /\ disk["candidate"] = {None} /\ disk["active"] = {s.candidate}
        /\ disk["journal"] = {None}
    BY <1>9 DEF Commit, At, ForwardControl, JournalGone
  <2> HIDE DEF new
  <2>5. /\ disk'["safety"] = {s, new}
        /\ \A f \in File \ {"safety"} : disk'[f] = disk[f]
    BY <1>0, <2>1, <2>2, OwnerFacts DEF Put, File, FilesFit
  <2>6. Fits(s, disk') /\ Fits(new, disk')
    BY <2>1, <2>3, <2>4, <2>5, OwnerFacts DEF Fits, File, FilesFit
  <2>7. Agreement' /\ Unowned' /\ PhaseGap'
    BY <2>1, <2>3, <2>4, <2>5, <2>6, OwnerFacts
      DEF Agreement, Unowned, PhaseGap, File, FilesFit
  <2> QED BY <2>7 DEF FilesFit
<1>10. CASE MarkFinalizing
  <2> DEFINE new == [s EXCEPT !.state = "finalizing"]
  <2>1. s \in disk["safety"] /\ s \in SafetyRecord /\ s # None /\ s.state # "pending"
    BY <1>10 DEF MarkFinalizing, At, RecoveryControl, FinalizeSteps, Committed,
       FilesTypeOK, File
  <2>2. Put("safety", new)
    BY <1>10 DEF MarkFinalizing, Changed
  <2>3. /\ new # None /\ new.state # "pending"
        /\ new.backup = s.backup /\ new.candidate = s.candidate
    BY <2>1, SafetyUpdate
  <2> HIDE DEF new
  <2>4. /\ disk'["safety"] = disk["safety"] \cup {new}
        /\ \A f \in File \ {"safety"} : disk'[f] = disk[f]
    BY <1>0, <2>2 DEF Put, File
  <2>5. Fits(s, disk)
    BY <2>1 DEF FilesFit, Agreement
  <2>6. Agreement'
    BY <2>1, <2>3, <2>4, <2>5 DEF Fits, File, FilesFit, Agreement
  <2>7. Unowned' /\ PhaseGap'
    BY <2>3, <2>4 DEF Unowned, PhaseGap, File, FilesFit
  <2> QED BY <2>6, <2>7 DEF FilesFit
<1>11. CASE RemoveSafety
  <2>1. Put("safety", None)
    BY <1>11 DEF RemoveSafety, Changed
  <2>2. /\ disk'["safety"] = disk["safety"] \cup {None}
        /\ \A f \in File \ {"safety"} : disk'[f] = disk[f]
    BY <1>0, <2>1 DEF Put, File
  <2>3. disk["journal"] = {None}
    <3>1. CASE pc = "rb_remove_safety"
      BY <1>11, <3>1 DEF RemoveSafety, ForwardControl, JournalGone
    <3>2. CASE pc = "remove_safety"
      <4>1. Committed
        BY <1>11, <3>2 DEF RemoveSafety, RecoveryControl
      <4>2. Fits(s, disk) /\ s.state # "pending"
        BY <4>1 DEF Committed, FilesFit, Agreement, FilesTypeOK, File
      <4>3. fs["journal"] \in disk["journal"]
        BY DEF FilesTypeOK, File
      <4> QED BY <4>2, <4>3 DEF Fits
    <3> QED BY <1>11, <3>1, <3>2 DEF RemoveSafety
  <2>4. Agreement' /\ Unowned' /\ PhaseGap'
    BY <2>2, <2>3 DEF Fits, File, FilesFit, Agreement, Unowned, PhaseGap
  <2> QED BY <2>4 DEF FilesFit
<1>12. CASE Sync \/ RebarrierPending \/ Writeback
  <2>1. Barrier
    BY <1>12 DEF Sync, RebarrierPending, Writeback
  <2>2. \A f \in File : disk'[f] \subseteq disk[f] /\ disk'[f] # {}
    BY <2>1 DEF Barrier, FilesTypeOK
  <2> QED BY <2>2, FewerImages
<1>13. CASE PowerLoss
  <2>1. \A f \in File : disk'[f] \subseteq disk[f] /\ disk'[f] # {}
    BY <1>13 DEF PowerLoss, Images, File
  <2> QED BY <2>1, FewerImages
<1>14. CASE UNCHANGED files
  BY <1>14 DEF files, FilesFit, Agreement, Fits, Unowned, PhaseGap
<1>15. NoOwner \/ ~(CleanOrphan \/ OpenCandidate \/ GenerateCandidate \/ StageStatic
                      \/ DropCandidate \/ PrepareBackup)
  BY DEF NoOwner, StagingSteps, CleanOrphan, OpenCandidate, GenerateCandidate, StageStatic,
     DropCandidate, PrepareBackup, At
<1> QED BY <1>1, <1>2, <1>3, <1>4, <1>5, <1>6, <1>7, <1>8, <1>9, <1>10, <1>11, <1>12, <1>13,
           <1>14, <1>15 DEF FileStep

(* ------------------------------- control ------------------------------- *)

\* What a staging process knows of the directory holds after every step.
LEMMA StagingStep ==
  ASSUME WritebackBeforeStart, IInv, Next
  PROVE  StagingControl'
<1> USE ConstantsAssumption DEF IInv, TypeOK, FilesTypeOK, ControlTypeOK, File,
    Agreement, Unowned, PhaseGap, Fits, Pending, Committed, StagingControl,
    ForwardControl, RecoveryControl, NoOwner, Staged, Owned, Present, Restored,
    JournalGone, Steps, StagingSteps, PlainAborts, CandidateAborts, RollbackSteps,
    FinalizeSteps, ReconcileSteps, Put, Barrier, Images, At, GoTo, Onward, Changed,
    Return, Fail, ContainAndFail, process, files
<1>1. CASE Start
  BY <1>1 DEF Start
<1>2. CASE HealthyCheck
  BY <1>2 DEF HealthyCheck
<1>3. CASE CleanOrphan
  BY <1>3 DEF CleanOrphan
<1>4. CASE OpenCandidate
  BY <1>4 DEF OpenCandidate
<1>5. CASE GenerateCandidate
  BY <1>5 DEF GenerateCandidate
<1>6. CASE StageStatic
  BY <1>6 DEF StageStatic
<1>7. CASE DropCandidate
  BY <1>7 DEF DropCandidate
<1>8. CASE TakeSnapshot
  BY <1>8 DEF TakeSnapshot
<1>9. CASE PrepareBackup
  BY <1>9 DEF PrepareBackup
<1>10. CASE PreexcludeCandidate
  BY <1>10 DEF PreexcludeCandidate
<1>11. CASE PrepareSafety
  BY <1>11 DEF PrepareSafety
<1>12. CASE PrepareJournal
  BY <1>12 DEF PrepareJournal
<1>13. CASE StopClient
  BY <1>13 DEF StopClient, OnFailure
<1>14. CASE Checkpoint
  BY <1>14 DEF Checkpoint, AfterCheckpoint, OnFailure
<1>15. CASE JournalTransition
  BY <1>15 DEF JournalTransition, JournalSteps
<1>16. CASE InterfaceDown
  BY <1>16 DEF InterfaceDown
<1>17. CASE InstallCandidate
  BY <1>17 DEF InstallCandidate
<1>18. CASE InterfaceUp
  BY <1>18 DEF InterfaceUp
<1>19. CASE VerifyNetwork
  BY <1>19 DEF VerifyNetwork, OnFailure
<1>20. CASE RestoreIntent
  BY <1>20 DEF RestoreIntent, OnFailure
<1>21. CASE Prove
  BY <1>21 DEF Prove, Proven, OnFailure
<1>22. CASE RemoveCandidate
  BY <1>22 DEF RemoveCandidate, AfterSync
<1>23. CASE RemoveJournal
  BY <1>23 DEF RemoveJournal, AfterSync
<1>24. CASE Commit
  BY <1>24 DEF Commit, ArtifactsValid
<1>25. CASE EnsureIntent
  BY <1>25 DEF EnsureIntent, OnFailure
<1>26. CASE Bookkeeping
  BY <1>26 DEF Bookkeeping
<1>27. CASE MarkFinalizing
  BY <1>27 DEF MarkFinalizing
<1>28. CASE RemoveSafety
  BY <1>28 DEF RemoveSafety
<1>29. CASE ExcludeAgain
  BY <1>29 DEF ExcludeAgain
<1>30. CASE EnterRollback
  BY <1>30 DEF EnterRollback, Recoverable, ArtifactsValid, JournalMatches,
      PhaseConsistent, OnFailure
<1>31. CASE RollbackCheckpoint
  BY <1>31 DEF RollbackCheckpoint, AfterRollbackCheckpoint, OnFailure
<1>32. CASE InstallBackup
  BY <1>32 DEF InstallBackup
<1>33. CASE CleanupGate
  BY <1>33 DEF CleanupGate
<1>34. CASE ContainAndExit
  BY <1>34 DEF ContainAndExit
<1>35. CASE StartReconcile
  BY <1>35 DEF StartReconcile
<1>36. CASE ReconcileContain
  BY <1>36 DEF ReconcileContain, OnFailure
<1>37. CASE RebarrierPending
  BY <1>37 DEF RebarrierPending
<1>38. CASE Classify
  BY <1>38 DEF Classify, Recoverable, ArtifactsValid, JournalMatches,
      PhaseConsistent, OnFailure
<1>39. CASE Sync
  BY <1>39 DEF Sync, AfterSync
<1>40. CASE StepFails
  BY <1>40 DEF StepFails, AfterCheckpoint, AfterRollbackCheckpoint, OnFailure
<1>41. CASE Kill
  BY <1>41 DEF Kill
<1>42. CASE PowerLoss
  BY <1>42 DEF PowerLoss
<1>43. CASE \E c \in Containers : OutsideStart(c)
  BY <1>43 DEF OutsideStart
<1>44. CASE \E c \in Containers : OutsideReplace(c)
  BY <1>44 DEF OutsideReplace
<1>45. CASE \E p \in Profiles : ExpireExclusion(p)
  BY <1>45 DEF ExpireExclusion
<1>46. CASE Writeback
  BY <1>46 DEF Writeback
<1> QED BY <1>1, <1>2, <1>3, <1>4, <1>5, <1>6, <1>7, <1>8, <1>9, <1>10, <1>11, <1>12,
    <1>13, <1>14, <1>15, <1>16, <1>17, <1>18, <1>19, <1>20, <1>21, <1>22, <1>23, <1>24,
    <1>25, <1>26, <1>27, <1>28, <1>29, <1>30, <1>31, <1>32, <1>33, <1>34, <1>35, <1>36,
    <1>37, <1>38, <1>39, <1>40, <1>41, <1>42, <1>43, <1>44, <1>45, <1>46
    DEF Next, Program, Staging, Forward, Finalize, Rollback, Reconcile, Crash, Outside

\* What an owning process knows of the directory holds after every step.
LEMMA ForwardStep ==
  ASSUME IInv, Next
  PROVE  ForwardControl'
<1> USE ConstantsAssumption DEF IInv, TypeOK, FilesTypeOK, ControlTypeOK, File,
    Agreement, Unowned, PhaseGap, Fits, Pending, Committed, StagingControl,
    ForwardControl, RecoveryControl, NoOwner, Staged, Owned, Present, Restored,
    JournalGone, Steps, StagingSteps, PlainAborts, CandidateAborts, RollbackSteps,
    FinalizeSteps, ReconcileSteps, Put, Barrier, Images, At, GoTo, Onward, Changed,
    Return, Fail, ContainAndFail, process, files
<1>1. CASE Start
  BY <1>1 DEF Start
<1>2. CASE HealthyCheck
  BY <1>2 DEF HealthyCheck
<1>3. CASE CleanOrphan
  BY <1>3 DEF CleanOrphan
<1>4. CASE OpenCandidate
  BY <1>4 DEF OpenCandidate
<1>5. CASE GenerateCandidate
  BY <1>5 DEF GenerateCandidate
<1>6. CASE StageStatic
  BY <1>6 DEF StageStatic
<1>7. CASE DropCandidate
  BY <1>7 DEF DropCandidate
<1>8. CASE TakeSnapshot
  BY <1>8 DEF TakeSnapshot
<1>9. CASE PrepareBackup
  BY <1>9 DEF PrepareBackup
<1>10. CASE PreexcludeCandidate
  BY <1>10 DEF PreexcludeCandidate
<1>11. CASE PrepareSafety
  <2> DEFINE record == [state |-> "pending", backup |-> fs["backup"],
                        candidate |-> fs["candidate"],
                        intent |-> snapshot.intent, id |-> snapshot.id]
  <2>1. pc = "prepare_safety" /\ pc' = pc /\ unsynced' /\ Put("safety", record)
    BY <1>11 DEF PrepareSafety, At, Changed, process
  <2>2. record # None /\ record.state = "pending" /\ record.candidate = fs["candidate"]
    BY <1>11, NewRecord, ConstantsAssumption
  <2>3. disk["candidate"] = {fs["candidate"]} /\ disk["journal"] = {None}
    BY <1>11 DEF PrepareSafety, At
  <2> HIDE DEF record
  <2> QED BY <2>1, <2>2, <2>3 DEF Put
<1>12. CASE PrepareJournal
  BY <1>12 DEF PrepareJournal
<1>13. CASE StopClient
  BY <1>13 DEF StopClient, OnFailure
<1>14. CASE Checkpoint
  BY <1>14 DEF Checkpoint, AfterCheckpoint, OnFailure
<1>15. CASE JournalTransition
  <2> DEFINE new == [fs["journal"] EXCEPT !.phase = JournalSteps[pc].to]
  <2>1. pc \in DOMAIN JournalSteps /\ pc' = pc /\ unsynced' /\ Put("journal", new)
    BY <1>15 DEF JournalTransition, Changed, process
  <2>5. /\ fs["journal"] \in JournalRecord /\ JournalSteps[pc].to \in Phases
        /\ pc = "journal_verified" => JournalSteps[pc].to = "verified"
    BY <1>15 DEF JournalTransition, JournalSteps, Phases
  <2>2. new # None /\ (pc = "journal_verified" => new.phase = "verified")
    BY <2>5, ConstantsAssumption, JournalUpdate
  <2>3. pc = "journal_verified" => fs["active"] = fs["journal"].candidate
    BY <1>15 DEF JournalTransition
  <2>4. pc = "journal_verified" => fs["active"] = fs["safety"].candidate
    BY <1>15, <2>1, <2>3 DEF JournalTransition
  <2> HIDE DEF new
  <2> QED BY <2>1, <2>2, <2>4 DEF Put, JournalSteps
<1>16. CASE InterfaceDown
  BY <1>16 DEF InterfaceDown
<1>17. CASE InstallCandidate
  BY <1>17 DEF InstallCandidate
<1>18. CASE InterfaceUp
  BY <1>18 DEF InterfaceUp
<1>19. CASE VerifyNetwork
  BY <1>19 DEF VerifyNetwork, OnFailure
<1>20. CASE RestoreIntent
  <2>1. UNCHANGED files /\ UNCHANGED unsynced /\ ~unsynced
    BY <1>20 DEF RestoreIntent, ContainAndFail, AfterSync
  <2>2. CASE pc = "restore"
    BY SMTT(30), <1>20, <2>1, <2>2
      DEF RestoreIntent, ContainAndFail, Fail, OnFailure, Return, GoTo, files
  <2>3. CASE pc = "rb_restore"
    BY SMTT(30), <1>20, <2>1, <2>3
      DEF RestoreIntent, ContainAndFail, Fail, OnFailure, Return, GoTo, files
  <2> QED BY <1>20, <2>2, <2>3 DEF RestoreIntent
<1>21. CASE Prove
  <2>1. UNCHANGED files /\ UNCHANGED unsynced /\ ~unsynced
    BY <1>21 DEF Prove, Onward, ContainAndFail, AfterSync
  <2>2. CASE pc = "prove_restored"
    BY SMTT(30), <1>21, <2>1, <2>2
      DEF Prove, Onward, ContainAndFail, Fail, OnFailure, Return, GoTo, files
  <2>3. CASE pc = "prove_cleaned"
    BY SMTT(30), <1>21, <2>1, <2>3
      DEF Prove, Onward, ContainAndFail, Fail, OnFailure, Return, GoTo, files
  <2>4. CASE pc = "fin_prove"
    BY SMTT(30), <1>21, <2>1, <2>4
      DEF Prove, Onward, ContainAndFail, Fail, OnFailure, Return, GoTo, files
  <2>5. CASE pc = "rb_prove_final"
    BY SMTT(30), <1>21, <2>1, <2>5
      DEF Prove, Onward, ContainAndFail, Fail, OnFailure, Return, GoTo, files
  <2> QED BY <1>21, <2>2, <2>3, <2>4, <2>5 DEF Prove
<1>22. CASE RemoveCandidate
  BY <1>22 DEF RemoveCandidate, AfterSync
<1>23. CASE RemoveJournal
  BY <1>23 DEF RemoveJournal, AfterSync
<1>24. CASE Commit
  BY <1>24 DEF Commit, ArtifactsValid
<1>25. CASE EnsureIntent
  BY <1>25 DEF EnsureIntent, OnFailure
<1>26. CASE Bookkeeping
  BY <1>26 DEF Bookkeeping
<1>27. CASE MarkFinalizing
  BY <1>27 DEF MarkFinalizing
<1>28. CASE RemoveSafety
  BY <1>28 DEF RemoveSafety
<1>29. CASE ExcludeAgain
  BY <1>29 DEF ExcludeAgain
<1>30. CASE EnterRollback
  BY <1>30 DEF EnterRollback, Recoverable, ArtifactsValid, JournalMatches,
      PhaseConsistent, OnFailure
<1>31. CASE RollbackCheckpoint
  BY <1>31 DEF RollbackCheckpoint, AfterRollbackCheckpoint, OnFailure
<1>32. CASE InstallBackup
  BY <1>32 DEF InstallBackup
<1>33. CASE CleanupGate
  BY <1>33 DEF CleanupGate
<1>34. CASE ContainAndExit
  BY <1>34 DEF ContainAndExit
<1>35. CASE StartReconcile
  BY <1>35 DEF StartReconcile
<1>36. CASE ReconcileContain
  BY <1>36 DEF ReconcileContain, OnFailure
<1>37. CASE RebarrierPending
  BY <1>37 DEF RebarrierPending
<1>38. CASE Classify
  BY <1>38 DEF Classify, Recoverable, ArtifactsValid, JournalMatches,
      PhaseConsistent, OnFailure
<1>39. CASE Sync
  BY <1>39 DEF Sync, AfterSync
<1>40. CASE StepFails
  BY <1>40 DEF StepFails, AfterCheckpoint, AfterRollbackCheckpoint, OnFailure
<1>41. CASE Kill
  BY <1>41 DEF Kill
<1>42. CASE PowerLoss
  BY <1>42 DEF PowerLoss
<1>43. CASE \E c \in Containers : OutsideStart(c)
  BY <1>43 DEF OutsideStart
<1>44. CASE \E c \in Containers : OutsideReplace(c)
  BY <1>44 DEF OutsideReplace
<1>45. CASE \E p \in Profiles : ExpireExclusion(p)
  BY <1>45 DEF ExpireExclusion
<1>46. CASE Writeback
  BY <1>46 DEF Writeback
<1> QED BY <1>1, <1>2, <1>3, <1>4, <1>5, <1>6, <1>7, <1>8, <1>9, <1>10, <1>11, <1>12,
    <1>13, <1>14, <1>15, <1>16, <1>17, <1>18, <1>19, <1>20, <1>21, <1>22, <1>23, <1>24,
    <1>25, <1>26, <1>27, <1>28, <1>29, <1>30, <1>31, <1>32, <1>33, <1>34, <1>35, <1>36,
    <1>37, <1>38, <1>39, <1>40, <1>41, <1>42, <1>43, <1>44, <1>45, <1>46
    DEF Next, Program, Staging, Forward, Finalize, Rollback, Reconcile, Crash, Outside

\* What rollback, reconciliation and finalization know of the directory
\* holds after every step.
LEMMA RecoveryStep ==
  ASSUME IInv, Next
  PROVE  RecoveryControl'
<1> USE ConstantsAssumption DEF IInv, TypeOK, FilesTypeOK, ControlTypeOK, File,
    Agreement, Unowned, PhaseGap, Fits, Pending, Committed, StagingControl,
    ForwardControl, RecoveryControl, NoOwner, Staged, Owned, Present, Restored,
    JournalGone, Steps, StagingSteps, PlainAborts, CandidateAborts, RollbackSteps,
    FinalizeSteps, ReconcileSteps, Put, Barrier, Images, At, GoTo, Onward, Changed,
    Return, Fail, ContainAndFail, process, files
<1>1. CASE Start
  BY <1>1 DEF Start
<1>2. CASE HealthyCheck
  BY <1>2 DEF HealthyCheck
<1>3. CASE CleanOrphan
  BY <1>3 DEF CleanOrphan
<1>4. CASE OpenCandidate
  BY <1>4 DEF OpenCandidate
<1>5. CASE GenerateCandidate
  BY <1>5 DEF GenerateCandidate
<1>6. CASE StageStatic
  BY <1>6 DEF StageStatic
<1>7. CASE DropCandidate
  BY <1>7 DEF DropCandidate
<1>8. CASE TakeSnapshot
  BY <1>8 DEF TakeSnapshot
<1>9. CASE PrepareBackup
  BY <1>9 DEF PrepareBackup
<1>10. CASE PreexcludeCandidate
  BY <1>10 DEF PreexcludeCandidate
<1>11. CASE PrepareSafety
  BY <1>11 DEF PrepareSafety
<1>12. CASE PrepareJournal
  BY <1>12 DEF PrepareJournal
<1>13. CASE StopClient
  BY <1>13 DEF StopClient, OnFailure
<1>14. CASE Checkpoint
  BY <1>14 DEF Checkpoint, AfterCheckpoint, OnFailure
<1>15. CASE JournalTransition
  BY <1>15 DEF JournalTransition, JournalSteps
<1>16. CASE InterfaceDown
  BY <1>16 DEF InterfaceDown
<1>17. CASE InstallCandidate
  BY <1>17 DEF InstallCandidate
<1>18. CASE InterfaceUp
  BY <1>18 DEF InterfaceUp
<1>19. CASE VerifyNetwork
  BY <1>19 DEF VerifyNetwork, OnFailure
<1>20. CASE RestoreIntent
  BY <1>20 DEF RestoreIntent, OnFailure
<1>21. CASE Prove
  <2>1. UNCHANGED files /\ UNCHANGED unsynced /\ ~unsynced
    BY <1>21 DEF Prove, Onward, ContainAndFail, AfterSync
  <2>2. CASE pc = "prove_restored"
    BY SMTT(30), <1>21, <2>1, <2>2
      DEF Prove, Onward, ContainAndFail, Fail, OnFailure, Return, GoTo, files
  <2>3. CASE pc = "prove_cleaned"
    BY SMTT(30), <1>21, <2>1, <2>3
      DEF Prove, Onward, ContainAndFail, Fail, OnFailure, Return, GoTo, files
  <2>4. CASE pc = "fin_prove"
    BY SMTT(30), <1>21, <2>1, <2>4
      DEF Prove, Onward, ContainAndFail, Fail, OnFailure, Return, GoTo, files
  <2>5. CASE pc = "rb_prove_final"
    BY SMTT(30), <1>21, <2>1, <2>5
      DEF Prove, Onward, ContainAndFail, Fail, OnFailure, Return, GoTo, files
  <2> QED BY <1>21, <2>2, <2>3, <2>4, <2>5 DEF Prove
<1>22. CASE RemoveCandidate
  BY <1>22 DEF RemoveCandidate, AfterSync
<1>23. CASE RemoveJournal
  BY <1>23 DEF RemoveJournal, AfterSync
<1>24. CASE Commit
  <2> DEFINE new == [fs["safety"] EXCEPT !.state = "committed"]
  <2>1. pc = "commit" /\ pc' = pc /\ unsynced' /\ Put("safety", new)
    BY <1>24 DEF Commit, At, Changed, process
  <2>3. fs["safety"] \in SafetyRecord
    BY <2>1
  <2>2. new # None /\ new.state = "committed"
    BY <2>3, SafetyUpdate
  <2> HIDE DEF new
  <2> QED BY <2>1, <2>2 DEF Put
<1>25. CASE EnsureIntent
  BY <1>25 DEF EnsureIntent, OnFailure
<1>26. CASE Bookkeeping
  BY <1>26 DEF Bookkeeping
<1>27. CASE MarkFinalizing
  <2> DEFINE new == [fs["safety"] EXCEPT !.state = "finalizing"]
  <2>1. pc = "mark_finalizing" /\ pc' = pc /\ Put("safety", new)
    BY <1>27 DEF MarkFinalizing, At, Changed, process
  <2>3. fs["safety"] \in SafetyRecord
    BY <2>1
  <2>2. new # None /\ new.state = "finalizing"
    BY <2>3, SafetyUpdate
  <2> HIDE DEF new
  <2> QED BY <2>1, <2>2 DEF Put
<1>28. CASE RemoveSafety
  BY <1>28 DEF RemoveSafety
<1>29. CASE ExcludeAgain
  BY <1>29 DEF ExcludeAgain
<1>30. CASE EnterRollback
  BY <1>30 DEF EnterRollback, Recoverable, ArtifactsValid, JournalMatches,
      PhaseConsistent, OnFailure
<1>31. CASE RollbackCheckpoint
  <2>1. UNCHANGED files /\ UNCHANGED unsynced /\ ~unsynced
    BY <1>31
      DEF RollbackCheckpoint, AfterRollbackCheckpoint, Onward, ContainAndFail, AfterSync
  <2>2. CASE RollbackProvenStopped
    BY SMTT(30), <1>31, <2>1, <2>2
      DEF RollbackCheckpoint, AfterRollbackCheckpoint, Onward, GoTo, files
  <2>3. CASE ~RollbackProvenStopped
    BY SMTT(30), <1>31, <2>1, <2>3
      DEF RollbackCheckpoint, AfterRollbackCheckpoint, ContainAndFail, Fail,
       OnFailure, Return, files
  <2> QED BY <2>2, <2>3
<1>32. CASE InstallBackup
  BY <1>32 DEF InstallBackup
<1>33. CASE CleanupGate
  BY <1>33 DEF CleanupGate
<1>34. CASE ContainAndExit
  BY <1>34 DEF ContainAndExit
<1>35. CASE StartReconcile
  BY <1>35 DEF StartReconcile
<1>36. CASE ReconcileContain
  BY <1>36 DEF ReconcileContain, OnFailure
<1>37. CASE RebarrierPending
  BY <1>37 DEF RebarrierPending
<1>38. CASE Classify
  BY <1>38 DEF Classify, Recoverable, ArtifactsValid, JournalMatches,
      PhaseConsistent, OnFailure
<1>39. CASE Sync
  BY <1>39 DEF Sync, AfterSync
<1>40. CASE StepFails
  BY <1>40 DEF StepFails, AfterCheckpoint, AfterRollbackCheckpoint, OnFailure
<1>41. CASE Kill
  BY <1>41 DEF Kill
<1>42. CASE PowerLoss
  BY <1>42 DEF PowerLoss
<1>43. CASE \E c \in Containers : OutsideStart(c)
  BY <1>43 DEF OutsideStart
<1>44. CASE \E c \in Containers : OutsideReplace(c)
  BY <1>44 DEF OutsideReplace
<1>45. CASE \E p \in Profiles : ExpireExclusion(p)
  BY <1>45 DEF ExpireExclusion
<1>46. CASE Writeback
  BY <1>46 DEF Writeback
<1> QED BY <1>1, <1>2, <1>3, <1>4, <1>5, <1>6, <1>7, <1>8, <1>9, <1>10, <1>11, <1>12,
    <1>13, <1>14, <1>15, <1>16, <1>17, <1>18, <1>19, <1>20, <1>21, <1>22, <1>23, <1>24,
    <1>25, <1>26, <1>27, <1>28, <1>29, <1>30, <1>31, <1>32, <1>33, <1>34, <1>35, <1>36,
    <1>37, <1>38, <1>39, <1>40, <1>41, <1>42, <1>43, <1>44, <1>45, <1>46
    DEF Next, Program, Staging, Forward, Finalize, Rollback, Reconcile, Crash, Outside

\* What the exclusions and the published success say of the owner holds
\* after every step.
LEMMA LedgerStep ==
  ASSUME IInv, Next
  PROVE  LedgerControl'
<1> USE ConstantsAssumption DEF IInv, TypeOK, FilesTypeOK, ControlTypeOK, File,
    LedgerControl, PublishedOnlyCommitted, ExcludedWhilePending, Pending, Committed,
    StagingControl, ForwardControl, RecoveryControl, NoOwner, Staged, Owned, Present,
    Restored, JournalGone, Steps, StagingSteps, PlainAborts, CandidateAborts,
    RollbackSteps, FinalizeSteps, ReconcileSteps, Put, Barrier, Images, At, GoTo,
    Onward, Changed, Return, Fail, ContainAndFail, process, files, client, ledger,
    budgets
<1>1. CASE Start
  BY <1>1 DEF Start
<1>2. CASE HealthyCheck
  BY <1>2 DEF HealthyCheck
<1>3. CASE CleanOrphan
  BY <1>3 DEF CleanOrphan
<1>4. CASE OpenCandidate
  BY <1>4 DEF OpenCandidate
<1>5. CASE GenerateCandidate
  BY <1>5 DEF GenerateCandidate
<1>6. CASE StageStatic
  BY <1>6 DEF StageStatic
<1>7. CASE DropCandidate
  BY <1>7 DEF DropCandidate
<1>8. CASE TakeSnapshot
  BY <1>8 DEF TakeSnapshot
<1>9. CASE PrepareBackup
  BY <1>9 DEF PrepareBackup
<1>10. CASE PreexcludeCandidate
  BY <1>10 DEF PreexcludeCandidate
<1>11. CASE PrepareSafety
  BY <1>11 DEF PrepareSafety
<1>12. CASE PrepareJournal
  BY <1>12 DEF PrepareJournal
<1>13. CASE StopClient
  BY <1>13 DEF StopClient, OnFailure
<1>14. CASE Checkpoint
  BY <1>14 DEF Checkpoint, AfterCheckpoint, OnFailure
<1>15. CASE JournalTransition
  BY <1>15 DEF JournalTransition, JournalSteps
<1>16. CASE InterfaceDown
  BY <1>16 DEF InterfaceDown
<1>17. CASE InstallCandidate
  BY <1>17 DEF InstallCandidate
<1>18. CASE InterfaceUp
  BY <1>18 DEF InterfaceUp
<1>19. CASE VerifyNetwork
  BY <1>19 DEF VerifyNetwork, OnFailure
<1>20. CASE RestoreIntent
  BY <1>20 DEF RestoreIntent, OnFailure
<1>21. CASE Prove
  BY <1>21 DEF Prove, Proven, OnFailure
<1>22. CASE RemoveCandidate
  BY <1>22 DEF RemoveCandidate, AfterSync
<1>23. CASE RemoveJournal
  BY <1>23 DEF RemoveJournal, AfterSync
<1>24. CASE Commit
  <2> DEFINE new == [fs["safety"] EXCEPT !.state = "committed"]
  <2>1. pc = "commit" /\ pc' = pc /\ Put("safety", new) /\ fs["safety"] \in SafetyRecord
    BY <1>24 DEF Commit
  <2>2. new.state = "committed"
    BY <2>1, SafetyUpdate
  <2>3. UNCHANGED <<excluded, published, mode>>
    BY <1>24 DEF Commit
  <2> HIDE DEF new
  <2> QED BY <2>1, <2>2, <2>3
<1>25. CASE EnsureIntent
  BY <1>25 DEF EnsureIntent, OnFailure
<1>26. CASE Bookkeeping
  BY <1>26 DEF Bookkeeping
<1>27. CASE MarkFinalizing
  <2> DEFINE new == [fs["safety"] EXCEPT !.state = "finalizing"]
  <2>1. /\ pc = "mark_finalizing" /\ pc' = pc /\ Put("safety", new)
        /\ fs["safety"] \in SafetyRecord
    BY <1>27 DEF MarkFinalizing
  <2>2. new.state = "finalizing"
    BY <2>1, SafetyUpdate
  <2>3. UNCHANGED <<excluded, published, mode>>
    BY <1>27 DEF MarkFinalizing
  <2> HIDE DEF new
  <2> QED BY <2>1, <2>2, <2>3
<1>28. CASE RemoveSafety
  BY <1>28 DEF RemoveSafety
<1>29. CASE ExcludeAgain
  BY <1>29 DEF ExcludeAgain
<1>30. CASE EnterRollback
  BY <1>30 DEF EnterRollback, Recoverable, ArtifactsValid, JournalMatches,
      PhaseConsistent, OnFailure
<1>31. CASE RollbackCheckpoint
  BY <1>31 DEF RollbackCheckpoint, AfterRollbackCheckpoint, OnFailure
<1>32. CASE InstallBackup
  BY <1>32 DEF InstallBackup
<1>33. CASE CleanupGate
  BY <1>33 DEF CleanupGate
<1>34. CASE ContainAndExit
  BY <1>34 DEF ContainAndExit
<1>35. CASE StartReconcile
  BY <1>35 DEF StartReconcile
<1>36. CASE ReconcileContain
  BY <1>36 DEF ReconcileContain, OnFailure
<1>37. CASE RebarrierPending
  BY <1>37 DEF RebarrierPending
<1>38. CASE Classify
  BY <1>38 DEF Classify, Recoverable, ArtifactsValid, JournalMatches,
      PhaseConsistent, OnFailure
<1>39. CASE Sync
  BY <1>39 DEF Sync, AfterSync
<1>40. CASE StepFails
  BY <1>40 DEF StepFails, AfterCheckpoint, AfterRollbackCheckpoint, OnFailure
<1>41. CASE Kill
  BY <1>41 DEF Kill
<1>42. CASE PowerLoss
  BY <1>42 DEF PowerLoss
<1>43. CASE \E c \in Containers : OutsideStart(c)
  BY <1>43 DEF OutsideStart
<1>44. CASE \E c \in Containers : OutsideReplace(c)
  BY <1>44 DEF OutsideReplace
<1>45. CASE \E p \in Profiles : ExpireExclusion(p)
  BY <1>45 DEF ExpireExclusion
<1>46. CASE Writeback
  BY <1>46 DEF Writeback
<1> QED BY <1>1, <1>2, <1>3, <1>4, <1>5, <1>6, <1>7, <1>8, <1>9, <1>10, <1>11, <1>12,
    <1>13, <1>14, <1>15, <1>16, <1>17, <1>18, <1>19, <1>20, <1>21, <1>22, <1>23, <1>24,
    <1>25, <1>26, <1>27, <1>28, <1>29, <1>30, <1>31, <1>32, <1>33, <1>34, <1>35, <1>36,
    <1>37, <1>38, <1>39, <1>40, <1>41, <1>42, <1>43, <1>44, <1>45, <1>46
    DEF Next, Program, Staging, Forward, Finalize, Rollback, Reconcile, Crash, Outside

(* ------------------------ the inductive invariant ---------------------- *)

\* The program starts with a directory in which nothing is owned.
LEMMA InitInv ==
  ASSUME Init
  PROVE  IInv
<1> USE ConstantsAssumption DEF Init
<1>1. FilesTypeOK
  BY DEF FilesTypeOK, File
<1>2. ControlTypeOK
  <2>1. unsynced \in BOOLEAN
    BY Zenon
  <2> QED BY <2>1 DEF ControlTypeOK, Steps
<1>3. WorldTypeOK /\ ConfiguredExists
  <2>1. published \in BOOLEAN /\ outside \in BOOLEAN
    BY Zenon
  <2> QED BY <2>1 DEF WorldTypeOK, ConfiguredExists, NoSnapshot, Intents
<1>4. Agreement /\ Unowned /\ PhaseGap
  BY DEF Agreement, Unowned, PhaseGap, File
<1>5. StagingControl
  BY DEF StagingControl, NoOwner, Staged, StagingSteps
<1>6. ForwardControl
  BY
    DEF ForwardControl, Owned, Present, JournalGone, PlainAborts, CandidateAborts, RollbackSteps
<1>7. RecoveryControl
  BY DEF RecoveryControl, Restored, RollbackSteps, ReconcileSteps, FinalizeSteps
<1>8. LedgerControl
  BY DEF LedgerControl, PublishedOnlyCommitted, ExcludedWhilePending, Pending, File,
     ReconcileSteps
<1> QED BY <1>1, <1>2, <1>3, <1>4, <1>5, <1>6, <1>7, <1>8 DEF IInv, TypeOK

\* The invariant is kept by every step, once a transaction only starts on a
\* directory the kernel has written back.
LEMMA StepInv ==
  ASSUME WritebackBeforeStart, IInv, [Next]_vars
  PROVE  IInv'
<1>1. CASE Next
  <2>1. FilesTypeOK'
    <3>1. CASE FileStep
      BY <3>1, FileTypes DEF IInv, TypeOK
    <3>2. CASE UNCHANGED files
      BY <3>2 DEF files, FilesTypeOK, IInv, TypeOK
    <3> QED BY <1>1, <3>1, <3>2, QuietSteps
  <2>2. ControlTypeOK'
    BY <1>1, ControlTypes DEF IInv, TypeOK
  <2>3. WorldTypeOK' /\ ConfiguredExists'
    BY <1>1, WorldTypes DEF IInv, TypeOK
  <2>4. FilesFit'
    <3>1. CASE FileStep
      BY <3>1, FilesStep DEF IInv, FilesFit
    <3>2. CASE UNCHANGED files
      BY <3>2 DEF files, IInv, FilesFit, Agreement, Fits, Unowned, PhaseGap
    <3> QED BY <1>1, <3>1, <3>2, QuietSteps
  <2>5. StagingControl' /\ ForwardControl' /\ RecoveryControl' /\ LedgerControl'
    BY <1>1, StagingStep, ForwardStep, RecoveryStep, LedgerStep
  <2> QED BY <2>1, <2>2, <2>3, <2>4, <2>5 DEF IInv, TypeOK, FilesFit
<1>2. CASE UNCHANGED vars
  <2>1. TypeOK' /\ ConfiguredExists'
    BY <1>2 DEF vars, files, client, ledger, process, budgets, IInv, TypeOK, FilesTypeOK,
       ControlTypeOK, WorldTypeOK, ConfiguredExists
  <2>2. Agreement' /\ Unowned' /\ PhaseGap'
    BY <1>2 DEF vars, files, IInv, Agreement, Fits, Unowned, PhaseGap
  <2>3. StagingControl' /\ ForwardControl' /\ RecoveryControl'
    BY <1>2 DEF vars, files, IInv, StagingControl, ForwardControl, RecoveryControl, NoOwner,
       Staged, Owned, Present, Restored, JournalGone, Pending, Committed
  <2>4. LedgerControl'
    BY <1>2 DEF vars, files, process, ledger, IInv, LedgerControl, PublishedOnlyCommitted,
       ExcludedWhilePending, Pending
  <2> QED BY <2>1, <2>2, <2>3, <2>4 DEF IInv
<1> QED BY <1>1, <1>2

\* Together the entries that may persist make only recoverable images.
LEMMA InvRecoverable ==
  ASSUME IInv
  PROVE  CrashRecoverable
<1> SUFFICES ASSUME NEW img \in Images, img["safety"] # None
             PROVE  Recoverable(img)
  BY DEF CrashRecoverable
<1> DEFINE s == img["safety"]
<1>1. /\ img["active"] \in disk["active"] /\ img["backup"] \in disk["backup"]
      /\ img["candidate"] \in disk["candidate"] /\ s \in disk["safety"]
      /\ img["journal"] \in disk["journal"]
  BY DEF Images
<1>2. Fits(s, disk)
  BY <1>1 DEF IInv, Agreement
<1>3. ArtifactsValid(img)
  BY <1>1, <1>2 DEF Fits, ArtifactsValid
<1>4. img["journal"] # None =>
        s.state = "pending" /\ JournalMatches(img) /\ PhaseConsistent(img)
  BY <1>1, <1>2 DEF Fits, JournalMatches, PhaseConsistent, IInv, PhaseGap
<1> QED BY <1>3, <1>4 DEF Recoverable

\* ... and none in which a journal has lost its record.
LEMMA InvOwned ==
  ASSUME IInv
  PROVE  NeverUnowned
  BY DEF IInv, Unowned, NeverUnowned, Images

(* ------------------------------ theorems ------------------------------- *)

\* The invariant holds throughout every behaviour.
THEOREM Invariance ==
  ASSUME WritebackBeforeStart
  PROVE  Spec => []IInv
<1>1. Init => IInv
  BY InitInv
<1>2. IInv /\ [Next]_vars => IInv'
  BY StepInv
<1> QED BY <1>1, <1>2, PTL DEF Spec

\* Type correctness, for every number of profiles, containers and failures: no
\* handler ever reads a record, a backup or a candidate that is not there.
THEOREM TypeCorrect ==
  ASSUME WritebackBeforeStart
  PROVE  Spec => []TypeOK
<1>1. IInv => TypeOK
  BY DEF IInv
<1> QED BY <1>1, Invariance, PTL

\* Whatever a power loss leaves of the managed directory, at whatever step and
\* after whatever failures, managed_reconcile_pending accepts it.
THEOREM CrashSafe ==
  ASSUME WritebackBeforeStart
  PROVE  Spec => []CrashRecoverable
<1>1. IInv => CrashRecoverable
  BY InvRecoverable
<1> QED BY <1>1, Invariance, PTL

\* No crash, at whatever step, leaves a journal that no safety record owns.
THEOREM JournalOwned ==
  ASSUME WritebackBeforeStart
  PROVE  Spec => []NeverUnowned
<1>1. IInv => NeverUnowned
  BY InvOwned
<1> QED BY <1>1, Invariance, PTL

\* Success is published only for a switch that can no longer be rolled back in
\* this boot.
THEOREM PublishedCommitted ==
  ASSUME WritebackBeforeStart
  PROVE  Spec => []PublishedOnlyCommitted
<1>1. IInv => PublishedOnlyCommitted
  BY DEF IInv, LedgerControl
<1> QED BY <1>1, Invariance, PTL

\* The server of a candidate stays excluded while any crash image can still
\* roll the switch to it back.
THEOREM PendingExcluded ==
  ASSUME WritebackBeforeStart
  PROVE  Spec => []ExcludedWhilePending
<1>1. IInv => ExcludedWhilePending
  BY DEF IInv, LedgerControl
<1> QED BY <1>1, Invariance, PTL

(* ---------------- the invariant of the client and the switch ----------- *)

\* Two records of one switch: they differ in their state at most.
SameRecord(s, t) ==
  s.backup = t.backup /\ s.candidate = t.candidate /\ s.intent = t.intent /\ s.id = t.id

\* All records a power loss may leave are of one switch; without one, the
\* installed profile is certain.
OneSwitch ==
  /\ \A s, t \in Owners : SameRecord(s, t)
  /\ Owners = {} => disk["active"] = {fs["active"]}

\* A record or a snapshot names a container exactly if it manages one.
Coherent(r) == r.intent = "unmanaged" <=> r.id = None

\* Until something else touches the client, records name the configured one.
Identified ==
  /\ Coherent(snapshot) /\ \A s \in Owners : Coherent(s)
  /\ ~outside => \A s \in Owners : s.id = configured
  /\ pc \in {"backup", "preexclude"} \/ (pc = "prepare_safety" /\ ~unsynced) =>
       (~outside => snapshot.id = configured)

ClientDown == configured # None => containers[configured] # "running"

\* Steps between the proof that the client is stopped and its restart.
DownSteps ==
  {"journal_stopped", "before_down", "down", "after_down", "journal_down",
   "before_install", "install", "after_install", "journal_installed", "before_up",
   "up", "after_up", "journal_up", "before_network", "network", "after_network",
   "restore", "rb_before_down", "rb_down", "rb_after_down", "rb_install",
   "rb_after_install", "rb_up", "rb_after_up", "rb_network", "rb_after_network",
   "rb_gate", "rb_remove_candidate", "rb_remove_journal", "rb_post_cleanup",
   "rb_prove", "rb_restore", "rec_barrier", "rec_check"}
\* Steps that may start the client, or lead to it by reads alone.
UpSteps == {"after_network", "restore", "rb_restore", "fin_intent"}

\* What is known of the client and the tunnel at each step.
ClientControl ==
  /\ pc \in DownSteps \/ (pc = "idle" /\ exit = "fail" /\ Pending) =>
       (~outside => ClientDown)
  /\ pc \in UpSteps => link = fs["active"]
  /\ pc \in {"remove_safety", "rb_remove_safety"} /\ ~unsynced =>
       link = fs["active"] /\ (~outside => IntentHolds)
  /\ pc = "remove_safety" => ~Pending

CInv == IInv /\ OneSwitch /\ Identified /\ ClientControl

(* ------------------------------ the records ---------------------------- *)

\* The record that opens a switch.
NewSwitch == [state |-> "pending", backup |-> fs["backup"],
              candidate |-> fs["candidate"],
              intent |-> snapshot.intent, id |-> snapshot.id]

\* A change of another file leaves what may become of the record alone.
LEMMA OtherFile ==
  ASSUME FilesTypeOK, NEW f \in File \ {"safety"}, NEW c, Put(f, c)
  PROVE  disk'["safety"] = disk["safety"] /\ fs'["safety"] = fs["safety"]
  BY DEF FilesTypeOK, Put, File

\* Rewriting the state of a record keeps everything else.
LEMMA RewrittenState ==
  ASSUME NEW s \in SafetyRecord, NEW state \in {"pending", "committed", "finalizing"}
  PROVE  LET n == [s EXCEPT !.state = state]
         IN n \in SafetyRecord /\ n # None /\ n.state = state /\ SameRecord(s, n)
  BY ConstantsAssumption DEF SafetyRecord, SameRecord

\* The steps by which the possible records change.
LEMMA RecordSteps ==
  ASSUME IInv, Next
  PROVE  \/ Owners' = Owners
         \/ PrepareSafety /\ Owners = {} /\ Owners' = {NewSwitch}
              /\ NewSwitch \in SafetyRecord /\ UNCHANGED <<configured, outside>>
         \/ /\ Commit \/ MarkFinalizing
            /\ \E s \in Owners : \E n :
                 /\ n # None /\ SameRecord(s, n) /\ n.state # "pending"
                 /\ MarkFinalizing => s.state # "pending"
                 /\ Commit => s.state = "pending"
                 /\ Owners' = Owners \cup {n}
         \/ /\ Sync \/ RebarrierPending \/ Writeback \/ PowerLoss
            /\ \A f \in File : disk'[f] = {fs'[f]} /\ fs'[f] \in disk[f]
<1> USE DEF IInv, TypeOK
<1>1. CASE UNCHANGED files
  BY <1>1 DEF files, Owners
<1>2. CASE \E f \in File \ {"safety"} : \E c : Put(f, c)
  BY <1>2, OtherFile DEF Owners
<1>3. CASE PrepareSafety
  <2>1. disk["safety"] = {None}
    BY <1>3 DEF PrepareSafety, At, StagingControl, NoOwner
  <2>2. NewSwitch \in SafetyRecord
    BY <1>3, NewRecord DEF NewSwitch
  <2>3. Put("safety", NewSwitch) /\ UNCHANGED <<configured, outside>>
    BY <1>3 DEF PrepareSafety, Changed, NewSwitch, client
  <2>4. disk'["safety"] = {None, NewSwitch}
    BY <2>1, <2>3 DEF Put, FilesTypeOK, File
  <2>5. NewSwitch # None
    BY <2>2, ConstantsAssumption
  <2>6. Owners = {} /\ Owners' = {NewSwitch}
    BY <2>1, <2>4, <2>5 DEF Owners
  <2> QED BY <1>3, <2>2, <2>3, <2>6
<1>4. CASE Commit
  <2> DEFINE new == [fs["safety"] EXCEPT !.state = "committed"]
  <2>1. Owned
    BY <1>4 DEF Commit, At, Owned
  <2>2. /\ fs["safety"] \in SafetyRecord /\ fs["safety"].state = "pending"
        /\ fs["safety"] \in Owners
    BY <2>1, OwnerFacts, ConstantsAssumption DEF Owners
  <2>3. new # None /\ SameRecord(fs["safety"], new) /\ new.state # "pending"
    BY <2>2, RewrittenState
  <2>4. Put("safety", new)
    BY <1>4 DEF Commit, Changed
  <2> HIDE DEF new
  <2>5. Owners' = Owners \cup {new}
    BY <2>3, <2>4 DEF Put, FilesTypeOK, File, Owners
  <2>6. ~MarkFinalizing
    BY <1>4 DEF Commit, MarkFinalizing, At
  <2> QED BY <1>4, <2>2, <2>3, <2>5, <2>6
<1>5. CASE MarkFinalizing
  <2> DEFINE new == [fs["safety"] EXCEPT !.state = "finalizing"]
  <2>1. /\ fs["safety"] \in disk["safety"] /\ fs["safety"] \in SafetyRecord
        /\ fs["safety"] # None /\ fs["safety"].state # "pending"
    BY <1>5 DEF MarkFinalizing, At, RecoveryControl, FinalizeSteps, Committed,
       FilesTypeOK, File
  <2>2. fs["safety"] \in Owners
    BY <2>1 DEF Owners
  <2>3. new # None /\ SameRecord(fs["safety"], new) /\ new.state # "pending"
    BY <2>1, RewrittenState
  <2>4. Put("safety", new)
    BY <1>5 DEF MarkFinalizing, Changed
  <2> HIDE DEF new
  <2>5. Owners' = Owners \cup {new}
    BY <2>3, <2>4 DEF Put, FilesTypeOK, File, Owners
  <2>6. ~Commit
    BY <1>5 DEF Commit, MarkFinalizing, At
  <2> QED BY <1>5, <2>1, <2>2, <2>3, <2>5, <2>6
<1>6. CASE RemoveSafety
  BY <1>6 DEF RemoveSafety, Changed, Put, FilesTypeOK, File, Owners
<1>7. CASE Sync \/ RebarrierPending \/ Writeback
  <2>1. Barrier
    BY <1>7 DEF Sync, RebarrierPending, Writeback
  <2>2. \A f \in File : disk'[f] = {fs'[f]} /\ fs'[f] \in disk[f]
    BY <2>1 DEF Barrier, FilesTypeOK
  <2> QED BY <1>7, <2>2
<1>8. CASE PowerLoss
  <2>1. \A f \in File : disk'[f] = {fs'[f]} /\ fs'[f] \in disk[f]
    BY <1>8 DEF PowerLoss, Images, File
  <2> QED BY <1>8, <2>1
<1>9. CASE CleanOrphan \/ OpenCandidate \/ GenerateCandidate \/ StageStatic
             \/ DropCandidate \/ PrepareBackup \/ PrepareJournal \/ JournalTransition
             \/ InstallCandidate \/ RemoveCandidate \/ RemoveJournal \/ InstallBackup
  <2>1. UNCHANGED files \/ \E f \in File \ {"safety"} : \E c : Put(f, c)
    BY <1>9 DEF CleanOrphan, OpenCandidate, GenerateCandidate, StageStatic,
       DropCandidate, PrepareBackup, PrepareJournal, JournalTransition,
       InstallCandidate, RemoveCandidate, RemoveJournal, InstallBackup, Onward,
       Changed, File
  <2> QED BY <1>1, <1>2, <2>1
<1> QED BY <1>1, <1>3, <1>4, <1>5, <1>6, <1>7, <1>8, <1>9, QuietSteps DEF FileStep

\* Where no record may be left, no step touches the installed profile.
LEMMA UnownedActive ==
  ASSUME IInv, Next, Owners = {},
         ~(Sync \/ RebarrierPending \/ Writeback \/ PowerLoss)
  PROVE  fs'["active"] = fs["active"] /\ disk'["active"] = disk["active"]
<1> USE DEF IInv, TypeOK
<1>1. CASE UNCHANGED files
  BY <1>1 DEF files
<1>2. ASSUME NEW f \in File \ {"active"}, NEW c, Put(f, c)
      PROVE  fs'["active"] = fs["active"] /\ disk'["active"] = disk["active"]
  BY <1>2 DEF Put, FilesTypeOK, File
<1>3. ~Owned
  BY OwnerFacts, ConstantsAssumption DEF Owners
<1>4. ~InstallCandidate /\ ~InstallBackup
  BY <1>3 DEF InstallCandidate, InstallBackup, At, Owned, CandidateAborts, RollbackSteps
<1>5. CASE FileStep
  <2>1. UNCHANGED files \/ \E f \in File \ {"active"} : \E c : Put(f, c)
    BY <1>4, <1>5 DEF FileStep, CleanOrphan, OpenCandidate, GenerateCandidate,
       StageStatic, DropCandidate, PrepareBackup, PrepareSafety, PrepareJournal,
       JournalTransition, RemoveCandidate, RemoveJournal, Commit, MarkFinalizing,
       RemoveSafety, Onward, Changed, File
  <2> QED BY <1>1, <1>2, <2>1
<1> QED BY <1>1, <1>5, QuietSteps

\* All possible records stay records of one switch.
LEMMA OneSwitchStep ==
  ASSUME IInv, OneSwitch, Next
  PROVE  OneSwitch'
<1>1. ASSUME NEW s \in Owners', NEW t \in Owners'
      PROVE  SameRecord(s, t)
  BY RecordSteps DEF OneSwitch, Owners, SameRecord, File
<1>2. ASSUME Owners' = {}
      PROVE  disk'["active"] = {fs'["active"]}
  <2>1. CASE Sync \/ RebarrierPending \/ Writeback \/ PowerLoss
    BY <2>1 DEF Sync, RebarrierPending, Writeback, PowerLoss, Barrier, File
  <2>2. CASE ~(Sync \/ RebarrierPending \/ Writeback \/ PowerLoss)
    <3>1. Owners = {}
      BY <1>2, <2>2, RecordSteps
    <3> QED BY <2>2, <3>1, UnownedActive DEF OneSwitch
  <2> QED BY <2>1, <2>2
<1> QED BY <1>1, <1>2 DEF OneSwitch

(* --------------------------- the atomic switch ------------------------- *)

\* What the choice of a record means: any record would do.
LEMMA AnyRecord ==
  ASSUME NEW S, NEW s \in S, \A a, b \in S : SameRecord(a, b)
  PROVE  /\ (CHOOSE t \in S : TRUE).backup = s.backup
         /\ (CHOOSE t \in S : TRUE).candidate = s.candidate
<1>1. (CHOOSE t \in S : TRUE) \in S
  BY Zenon
<1> QED BY <1>1 DEF SameRecord

\* The state of the abstract switch, as ImplementsSwitch reads it.
SwitchProfile == IF Owners = {} THEN fs["active"] ELSE (CHOOSE s \in Owners : TRUE).backup
SwitchTarget == IF Owners = {} THEN None ELSE (CHOOSE s \in Owners : TRUE).candidate
SwitchCommitted == Owners # {} /\ \A s \in Owners : s.state # "pending"

\* ... with a record that may be left.
LEMMA OpenSwitch ==
  ASSUME OneSwitch, NEW s \in Owners
  PROVE  SwitchProfile = s.backup /\ SwitchTarget = s.candidate
  BY AnyRecord DEF OneSwitch, SwitchProfile, SwitchTarget

\* ... and with none.
LEMMA ClosedSwitch ==
  ASSUME Owners = {}
  PROVE  /\ SwitchProfile = fs["active"] /\ SwitchTarget = None
         /\ SwitchCommitted = FALSE
  BY DEF SwitchProfile, SwitchTarget, SwitchCommitted

\* Each record is of a switch between two different profiles.
LEMMA OwnerRecord ==
  ASSUME IInv, NEW s \in Owners
  PROVE  /\ s \in SafetyRecord /\ s # None /\ Fits(s, disk)
         /\ s.backup \in Profiles /\ s.candidate \in Profiles
         /\ s.candidate # s.backup /\ s.candidate # None
<1>1. s \in SafetyRecord /\ s # None /\ Fits(s, disk)
  BY DEF IInv, TypeOK, FilesTypeOK, Agreement, Owners
<1> QED BY <1>1, ConstantsAssumption DEF SafetyRecord, Fits

\* The steps of the atomic switch and its stuttering, over its state here.
SwitchVars == <<SwitchProfile, SwitchTarget, SwitchCommitted>>
SwitchBegins ==
  /\ SwitchTarget = None
  /\ SwitchTarget' \in Profiles \ {SwitchProfile}
  /\ SwitchProfile' = SwitchProfile /\ SwitchCommitted' = SwitchCommitted
SwitchCommits ==
  /\ SwitchTarget # None
  /\ SwitchCommitted' = TRUE
  /\ SwitchProfile' = SwitchProfile /\ SwitchTarget' = SwitchTarget
SwitchAbandons ==
  /\ SwitchTarget # None /\ ~SwitchCommitted
  /\ SwitchTarget' = None
  /\ SwitchProfile' = SwitchProfile /\ SwitchCommitted' = SwitchCommitted
SwitchFinishes ==
  /\ SwitchTarget # None
  /\ SwitchProfile' = SwitchTarget
  /\ SwitchTarget' = None
  /\ SwitchCommitted' = FALSE
SwitchStep ==
  \/ SwitchBegins \/ SwitchCommits \/ SwitchAbandons \/ SwitchFinishes
  \/ UNCHANGED SwitchVars

\* A step that changes neither the possible records nor, without one, the
\* installed profile is none of the switch.
LEMMA QuietSwitch ==
  ASSUME Owners' = Owners, Owners = {} => fs'["active"] = fs["active"]
  PROVE  UNCHANGED SwitchVars
<1>1. SwitchProfile' = SwitchProfile
  BY DEF SwitchProfile
<1>2. SwitchTarget' = SwitchTarget
  BY DEF SwitchTarget
<1>3. SwitchCommitted' = SwitchCommitted
  BY DEF SwitchCommitted
<1> QED BY <1>1, <1>2, <1>3 DEF SwitchVars

\* A step that makes one image certain decides, ends or leaves an open switch
\* as that image says, and never takes a decision back.
LEMMA CertainSwitch ==
  ASSUME IInv, OneSwitch, OneSwitch', NEW o \in Owners,
         \A f \in File : disk'[f] = {fs'[f]} /\ fs'[f] \in disk[f]
  PROVE  SwitchStep
<1>1. /\ disk'["safety"] = {fs'["safety"]} /\ fs'["safety"] \in disk["safety"]
      /\ fs'["active"] \in disk["active"]
  BY DEF File
<1>2. /\ SwitchProfile = o.backup /\ SwitchTarget = o.candidate
      /\ SwitchTarget # None
  BY OpenSwitch, OwnerRecord
<1>3. CASE fs'["safety"] = None
  <2>1. Owners' = {}
    BY <1>1, <1>3 DEF Owners
  <2>2. /\ SwitchProfile' = fs'["active"] /\ SwitchTarget' = None
        /\ SwitchCommitted' = FALSE
    BY <2>1 DEF SwitchProfile, SwitchTarget, SwitchCommitted
  <2>3. CASE fs'["active"] = o.candidate
    BY <1>2, <2>2, <2>3 DEF SwitchStep, SwitchFinishes
  <2>4. CASE fs'["active"] # o.candidate
    <3>1. Fits(o, disk)
      BY OwnerRecord
    <3>2. fs'["active"] = o.backup /\ o.state = "pending"
      BY <1>1, <2>4, <3>1 DEF Fits
    <3>3. SwitchCommitted = FALSE
      BY <3>2 DEF SwitchCommitted
    <3> QED BY <1>2, <2>2, <3>2, <3>3 DEF SwitchStep, SwitchAbandons
  <2> QED BY <2>3, <2>4
<1>4. CASE fs'["safety"] # None
  <2> DEFINE t == fs'["safety"]
  <2>1. t \in Owners /\ Owners' = {t}
    BY <1>1, <1>4 DEF Owners
  <2>2. SwitchProfile = t.backup /\ SwitchTarget = t.candidate
    BY <2>1, OpenSwitch
  <2>3. SwitchProfile' = t.backup /\ SwitchTarget' = t.candidate
    <3>1. (CHOOSE s \in Owners' : TRUE) = t
      BY <2>1
    <3> QED BY <2>1, <3>1 DEF SwitchProfile, SwitchTarget
  <2>4. SwitchCommitted' = (t.state # "pending")
    BY <2>1 DEF SwitchCommitted
  <2>5. CASE t.state # "pending"
    BY <1>2, <2>2, <2>3, <2>4, <2>5 DEF SwitchStep, SwitchCommits
  <2>6. CASE t.state = "pending"
    <3>1. SwitchCommitted = FALSE
      BY <2>1, <2>6 DEF SwitchCommitted
    <3> QED BY <2>2, <2>3, <2>4, <2>6, <3>1 DEF SwitchStep, SwitchVars
  <2> QED BY <2>5, <2>6
<1> QED BY <1>3, <1>4

\* Every step of the file protocol is one of the atomic switch, or none.
LEMMA SwitchSteps ==
  ASSUME IInv, OneSwitch, OneSwitch', Next
  PROVE  SwitchStep
<1>1. CASE Owners' = Owners /\ ~(Sync \/ RebarrierPending \/ Writeback \/ PowerLoss)
  BY <1>1, UnownedActive, QuietSwitch DEF SwitchStep
<1>2. CASE /\ PrepareSafety /\ Owners = {} /\ Owners' = {NewSwitch}
           /\ NewSwitch \in SafetyRecord
  <2>1. /\ SwitchProfile = fs["active"] /\ SwitchTarget = None
        /\ SwitchCommitted = FALSE
    BY <1>2, ClosedSwitch
  <2>2. /\ fs["candidate"] \in Profiles /\ fs["candidate"] # fs["active"]
        /\ fs["backup"] = fs["active"]
    BY <1>2 DEF PrepareSafety, At, IInv, StagingControl, Staged
  <2>3. SwitchProfile' = NewSwitch.backup /\ SwitchTarget' = NewSwitch.candidate
    <3>1. (CHOOSE s \in Owners' : TRUE) = NewSwitch
      BY <1>2
    <3> QED BY <1>2, <3>1 DEF SwitchProfile, SwitchTarget
  <2>4. SwitchCommitted' = FALSE
    <3>1. NewSwitch \in Owners' /\ NewSwitch.state = "pending"
      BY <1>2 DEF NewSwitch
    <3> QED BY <3>1 DEF SwitchCommitted
  <2>5. NewSwitch.backup = fs["active"] /\ NewSwitch.candidate = fs["candidate"]
    BY <2>2 DEF NewSwitch
  <2>6. SwitchBegins
    BY <2>1, <2>2, <2>3, <2>4, <2>5 DEF SwitchBegins
  <2> QED BY <2>6 DEF SwitchStep
<1>3. ASSUME NEW s \in Owners, NEW n, n # None, SameRecord(s, n), n.state # "pending",
             MarkFinalizing => s.state # "pending", Commit => s.state = "pending",
             Commit \/ MarkFinalizing, Owners' = Owners \cup {n}
      PROVE  UNCHANGED SwitchVars
  <2>1. SwitchProfile = s.backup /\ SwitchTarget = s.candidate
    BY OpenSwitch
  <2>2. SwitchProfile' = s.backup /\ SwitchTarget' = s.candidate
    <3>1. s \in Owners' /\ \A a, b \in Owners' : SameRecord(a, b)
      BY <1>3 DEF OneSwitch
    <3>2. Owners' # {}
      BY <3>1
    <3> QED BY <3>1, <3>2, AnyRecord DEF SwitchProfile, SwitchTarget
  <2>3. SwitchCommitted' = SwitchCommitted
    <3>1. SwitchCommitted \in BOOLEAN /\ SwitchCommitted' \in BOOLEAN
      BY Zenon DEF SwitchCommitted
    <3>2. SwitchCommitted <=> SwitchCommitted'
      BY <1>3, Zenon DEF SwitchCommitted
    <3> QED BY <3>1, <3>2, Zenon
  <2> QED BY <2>1, <2>2, <2>3 DEF SwitchVars
<1>4. CASE /\ Sync \/ RebarrierPending \/ Writeback \/ PowerLoss
           /\ \A f \in File : disk'[f] = {fs'[f]} /\ fs'[f] \in disk[f]
  <2>1. CASE Owners = {}
    <3>1. fs'["active"] = fs["active"]
      BY <1>4, <2>1 DEF OneSwitch, File
    <3>2. Owners' = {}
      <4>1. disk["safety"] \subseteq {None}
        BY <2>1 DEF Owners
      <4>2. disk'["safety"] = {fs'["safety"]} /\ fs'["safety"] \in disk["safety"]
        BY <1>4 DEF File
      <4> QED BY <4>1, <4>2 DEF Owners
    <3> QED BY <2>1, <3>1, <3>2, QuietSwitch DEF SwitchStep
  <2>2. CASE Owners # {}
    <3>1. PICK o : o \in Owners
      BY <2>2
    <3> QED BY <1>4, <3>1, CertainSwitch
  <2> QED BY <2>1, <2>2
<1>5. Sync \/ RebarrierPending \/ Writeback \/ PowerLoss =>
        \A f \in File : disk'[f] = {fs'[f]} /\ fs'[f] \in disk[f]
  BY DEF Sync, RebarrierPending, Writeback, PowerLoss, Barrier, Images, File, IInv,
     TypeOK, FilesTypeOK
<1> QED BY <1>1, <1>2, <1>3, <1>4, <1>5, RecordSteps DEF SwitchStep

\* The steps above are those of ProfileSwitch under its refinement mapping.
LEMMA SwitchIsAbstract ==
  ASSUME SwitchStep
  PROVE  [Switch!Next]_Switch!vars
<1>1. CASE SwitchBegins
  BY <1>1 DEF SwitchBegins, SwitchProfile, SwitchTarget, SwitchCommitted, Switch!Next,
     Switch!Begin
<1>2. CASE SwitchCommits
  BY <1>2 DEF SwitchCommits, SwitchProfile, SwitchTarget, SwitchCommitted, Switch!Next,
     Switch!Commit
<1>3. CASE SwitchAbandons
  BY <1>3 DEF SwitchAbandons, SwitchProfile, SwitchTarget, SwitchCommitted,
     Switch!Next, Switch!Abandon
<1>4. CASE SwitchFinishes
  BY <1>4 DEF SwitchFinishes, SwitchProfile, SwitchTarget, SwitchCommitted,
     Switch!Next, Switch!Finish
<1>5. CASE UNCHANGED SwitchVars
  BY <1>5 DEF SwitchVars, SwitchProfile, SwitchTarget, SwitchCommitted, Switch!vars
<1> QED BY <1>1, <1>2, <1>3, <1>4, <1>5 DEF SwitchStep

\* The program starts between two switches, with its profile installed.
LEMMA InitSwitch ==
  ASSUME Init
  PROVE  OneSwitch /\ Switch!Init
<1>1. /\ fs["safety"] = None /\ fs["active"] \in Profiles
      /\ disk["safety"] = {None} /\ disk["active"] = {fs["active"]}
  BY DEF Init, File
<1>2. Owners = {}
  BY <1>1 DEF Owners
<1> QED BY <1>1, <1>2 DEF OneSwitch, Switch!Init

\* That the records are of one switch holds throughout.
THEOREM SwitchInvariance ==
  ASSUME WritebackBeforeStart
  PROVE  Spec => [](IInv /\ OneSwitch)
<1>1. Init => IInv /\ OneSwitch
  BY InitInv, InitSwitch
<1>2. IInv /\ OneSwitch /\ [Next]_vars => (IInv /\ OneSwitch)'
  <2>1. CASE Next
    BY <2>1, StepInv, OneSwitchStep
  <2>2. CASE UNCHANGED vars
    <3>1. IInv /\ OneSwitch => OneSwitch'
      BY <2>2 DEF vars, files, OneSwitch, Owners
    <3> QED BY <2>2, <3>1, StepInv
  <2> QED BY <2>1, <2>2
<1> QED BY <1>1, <1>2, PTL DEF Spec

\* The file protocol of the managed transaction, with every crash and failure,
\* implements the atomic switch: the installed profile changes only by switches
\* that are decided once, and no crash takes a decision back.
THEOREM SwitchesAtomically ==
  ASSUME WritebackBeforeStart
  PROVE  Spec => ImplementsSwitch
<1>1. Init => Switch!Init
  BY InitSwitch
<1>2. /\ IInv /\ OneSwitch /\ (IInv /\ OneSwitch)' /\ [Next]_vars
      => [Switch!Next]_Switch!vars
  <2> SUFFICES ASSUME IInv, OneSwitch, OneSwitch', [Next]_vars
               PROVE  SwitchStep
    BY SwitchIsAbstract
  <2>1. CASE Next
    BY <2>1, SwitchSteps
  <2>2. CASE UNCHANGED vars
    BY <2>2, QuietSwitch DEF vars, files, Owners, SwitchStep
  <2> QED BY <2>1, <2>2
<1> QED BY <1>1, <1>2, SwitchInvariance, PTL DEF Spec, ImplementsSwitch, Switch!Spec

(* ------------------------------ the client ----------------------------- *)

\* Stopping the recorded and the configured container leaves the client down
\* and starts nothing.
LEMMA ContainedDown ==
  ASSUME WorldTypeOK, containers' = Contained, configured' = configured
  PROVE  /\ ClientDown'
         /\ \A c \in Containers : containers'[c] = "running" => containers[c] = "running"
  BY DEF WorldTypeOK, Contained, Targets, ClientDown

\* A client proved to be in its recorded, stopped state is down.
LEMMA ProvenDown ==
  ASSUME CInv, fs["safety"] # None, ProvenStopped
  PROVE  ClientDown
<1>1. Coherent(fs["safety"])
  BY DEF CInv, IInv, TypeOK, FilesTypeOK, File, Identified, Owners
<1> QED BY <1>1 DEF Coherent, ProvenStopped, TupleMatches, Recorded, Intent, ClientDown

\* ... and so is one whose every target was found stopped.
LEMMA TargetsDown ==
  ASSUME RollbackProvenStopped
  PROVE  ClientDown
  BY DEF RollbackProvenStopped, Targets, ClientDown

\* Only a transaction's start makes a client count as untouched again, and only
\* an outside hand changes which container is configured.
LEMMA OutsideSteps ==
  ASSUME Next
  PROVE  \/ configured' = configured /\ (~outside' => ~outside)
         \/ Start /\ configured' = configured
         \/ outside'
<1> USE DEF client, Onward, Changed, ContainAndFail
<1>1. CASE Start
  BY <1>1 DEF Start
<1>2. CASE HealthyCheck
  BY <1>2 DEF HealthyCheck
<1>3. CASE CleanOrphan
  BY <1>3 DEF CleanOrphan
<1>4. CASE OpenCandidate
  BY <1>4 DEF OpenCandidate
<1>5. CASE GenerateCandidate
  BY <1>5 DEF GenerateCandidate
<1>6. CASE StageStatic
  BY <1>6 DEF StageStatic
<1>7. CASE DropCandidate
  BY <1>7 DEF DropCandidate
<1>8. CASE TakeSnapshot
  BY <1>8 DEF TakeSnapshot
<1>9. CASE PrepareBackup
  BY <1>9 DEF PrepareBackup
<1>10. CASE PreexcludeCandidate
  BY <1>10 DEF PreexcludeCandidate
<1>11. CASE PrepareSafety
  BY <1>11 DEF PrepareSafety
<1>12. CASE PrepareJournal
  BY <1>12 DEF PrepareJournal
<1>13. CASE StopClient
  BY <1>13 DEF StopClient
<1>14. CASE Checkpoint
  BY <1>14 DEF Checkpoint
<1>15. CASE JournalTransition
  BY <1>15 DEF JournalTransition
<1>16. CASE InterfaceDown
  BY <1>16 DEF InterfaceDown
<1>17. CASE InstallCandidate
  BY <1>17 DEF InstallCandidate
<1>18. CASE InterfaceUp
  BY <1>18 DEF InterfaceUp
<1>19. CASE VerifyNetwork
  BY <1>19 DEF VerifyNetwork
<1>20. CASE RestoreIntent
  BY <1>20 DEF RestoreIntent
<1>21. CASE Prove
  BY <1>21 DEF Prove
<1>22. CASE RemoveCandidate
  BY <1>22 DEF RemoveCandidate
<1>23. CASE RemoveJournal
  BY <1>23 DEF RemoveJournal
<1>24. CASE Commit
  BY <1>24 DEF Commit
<1>25. CASE EnsureIntent
  BY <1>25 DEF EnsureIntent
<1>26. CASE Bookkeeping
  BY <1>26 DEF Bookkeeping
<1>27. CASE MarkFinalizing
  BY <1>27 DEF MarkFinalizing
<1>28. CASE RemoveSafety
  BY <1>28 DEF RemoveSafety
<1>29. CASE ExcludeAgain
  BY <1>29 DEF ExcludeAgain
<1>30. CASE EnterRollback
  BY <1>30 DEF EnterRollback
<1>31. CASE RollbackCheckpoint
  BY <1>31 DEF RollbackCheckpoint
<1>32. CASE InstallBackup
  BY <1>32 DEF InstallBackup
<1>33. CASE CleanupGate
  BY <1>33 DEF CleanupGate
<1>34. CASE ContainAndExit
  BY <1>34 DEF ContainAndExit
<1>35. CASE StartReconcile
  BY <1>35 DEF StartReconcile
<1>36. CASE ReconcileContain
  BY <1>36 DEF ReconcileContain
<1>37. CASE RebarrierPending
  BY <1>37 DEF RebarrierPending
<1>38. CASE Classify
  BY <1>38 DEF Classify
<1>39. CASE Sync
  BY <1>39 DEF Sync
<1>40. CASE StepFails
  BY <1>40 DEF StepFails
<1>41. CASE Kill
  BY <1>41 DEF Kill
<1>42. CASE PowerLoss
  BY <1>42 DEF PowerLoss
<1>43. CASE \E c \in Containers : OutsideStart(c)
  BY <1>43 DEF OutsideStart
<1>44. CASE \E c \in Containers : OutsideReplace(c)
  BY <1>44 DEF OutsideReplace
<1>45. CASE \E p \in Profiles : ExpireExclusion(p)
  BY <1>45 DEF ExpireExclusion
<1>46. CASE Writeback
  BY <1>46 DEF Writeback
<1> QED BY <1>1, <1>2, <1>3, <1>4, <1>5, <1>6, <1>7, <1>8, <1>9, <1>10, <1>11, <1>12,
    <1>13, <1>14, <1>15, <1>16, <1>17, <1>18, <1>19, <1>20, <1>21, <1>22, <1>23, <1>24,
    <1>25, <1>26, <1>27, <1>28, <1>29, <1>30, <1>31, <1>32, <1>33, <1>34, <1>35, <1>36,
    <1>37, <1>38, <1>39, <1>40, <1>41, <1>42, <1>43, <1>44, <1>45, <1>46
    DEF Next, Program, Staging, Forward, Finalize, Rollback, Reconcile, Crash, Outside

\* Steps at which the snapshot names the configured container.
Named == pc \in {"backup", "preexclude"} \/ (pc = "prepare_safety" /\ ~unsynced)

\* The snapshot is taken at one step, kept until the record is written, and read
\* back from the record by a reconciliation.
LEMMA SnapshotSteps ==
  ASSUME ControlTypeOK, Next
  PROVE  /\ snapshot' \in {snapshot, NoSnapshot} \/ TakeSnapshot \/ StartReconcile
         /\ Named' => TakeSnapshot \/ (Named /\ snapshot' = snapshot)
<1> USE DEF ControlTypeOK, Named, At, GoTo, Onward, Changed, Return, Fail, ContainAndFail,
    process, StagingSteps, PlainAborts, CandidateAborts, RollbackSteps, AfterSync
<1>1. CASE Start
  BY <1>1 DEF Start
<1>2. CASE HealthyCheck
  BY <1>2 DEF HealthyCheck
<1>3. CASE CleanOrphan
  BY <1>3 DEF CleanOrphan
<1>4. CASE OpenCandidate
  BY <1>4 DEF OpenCandidate
<1>5. CASE GenerateCandidate
  BY <1>5 DEF GenerateCandidate
<1>6. CASE StageStatic
  BY <1>6 DEF StageStatic
<1>7. CASE DropCandidate
  BY <1>7 DEF DropCandidate
<1>8. CASE TakeSnapshot
  BY <1>8 DEF TakeSnapshot
<1>9. CASE PrepareBackup
  BY <1>9 DEF PrepareBackup
<1>10. CASE PreexcludeCandidate
  BY <1>10 DEF PreexcludeCandidate
<1>11. CASE PrepareSafety
  BY <1>11 DEF PrepareSafety
<1>12. CASE PrepareJournal
  BY <1>12 DEF PrepareJournal
<1>13. CASE StopClient
  BY <1>13 DEF StopClient, OnFailure
<1>14. CASE Checkpoint
  BY <1>14 DEF Checkpoint, AfterCheckpoint, OnFailure
<1>15. CASE JournalTransition
  BY <1>15 DEF JournalTransition, JournalSteps
<1>16. CASE InterfaceDown
  BY <1>16 DEF InterfaceDown
<1>17. CASE InstallCandidate
  BY <1>17 DEF InstallCandidate
<1>18. CASE InterfaceUp
  BY <1>18 DEF InterfaceUp
<1>19. CASE VerifyNetwork
  BY <1>19 DEF VerifyNetwork, OnFailure
<1>20. CASE RestoreIntent
  BY <1>20 DEF RestoreIntent, OnFailure
<1>21. CASE Prove
  BY <1>21 DEF Prove, OnFailure
<1>22. CASE RemoveCandidate
  BY <1>22 DEF RemoveCandidate, AfterSync
<1>23. CASE RemoveJournal
  BY <1>23 DEF RemoveJournal, AfterSync
<1>24. CASE Commit
  BY <1>24 DEF Commit
<1>25. CASE EnsureIntent
  BY <1>25 DEF EnsureIntent, OnFailure
<1>26. CASE Bookkeeping
  BY <1>26 DEF Bookkeeping
<1>27. CASE MarkFinalizing
  BY <1>27 DEF MarkFinalizing
<1>28. CASE RemoveSafety
  BY <1>28 DEF RemoveSafety
<1>29. CASE ExcludeAgain
  BY <1>29 DEF ExcludeAgain
<1>30. CASE EnterRollback
  BY <1>30 DEF EnterRollback, OnFailure
<1>31. CASE RollbackCheckpoint
  BY <1>31 DEF RollbackCheckpoint, AfterRollbackCheckpoint, OnFailure
<1>32. CASE InstallBackup
  BY <1>32 DEF InstallBackup
<1>33. CASE CleanupGate
  BY <1>33 DEF CleanupGate
<1>34. CASE ContainAndExit
  BY <1>34 DEF ContainAndExit
<1>35. CASE StartReconcile
  BY <1>35 DEF StartReconcile
<1>36. CASE ReconcileContain
  BY <1>36 DEF ReconcileContain, OnFailure
<1>37. CASE RebarrierPending
  BY <1>37 DEF RebarrierPending
<1>38. CASE Classify
  BY <1>38 DEF Classify, OnFailure
<1>39. CASE Sync
  BY <1>39 DEF Sync, AfterSync
<1>40. CASE StepFails
  BY <1>40 DEF StepFails, OnFailure
<1>41. CASE Kill
  BY <1>41 DEF Kill
<1>42. CASE PowerLoss
  BY <1>42 DEF PowerLoss
<1>43. CASE \E c \in Containers : OutsideStart(c)
  BY <1>43 DEF OutsideStart
<1>44. CASE \E c \in Containers : OutsideReplace(c)
  BY <1>44 DEF OutsideReplace
<1>45. CASE \E p \in Profiles : ExpireExclusion(p)
  BY <1>45 DEF ExpireExclusion
<1>46. CASE Writeback
  BY <1>46 DEF Writeback
<1> QED BY <1>1, <1>2, <1>3, <1>4, <1>5, <1>6, <1>7, <1>8, <1>9, <1>10, <1>11, <1>12,
    <1>13, <1>14, <1>15, <1>16, <1>17, <1>18, <1>19, <1>20, <1>21, <1>22, <1>23, <1>24,
    <1>25, <1>26, <1>27, <1>28, <1>29, <1>30, <1>31, <1>32, <1>33, <1>34, <1>35, <1>36,
    <1>37, <1>38, <1>39, <1>40, <1>41, <1>42, <1>43, <1>44, <1>45, <1>46
    DEF Next, Program, Staging, Forward, Finalize, Rollback, Reconcile, Crash, Outside

\* Every record and snapshot names the configured container until something
\* else touches the client.
LEMMA IdentifiedStep ==
  ASSUME WritebackBeforeStart, CInv, Next
  PROVE  Identified'
<1> USE DEF CInv
<1>1. Coherent(NoSnapshot)
  BY DEF Coherent, NoSnapshot
<1>2. \A s, t : SameRecord(s, t) /\ Coherent(s) => Coherent(t) /\ t.id = s.id
  BY DEF SameRecord, Coherent
<1>3. Coherent(snapshot')
  <2>1. CASE TakeSnapshot
    <3>1. configured # None => containers[configured] # "unmanaged"
      BY DEF IInv, TypeOK, WorldTypeOK
    <3> QED BY <2>1, <3>1, <1>1 DEF TakeSnapshot, Coherent
  <2>2. CASE StartReconcile
    <3>1. fs["safety"] \in Owners
      BY <2>2 DEF StartReconcile, Owners, IInv, TypeOK, FilesTypeOK, File
    <3> QED BY <2>2, <3>1 DEF StartReconcile, Identified, Coherent
  <2> QED BY <1>1, <2>1, <2>2, SnapshotSteps DEF Identified, IInv, TypeOK
<1>4. PrepareSafety => SameRecord(NewSwitch, NewSwitch) /\ Coherent(NewSwitch)
  BY DEF NewSwitch, SameRecord, Coherent, Identified
<1>5. \A s \in Owners' : Coherent(s)
  <2> SUFFICES ASSUME NEW t \in Owners'
               PROVE  Coherent(t)
    OBVIOUS
  <2> QED BY <1>2, <1>4, RecordSteps DEF Identified, Owners, File
<1>6. ASSUME ~outside'
      PROVE  \A s \in Owners' : s.id = configured'
  <2>1. CASE Start
    BY <2>1 DEF Start, files, Owners, File
  <2>2. CASE ~Start
    <3>1. configured' = configured /\ ~outside
      BY <1>6, <2>2, OutsideSteps
    <3>2. PrepareSafety => NewSwitch.id = configured
      BY <3>1 DEF PrepareSafety, At, NewSwitch, Identified
    <3>3. \A s \in Owners : s.id = configured
      BY <3>1 DEF Identified
    <3> SUFFICES ASSUME NEW t \in Owners'
                 PROVE  t.id = configured
      BY <3>1
    <3> QED BY <1>2, <3>2, <3>3, RecordSteps DEF Owners, File, SameRecord
  <2> QED BY <2>1, <2>2
<1>7. ASSUME Named', ~outside'
      PROVE  snapshot'.id = configured'
  <2>1. CASE TakeSnapshot
    BY <2>1 DEF TakeSnapshot, NoSnapshot, client
  <2>2. CASE ~TakeSnapshot
    <3>1. Named /\ snapshot' = snapshot
      BY <1>7, <2>2, SnapshotSteps DEF IInv, TypeOK
    <3>2. ~Start
      BY <3>1 DEF Start, At, Named
    <3>3. configured' = configured /\ ~outside
      BY <1>7, <3>2, OutsideSteps
    <3> QED BY <3>1, <3>3 DEF Named, Identified
  <2> QED BY <2>1, <2>2
<1> QED BY <1>3, <1>5, <1>6, <1>7 DEF Identified, Named

\* Where the client is known to be down: between the proof and the restart, and
\* after a failed run that left its record pending.
KnownDown == pc \in DownSteps \/ (pc = "idle" /\ exit = "fail" /\ Pending)

\* The client stays down wherever it is known to be.
LEMMA DownStep ==
  ASSUME CInv, Next, KnownDown', ~outside'
  PROVE  ClientDown'
<1> USE DEF CInv, TypeOK, KnownDown, DownSteps, ClientDown, At, GoTo, Onward, Changed,
    Return, Fail, ContainAndFail, process, client, StagingSteps, PlainAborts,
    CandidateAborts, RollbackSteps
<1>a. /\ pc \in {"clean_orphan", "drop_candidate"} \cup StagingSteps
           \/ (pc = "prepare_safety" /\ ~unsynced) => fs["safety"] = None
      /\ pc \in {"mark_finalizing", "remove_safety"} => ~Pending
  BY DEF IInv, StagingControl, NoOwner, FilesTypeOK, File, RecoveryControl,
     FinalizeSteps, Committed, Pending, ClientControl
<1>b. configured' = configured /\ (~outside \/ Start)
  BY OutsideSteps
<1>c. KnownDown /\ ~outside => ClientDown
  BY DEF ClientControl
<1>d. pc \in Steps /\ (unsynced => pc \in DOMAIN AfterSync)
  BY DEF IInv, ControlTypeOK
<1>e. WorldTypeOK
  BY DEF IInv
<1> USE <1>a, <1>b, <1>c
<1>1. CASE Start
  BY <1>1 DEF Start, Pending
<1>2. CASE HealthyCheck
  BY <1>2 DEF HealthyCheck
<1>3. CASE CleanOrphan
  BY <1>3 DEF CleanOrphan
<1>4. CASE OpenCandidate
  BY <1>4 DEF OpenCandidate
<1>5. CASE GenerateCandidate
  BY <1>5 DEF GenerateCandidate
<1>6. CASE StageStatic
  BY <1>6 DEF StageStatic
<1>7. CASE DropCandidate
  BY <1>7 DEF DropCandidate
<1>8. CASE TakeSnapshot
  BY <1>8 DEF TakeSnapshot
<1>9. CASE PrepareBackup
  BY <1>9 DEF PrepareBackup
<1>10. CASE PreexcludeCandidate
  BY <1>10 DEF PreexcludeCandidate
<1>11. CASE PrepareSafety
  BY <1>11 DEF PrepareSafety
<1>12. CASE PrepareJournal
  BY <1>12 DEF PrepareJournal
<1>13. CASE StopClient
  BY <1>13 DEF StopClient, OnFailure
<1>14. CASE Checkpoint
  <2>1. fs["safety"] # None
    BY <1>14 DEF Checkpoint, AfterCheckpoint, IInv, ForwardControl, Owned, Pending,
       PlainAborts, CandidateAborts
  <2>2. CASE ProvenStopped
    BY <1>14, <2>1, <2>2, ProvenDown DEF Checkpoint, AfterCheckpoint
  <2>3. CASE ~ProvenStopped
    BY <1>14, <2>3 DEF Checkpoint, AfterCheckpoint, OnFailure
  <2> QED BY <2>2, <2>3
<1>15. CASE JournalTransition
  BY <1>15 DEF JournalTransition, JournalSteps
<1>16. CASE InterfaceDown
  BY <1>16 DEF InterfaceDown
<1>17. CASE InstallCandidate
  BY <1>17 DEF InstallCandidate
<1>18. CASE InterfaceUp
  BY <1>18 DEF InterfaceUp
<1>19. CASE VerifyNetwork
  BY <1>19 DEF VerifyNetwork, OnFailure
<1>20. CASE RestoreIntent
  BY <1>20 DEF RestoreIntent, OnFailure
<1>21. CASE Prove
  BY <1>21 DEF Prove, OnFailure
<1>22. CASE RemoveCandidate
  BY <1>22 DEF RemoveCandidate, AfterSync
<1>23. CASE RemoveJournal
  BY <1>23 DEF RemoveJournal, AfterSync
<1>24. CASE Commit
  BY <1>24 DEF Commit
<1>25. CASE EnsureIntent
  BY <1>25 DEF EnsureIntent, OnFailure
<1>26. CASE Bookkeeping
  BY <1>26 DEF Bookkeeping
<1>27. CASE MarkFinalizing
  BY <1>27 DEF MarkFinalizing
<1>28. CASE RemoveSafety
  BY <1>28 DEF RemoveSafety
<1>29. CASE ExcludeAgain
  BY <1>29 DEF ExcludeAgain
<1>30. CASE EnterRollback
  BY <1>30, <1>e, ContainedDown DEF EnterRollback, OnFailure
<1>31. CASE RollbackCheckpoint
  <2>1. CASE RollbackProvenStopped
    BY <1>31, <2>1, TargetsDown DEF RollbackCheckpoint, AfterRollbackCheckpoint
  <2>2. CASE ~RollbackProvenStopped
    BY <1>31, <2>2 DEF RollbackCheckpoint, AfterRollbackCheckpoint, OnFailure
  <2> QED BY <2>1, <2>2
<1>32. CASE InstallBackup
  BY <1>32 DEF InstallBackup
<1>33. CASE CleanupGate
  BY <1>33 DEF CleanupGate
<1>34. CASE ContainAndExit
  BY <1>34, <1>e, ContainedDown DEF ContainAndExit
<1>35. CASE StartReconcile
  BY <1>35 DEF StartReconcile
<1>36. CASE ReconcileContain
  BY <1>36, <1>e, ContainedDown DEF ReconcileContain, OnFailure
<1>37. CASE RebarrierPending
  BY <1>37 DEF RebarrierPending
<1>38. CASE Classify
  BY <1>38 DEF Classify, OnFailure
<1>39. CASE Sync
  <2>1. fs' = fs /\ UNCHANGED <<containers, configured, outside>> /\ pc \in DOMAIN AfterSync
    BY <1>39, <1>d DEF Sync, Barrier
  <2>2. AfterSync[pc] # "idle" => pc' = AfterSync[pc]
    BY <1>39 DEF Sync
  <2>3. AfterSync[pc] = "idle" =>
          pc' = "idle" /\ exit' = (IF pc = "drop_candidate" THEN "fail" ELSE "done")
    BY <1>39 DEF Sync
  <2> QED BY <2>1, <2>2, <2>3 DEF AfterSync, Pending
<1>40. CASE StepFails
  <2>1. /\ fs' = fs /\ pc # "idle" /\ configured' = configured
        /\ outside' = (outside \/ pc = "contain_exit")
    BY <1>40 DEF StepFails, files
  <2>2. OnFailure(pc) # "idle" => pc' = OnFailure(pc)
    BY <1>40 DEF StepFails
  <2>3. OnFailure(pc) = "idle" => pc' = "idle"
    BY <1>40 DEF StepFails
  <2>4. OnFailure(pc) = "idle" /\ Pending => pc \in {"rec_barrier", "contain_exit"}
    BY <1>d, <2>1 DEF OnFailure, Steps, FinalizeSteps, ReconcileSteps, Pending
  <2>5. OnFailure(pc) \notin DownSteps
    BY DEF OnFailure
  <2>6. pc = "rec_barrier" => containers' = containers
    BY <1>40 DEF StepFails, ContainsOnFailure, AfterCheckpoint, AfterRollbackCheckpoint
  <2>7. Pending' = Pending
    BY <2>1 DEF Pending
  <2> QED BY <2>1, <2>2, <2>3, <2>4, <2>5, <2>6, <2>7
<1>41. CASE Kill
  BY <1>41 DEF Kill
<1>42. CASE PowerLoss
  BY <1>42 DEF PowerLoss
<1>43. CASE \E c \in Containers : OutsideStart(c)
  BY <1>43 DEF OutsideStart
<1>44. CASE \E c \in Containers : OutsideReplace(c)
  BY <1>44 DEF OutsideReplace
<1>45. CASE \E p \in Profiles : ExpireExclusion(p)
  BY <1>45 DEF ExpireExclusion, files, Pending
<1>46. CASE Writeback
  BY <1>46 DEF Writeback, Barrier, Pending
<1> QED BY <1>1, <1>2, <1>3, <1>4, <1>5, <1>6, <1>7, <1>8, <1>9, <1>10, <1>11, <1>12,
    <1>13, <1>14, <1>15, <1>16, <1>17, <1>18, <1>19, <1>20, <1>21, <1>22, <1>23, <1>24,
    <1>25, <1>26, <1>27, <1>28, <1>29, <1>30, <1>31, <1>32, <1>33, <1>34, <1>35, <1>36,
    <1>37, <1>38, <1>39, <1>40, <1>41, <1>42, <1>43, <1>44, <1>45, <1>46
    DEF Next, Program, Staging, Forward, Finalize, Rollback, Reconcile, Crash, Outside

\* Where the program may start the client, the tunnel of the installed profile
\* is up.
LEMMA LinkStep ==
  ASSUME CInv, Next, pc' \in UpSteps
  PROVE  link' = fs'["active"]
<1> USE DEF UpSteps, At, GoTo, Onward, Changed, Return, Fail, ContainAndFail, process,
    files, StagingSteps, PlainAborts, CandidateAborts, RollbackSteps
<1>a. pc \in UpSteps => link = fs["active"]
  BY DEF CInv, ClientControl
<1>d. unsynced => pc \in DOMAIN AfterSync
  BY DEF CInv, IInv, TypeOK, ControlTypeOK
<1> USE <1>a
<1>1. CASE Start
  BY <1>1 DEF Start
<1>2. CASE HealthyCheck
  BY <1>2 DEF HealthyCheck
<1>3. CASE CleanOrphan
  BY <1>3 DEF CleanOrphan
<1>4. CASE OpenCandidate
  BY <1>4 DEF OpenCandidate
<1>5. CASE GenerateCandidate
  BY <1>5 DEF GenerateCandidate
<1>6. CASE StageStatic
  BY <1>6 DEF StageStatic
<1>7. CASE DropCandidate
  BY <1>7 DEF DropCandidate
<1>8. CASE TakeSnapshot
  BY <1>8 DEF TakeSnapshot
<1>9. CASE PrepareBackup
  BY <1>9 DEF PrepareBackup
<1>10. CASE PreexcludeCandidate
  BY <1>10 DEF PreexcludeCandidate
<1>11. CASE PrepareSafety
  BY <1>11 DEF PrepareSafety
<1>12. CASE PrepareJournal
  BY <1>12 DEF PrepareJournal
<1>13. CASE StopClient
  BY <1>13 DEF StopClient, OnFailure
<1>14. CASE Checkpoint
  BY <1>14 DEF Checkpoint, AfterCheckpoint, OnFailure
<1>15. CASE JournalTransition
  BY <1>15 DEF JournalTransition, JournalSteps
<1>16. CASE InterfaceDown
  BY <1>16 DEF InterfaceDown
<1>17. CASE InstallCandidate
  BY <1>17 DEF InstallCandidate
<1>18. CASE InterfaceUp
  BY <1>18 DEF InterfaceUp
<1>19. CASE VerifyNetwork
  BY <1>19 DEF VerifyNetwork, OnFailure
<1>20. CASE RestoreIntent
  BY <1>20 DEF RestoreIntent, OnFailure
<1>21. CASE Prove
  BY <1>21 DEF Prove, OnFailure
<1>22. CASE RemoveCandidate
  BY <1>22 DEF RemoveCandidate, AfterSync
<1>23. CASE RemoveJournal
  BY <1>23 DEF RemoveJournal, AfterSync
<1>24. CASE Commit
  BY <1>24 DEF Commit
<1>25. CASE EnsureIntent
  BY <1>25 DEF EnsureIntent, OnFailure
<1>26. CASE Bookkeeping
  BY <1>26 DEF Bookkeeping
<1>27. CASE MarkFinalizing
  BY <1>27 DEF MarkFinalizing
<1>28. CASE RemoveSafety
  BY <1>28 DEF RemoveSafety
<1>29. CASE ExcludeAgain
  BY <1>29 DEF ExcludeAgain
<1>30. CASE EnterRollback
  BY <1>30 DEF EnterRollback, OnFailure
<1>31. CASE RollbackCheckpoint
  BY <1>31 DEF RollbackCheckpoint, AfterRollbackCheckpoint, OnFailure
<1>32. CASE InstallBackup
  BY <1>32 DEF InstallBackup
<1>33. CASE CleanupGate
  BY <1>33 DEF CleanupGate
<1>34. CASE ContainAndExit
  BY <1>34 DEF ContainAndExit
<1>35. CASE StartReconcile
  BY <1>35 DEF StartReconcile
<1>36. CASE ReconcileContain
  BY <1>36 DEF ReconcileContain, OnFailure
<1>37. CASE RebarrierPending
  BY <1>37 DEF RebarrierPending
<1>38. CASE Classify
  BY <1>38 DEF Classify, OnFailure
<1>39. CASE Sync
  <2>1. pc \in DOMAIN AfterSync /\ pc' = AfterSync[pc]
    BY <1>39, <1>d DEF Sync
  <2> QED BY <2>1 DEF AfterSync
<1>40. CASE StepFails
  <2>1. pc' = OnFailure(pc)
    BY <1>40 DEF StepFails
  <2> QED BY <2>1 DEF OnFailure
<1>41. CASE Kill
  BY <1>41 DEF Kill
<1>42. CASE PowerLoss
  BY <1>42 DEF PowerLoss
<1>43. CASE \E c \in Containers : OutsideStart(c)
  BY <1>43 DEF OutsideStart
<1>44. CASE \E c \in Containers : OutsideReplace(c)
  BY <1>44 DEF OutsideReplace
<1>45. CASE \E p \in Profiles : ExpireExclusion(p)
  BY <1>45 DEF ExpireExclusion
<1>46. CASE Writeback
  BY <1>46 DEF Writeback
<1> QED BY <1>1, <1>2, <1>3, <1>4, <1>5, <1>6, <1>7, <1>8, <1>9, <1>10, <1>11, <1>12,
    <1>13, <1>14, <1>15, <1>16, <1>17, <1>18, <1>19, <1>20, <1>21, <1>22, <1>23, <1>24,
    <1>25, <1>26, <1>27, <1>28, <1>29, <1>30, <1>31, <1>32, <1>33, <1>34, <1>35, <1>36,
    <1>37, <1>38, <1>39, <1>40, <1>41, <1>42, <1>43, <1>44, <1>45, <1>46
    DEF Next, Program, Staging, Forward, Finalize, Rollback, Reconcile, Crash, Outside

\* Where the record may be removed, the tunnel is up and the client back in its
\* recorded state.
LEMMA ReleaseStep ==
  ASSUME CInv, Next, pc' \in {"remove_safety", "rb_remove_safety"}
  PROVE  /\ ~unsynced' => link' = fs'["active"] /\ (~outside' => IntentHolds')
         /\ pc' = "remove_safety" => ~Pending'
<1> USE DEF CInv, At, GoTo, Onward, Changed, Return, Fail, ContainAndFail, process,
    StagingSteps, PlainAborts, CandidateAborts, RollbackSteps
<1>a. pc \in {"remove_safety", "rb_remove_safety"} =>
        /\ ~unsynced => link = fs["active"] /\ (~outside => IntentHolds)
        /\ pc = "remove_safety" => ~Pending
  BY DEF ClientControl
<1>d. unsynced => pc \in DOMAIN AfterSync
  BY DEF IInv, TypeOK, ControlTypeOK
<1>1. CASE Start
  BY <1>1 DEF Start
<1>2. CASE HealthyCheck
  BY <1>2 DEF HealthyCheck
<1>3. CASE CleanOrphan
  BY <1>3 DEF CleanOrphan
<1>4. CASE OpenCandidate
  BY <1>4 DEF OpenCandidate
<1>5. CASE GenerateCandidate
  BY <1>5 DEF GenerateCandidate
<1>6. CASE StageStatic
  BY <1>6 DEF StageStatic
<1>7. CASE DropCandidate
  BY <1>7 DEF DropCandidate
<1>8. CASE TakeSnapshot
  BY <1>8 DEF TakeSnapshot
<1>9. CASE PrepareBackup
  BY <1>9 DEF PrepareBackup
<1>10. CASE PreexcludeCandidate
  BY <1>10 DEF PreexcludeCandidate
<1>11. CASE PrepareSafety
  BY <1>11 DEF PrepareSafety
<1>12. CASE PrepareJournal
  BY <1>12 DEF PrepareJournal
<1>13. CASE StopClient
  BY <1>13 DEF StopClient, OnFailure
<1>14. CASE Checkpoint
  BY <1>14 DEF Checkpoint, AfterCheckpoint, OnFailure
<1>15. CASE JournalTransition
  BY <1>15 DEF JournalTransition, JournalSteps
<1>16. CASE InterfaceDown
  BY <1>16 DEF InterfaceDown
<1>17. CASE InstallCandidate
  BY <1>17 DEF InstallCandidate
<1>18. CASE InterfaceUp
  BY <1>18 DEF InterfaceUp
<1>19. CASE VerifyNetwork
  BY <1>19 DEF VerifyNetwork, OnFailure
<1>20. CASE RestoreIntent
  BY <1>20 DEF RestoreIntent, OnFailure
<1>21. CASE Prove
  <2>1. Proven(IF pc = "rb_prove_final" THEN fs["safety"].backup
               ELSE fs["safety"].candidate)
    BY <1>21 DEF Prove, OnFailure
  <2>2. /\ fs' = fs /\ link' = link /\ containers' = containers
        /\ configured' = configured /\ snapshot' = snapshot
    BY <1>21, <2>1 DEF Prove, files, client
  <2>3. link' = fs'["active"]
    BY <2>1, <2>2 DEF Proven
  <2>4. IntentHolds'
    BY <2>1, <2>2 DEF Proven, IntentHolds, TupleMatches, Recorded, Intent
  <2>5. pc = "fin_prove" => Committed
    BY DEF IInv, RecoveryControl, FinalizeSteps
  <2>6. pc' = "remove_safety" => pc = "fin_prove"
    BY <1>21 DEF Prove, OnFailure
  <2>7. pc' = "remove_safety" => ~Pending'
    BY <2>2, <2>5, <2>6 DEF Pending, Committed
  <2> QED BY <2>3, <2>4, <2>7
<1>22. CASE RemoveCandidate
  BY <1>22 DEF RemoveCandidate, AfterSync
<1>23. CASE RemoveJournal
  BY <1>23 DEF RemoveJournal, AfterSync
<1>24. CASE Commit
  BY <1>24 DEF Commit
<1>25. CASE EnsureIntent
  BY <1>25 DEF EnsureIntent, OnFailure
<1>26. CASE Bookkeeping
  BY <1>26 DEF Bookkeeping
<1>27. CASE MarkFinalizing
  BY <1>27 DEF MarkFinalizing
<1>28. CASE RemoveSafety
  <2>1. unsynced' /\ fs'["safety"] = None
    BY <1>28 DEF RemoveSafety, Put, IInv, TypeOK, FilesTypeOK, File
  <2> QED BY <2>1 DEF Pending
<1>29. CASE ExcludeAgain
  BY <1>29 DEF ExcludeAgain
<1>30. CASE EnterRollback
  BY <1>30 DEF EnterRollback, OnFailure
<1>31. CASE RollbackCheckpoint
  BY <1>31 DEF RollbackCheckpoint, AfterRollbackCheckpoint, OnFailure
<1>32. CASE InstallBackup
  BY <1>32 DEF InstallBackup
<1>33. CASE CleanupGate
  BY <1>33 DEF CleanupGate
<1>34. CASE ContainAndExit
  BY <1>34 DEF ContainAndExit
<1>35. CASE StartReconcile
  BY <1>35 DEF StartReconcile
<1>36. CASE ReconcileContain
  BY <1>36 DEF ReconcileContain, OnFailure
<1>37. CASE RebarrierPending
  BY <1>37 DEF RebarrierPending
<1>38. CASE Classify
  BY <1>38 DEF Classify, OnFailure
<1>39. CASE Sync
  <2>1. pc \in DOMAIN AfterSync /\ pc' = AfterSync[pc]
    BY <1>39, <1>d DEF Sync
  <2> QED BY <2>1 DEF AfterSync
<1>40. CASE StepFails
  <2>1. pc' = OnFailure(pc)
    BY <1>40 DEF StepFails
  <2> QED BY <2>1 DEF OnFailure
<1>41. CASE Kill
  BY <1>41 DEF Kill
<1>42. CASE PowerLoss
  BY <1>42 DEF PowerLoss
<1>43. CASE \E c \in Containers : OutsideStart(c)
  <2>1. UNCHANGED <<fs, link, pc, unsynced>> /\ outside'
    BY <1>43 DEF OutsideStart, files
  <2> QED BY <2>1, <1>a DEF ClientControl, Pending
<1>44. CASE \E c \in Containers : OutsideReplace(c)
  <2>1. UNCHANGED <<fs, link, pc, unsynced>> /\ outside'
    BY <1>44 DEF OutsideReplace, files
  <2> QED BY <2>1, <1>a DEF ClientControl, Pending
<1>45. CASE \E p \in Profiles : ExpireExclusion(p)
  BY <1>45 DEF ExpireExclusion
<1>46. CASE Writeback
  BY <1>46 DEF Writeback
<1> QED BY <1>1, <1>2, <1>3, <1>4, <1>5, <1>6, <1>7, <1>8, <1>9, <1>10, <1>11, <1>12,
    <1>13, <1>14, <1>15, <1>16, <1>17, <1>18, <1>19, <1>20, <1>21, <1>22, <1>23, <1>24,
    <1>25, <1>26, <1>27, <1>28, <1>29, <1>30, <1>31, <1>32, <1>33, <1>34, <1>35, <1>36,
    <1>37, <1>38, <1>39, <1>40, <1>41, <1>42, <1>43, <1>44, <1>45, <1>46
    DEF Next, Program, Staging, Forward, Finalize, Rollback, Reconcile, Crash, Outside

(* ------------------------ the client's invariant ----------------------- *)

\* The invariant of the client and the tunnel holds at the start and is kept by
\* every step.
LEMMA ClientStep ==
  ASSUME WritebackBeforeStart, CInv, [Next]_vars
  PROVE  CInv'
<1>1. CASE Next
  <2>1. IInv' /\ OneSwitch'
    BY <1>1, StepInv, OneSwitchStep DEF CInv
  <2>2. Identified'
    BY <1>1, IdentifiedStep
  <2>3. ClientControl'
    BY <1>1, DownStep, LinkStep, ReleaseStep DEF ClientControl, KnownDown
  <2> QED BY <2>1, <2>2, <2>3 DEF CInv
<1>2. CASE UNCHANGED vars
  <2>1. IInv'
    BY <1>2, StepInv DEF CInv
  <2>2. OneSwitch' /\ Identified' /\ ClientControl'
    BY <1>2 DEF vars, files, client, process, CInv, OneSwitch, Owners, Identified,
       ClientControl, ClientDown, Pending, IntentHolds, TupleMatches, Recorded, Intent
  <2> QED BY <2>1, <2>2 DEF CInv
<1> QED BY <1>1, <1>2

\* The program starts with no record and no process.
LEMMA ClientInit ==
  ASSUME Init
  PROVE  CInv
<1>1. IInv /\ OneSwitch
  BY InitInv, InitSwitch
<1>2. Owners = {}
  BY DEF Init, Owners, File
<1>3. Identified
  BY <1>2 DEF Identified, Init, NoSnapshot, Coherent
<1>4. ClientControl
  BY DEF ClientControl, Init, DownSteps, UpSteps
<1> QED BY <1>1, <1>3, <1>4 DEF CInv

\* The invariant of the client holds throughout every behaviour.
THEOREM ClientInvariance ==
  ASSUME WritebackBeforeStart
  PROVE  Spec => []CInv
<1>1. Init => CInv
  BY ClientInit
<1>2. CInv /\ [Next]_vars => CInv'
  BY ClientStep
<1> QED BY <1>1, <1>2, PTL DEF Spec

(* ----------------------------- the promises ---------------------------- *)

\* Of the steps of a process only the two restarts start a container, and each
\* starts the recorded one, to be running, on the installed profile's tunnel.
LEMMA StartStep ==
  ASSUME CInv, Next, NEW c \in Containers, pc # "idle", meddles' = meddles,
         containers[c] # "running", containers'[c] = "running"
  PROVE  c = Recorded /\ Intent = "running" /\ link = fs["active"]
<1> USE DEF CInv, Onward, Changed, ContainAndFail, client
<1>b. containers' # containers
  OBVIOUS
<1>e. WorldTypeOK
  BY DEF IInv, TypeOK
<1> USE <1>b
<1>1. CASE Start
  BY <1>1 DEF Start
<1>2. CASE HealthyCheck
  BY <1>2 DEF HealthyCheck, At
<1>3. CASE CleanOrphan
  BY <1>3 DEF CleanOrphan
<1>4. CASE OpenCandidate
  BY <1>4 DEF OpenCandidate
<1>5. CASE GenerateCandidate
  BY <1>5 DEF GenerateCandidate
<1>6. CASE StageStatic
  BY <1>6 DEF StageStatic
<1>7. CASE DropCandidate
  BY <1>7 DEF DropCandidate
<1>8. CASE TakeSnapshot
  BY <1>8 DEF TakeSnapshot
<1>9. CASE PrepareBackup
  BY <1>9 DEF PrepareBackup
<1>10. CASE PreexcludeCandidate
  BY <1>10 DEF PreexcludeCandidate
<1>11. CASE PrepareSafety
  BY <1>11 DEF PrepareSafety
<1>12. CASE PrepareJournal
  BY <1>12 DEF PrepareJournal
<1>13. CASE StopClient
  BY <1>13, <1>e DEF StopClient, WorldTypeOK
<1>14. CASE Checkpoint
  BY <1>14, <1>e, ContainedDown DEF Checkpoint
<1>15. CASE JournalTransition
  BY <1>15 DEF JournalTransition
<1>16. CASE InterfaceDown
  BY <1>16 DEF InterfaceDown
<1>17. CASE InstallCandidate
  BY <1>17 DEF InstallCandidate
<1>18. CASE InterfaceUp
  BY <1>18 DEF InterfaceUp
<1>19. CASE VerifyNetwork
  BY <1>19 DEF VerifyNetwork
<1>20. CASE RestoreIntent
  <2>1. pc \in UpSteps
    BY <1>20 DEF RestoreIntent, UpSteps
  <2>2. link = fs["active"]
    BY <2>1 DEF ClientControl
  <2>3. ~(containers' = Contained)
    BY <1>20, <1>e, ContainedDown DEF RestoreIntent
  <2>4. /\ Intent = "running"
        /\ containers' = [containers EXCEPT ![Recorded] = "running"]
    BY <1>20, <1>b, <2>3 DEF RestoreIntent
  <2> QED BY <2>2, <2>4, <1>b, <1>e DEF WorldTypeOK
<1>21. CASE Prove
  BY <1>21, <1>e, ContainedDown DEF Prove
<1>22. CASE RemoveCandidate
  BY <1>22 DEF RemoveCandidate
<1>23. CASE RemoveJournal
  BY <1>23 DEF RemoveJournal
<1>24. CASE Commit
  BY <1>24 DEF Commit
<1>25. CASE EnsureIntent
  <2>1. pc \in UpSteps
    BY <1>25 DEF EnsureIntent, UpSteps, At
  <2>2. link = fs["active"]
    BY <2>1 DEF ClientControl
  <2>3. ~(containers' = Contained)
    BY <1>25, <1>e, ContainedDown DEF EnsureIntent
  <2>4. /\ Intent = "running"
        /\ containers' = [containers EXCEPT ![Recorded] = "running"]
    BY <1>25, <1>b, <2>3 DEF EnsureIntent
  <2> QED BY <2>2, <2>4, <1>b, <1>e DEF WorldTypeOK
<1>26. CASE Bookkeeping
  BY <1>26 DEF Bookkeeping
<1>27. CASE MarkFinalizing
  BY <1>27 DEF MarkFinalizing
<1>28. CASE RemoveSafety
  BY <1>28 DEF RemoveSafety
<1>29. CASE ExcludeAgain
  BY <1>29 DEF ExcludeAgain
<1>30. CASE EnterRollback
  BY <1>30, <1>e, ContainedDown DEF EnterRollback
<1>31. CASE RollbackCheckpoint
  BY <1>31, <1>e, ContainedDown DEF RollbackCheckpoint
<1>32. CASE InstallBackup
  BY <1>32 DEF InstallBackup
<1>33. CASE CleanupGate
  BY <1>33 DEF CleanupGate
<1>34. CASE ContainAndExit
  BY <1>34, <1>e, ContainedDown DEF ContainAndExit
<1>35. CASE StartReconcile
  BY <1>35 DEF StartReconcile
<1>36. CASE ReconcileContain
  BY <1>36, <1>e, ContainedDown DEF ReconcileContain
<1>37. CASE RebarrierPending
  BY <1>37 DEF RebarrierPending
<1>38. CASE Classify
  BY <1>38 DEF Classify
<1>39. CASE Sync
  BY <1>39 DEF Sync
<1>40. CASE StepFails
  BY <1>40, <1>e, ContainedDown DEF StepFails
<1>41. CASE Kill
  BY <1>41 DEF Kill
<1>42. CASE PowerLoss
  BY <1>42 DEF PowerLoss
<1>43. CASE \E k \in Containers : OutsideStart(k)
  BY <1>43, <1>b, <1>e DEF OutsideStart, WorldTypeOK
<1>44. CASE \E k \in Containers : OutsideReplace(k)
  BY <1>44, <1>b, <1>e DEF OutsideReplace, WorldTypeOK
<1>45. CASE \E p \in Profiles : ExpireExclusion(p)
  BY <1>45 DEF ExpireExclusion
<1>46. CASE Writeback
  BY <1>46 DEF Writeback
<1> QED BY <1>1, <1>2, <1>3, <1>4, <1>5, <1>6, <1>7, <1>8, <1>9, <1>10, <1>11, <1>12,
    <1>13, <1>14, <1>15, <1>16, <1>17, <1>18, <1>19, <1>20, <1>21, <1>22, <1>23, <1>24,
    <1>25, <1>26, <1>27, <1>28, <1>29, <1>30, <1>31, <1>32, <1>33, <1>34, <1>35, <1>36,
    <1>37, <1>38, <1>39, <1>40, <1>41, <1>42, <1>43, <1>44, <1>45, <1>46
    DEF Next, Program, Staging, Forward, Finalize, Rollback, Reconcile, Crash, Outside

\* The interface and the installed profile change by five actions only.
LEMMA StillTunnel ==
  ASSUME IInv, Next,
         ~(PowerLoss \/ InterfaceDown \/ InterfaceUp \/ InstallCandidate \/ InstallBackup)
  PROVE  link' = link /\ fs'["active"] = fs["active"]
<1> USE DEF Onward, Changed, ContainAndFail, files, Barrier
<1>p. \A f \in File \ {"active"} : \A c :
        Put(f, c) => fs'["active"] = fs["active"]
  BY DEF Put, IInv, TypeOK, FilesTypeOK, File
<1> USE <1>p DEF File
<1>1. CASE Start
  BY <1>1 DEF Start
<1>2. CASE HealthyCheck
  BY <1>2 DEF HealthyCheck
<1>3. CASE CleanOrphan
  BY <1>3 DEF CleanOrphan
<1>4. CASE OpenCandidate
  BY <1>4 DEF OpenCandidate
<1>5. CASE GenerateCandidate
  BY <1>5 DEF GenerateCandidate
<1>6. CASE StageStatic
  BY <1>6 DEF StageStatic
<1>7. CASE DropCandidate
  BY <1>7 DEF DropCandidate
<1>8. CASE TakeSnapshot
  BY <1>8 DEF TakeSnapshot
<1>9. CASE PrepareBackup
  BY <1>9 DEF PrepareBackup
<1>10. CASE PreexcludeCandidate
  BY <1>10 DEF PreexcludeCandidate
<1>11. CASE PrepareSafety
  BY <1>11 DEF PrepareSafety
<1>12. CASE PrepareJournal
  BY <1>12 DEF PrepareJournal
<1>13. CASE StopClient
  BY <1>13 DEF StopClient
<1>14. CASE Checkpoint
  BY <1>14 DEF Checkpoint
<1>15. CASE JournalTransition
  BY <1>15 DEF JournalTransition
<1>16. CASE InterfaceDown
  BY <1>16
<1>17. CASE InstallCandidate
  BY <1>17
<1>18. CASE InterfaceUp
  BY <1>18
<1>19. CASE VerifyNetwork
  BY <1>19 DEF VerifyNetwork
<1>20. CASE RestoreIntent
  BY <1>20 DEF RestoreIntent
<1>21. CASE Prove
  BY <1>21 DEF Prove
<1>22. CASE RemoveCandidate
  BY <1>22 DEF RemoveCandidate
<1>23. CASE RemoveJournal
  BY <1>23 DEF RemoveJournal
<1>24. CASE Commit
  BY <1>24 DEF Commit
<1>25. CASE EnsureIntent
  BY <1>25 DEF EnsureIntent
<1>26. CASE Bookkeeping
  BY <1>26 DEF Bookkeeping
<1>27. CASE MarkFinalizing
  BY <1>27 DEF MarkFinalizing
<1>28. CASE RemoveSafety
  BY <1>28 DEF RemoveSafety
<1>29. CASE ExcludeAgain
  BY <1>29 DEF ExcludeAgain
<1>30. CASE EnterRollback
  BY <1>30 DEF EnterRollback
<1>31. CASE RollbackCheckpoint
  BY <1>31 DEF RollbackCheckpoint
<1>32. CASE InstallBackup
  BY <1>32
<1>33. CASE CleanupGate
  BY <1>33 DEF CleanupGate
<1>34. CASE ContainAndExit
  BY <1>34 DEF ContainAndExit
<1>35. CASE StartReconcile
  BY <1>35 DEF StartReconcile
<1>36. CASE ReconcileContain
  BY <1>36 DEF ReconcileContain
<1>37. CASE RebarrierPending
  BY <1>37 DEF RebarrierPending
<1>38. CASE Classify
  BY <1>38 DEF Classify
<1>39. CASE Sync
  BY <1>39 DEF Sync
<1>40. CASE StepFails
  BY <1>40 DEF StepFails
<1>41. CASE Kill
  BY <1>41 DEF Kill
<1>42. CASE PowerLoss
  BY <1>42
<1>43. CASE \E c \in Containers : OutsideStart(c)
  BY <1>43 DEF OutsideStart
<1>44. CASE \E c \in Containers : OutsideReplace(c)
  BY <1>44 DEF OutsideReplace
<1>45. CASE \E p \in Profiles : ExpireExclusion(p)
  BY <1>45 DEF ExpireExclusion
<1>46. CASE Writeback
  BY <1>46 DEF Writeback
<1> QED BY <1>1, <1>2, <1>3, <1>4, <1>5, <1>6, <1>7, <1>8, <1>9, <1>10, <1>11, <1>12,
    <1>13, <1>14, <1>15, <1>16, <1>17, <1>18, <1>19, <1>20, <1>21, <1>22, <1>23, <1>24,
    <1>25, <1>26, <1>27, <1>28, <1>29, <1>30, <1>31, <1>32, <1>33, <1>34, <1>35, <1>36,
    <1>37, <1>38, <1>39, <1>40, <1>41, <1>42, <1>43, <1>44, <1>45, <1>46
    DEF Next, Program, Staging, Forward, Finalize, Rollback, Reconcile, Crash, Outside

\* With no process, the program's only start is the check's: of the configured
\* container, on the installed profile's tunnel.
LEMMA IdleStart ==
  ASSUME IInv, Next, pc = "idle", ~outside', NEW c \in Containers,
         containers[c] # "running", containers'[c] = "running"
  PROVE  link = fs["active"]
<1> USE DEF At, Onward, Changed, ContainAndFail, client
<1>b. WorldTypeOK
  BY DEF IInv, TypeOK
<1>d. unsynced => pc \in DOMAIN AfterSync
  BY DEF IInv, TypeOK, ControlTypeOK
<1>1. CASE Start
  BY <1>1 DEF Start
<1>2. CASE HealthyCheck
  BY <1>2 DEF HealthyCheck, WorldTypeOK
<1>3. CASE CleanOrphan
  BY <1>3 DEF CleanOrphan
<1>4. CASE OpenCandidate
  BY <1>4 DEF OpenCandidate
<1>5. CASE GenerateCandidate
  BY <1>5 DEF GenerateCandidate
<1>6. CASE StageStatic
  BY <1>6 DEF StageStatic
<1>7. CASE DropCandidate
  BY <1>7 DEF DropCandidate
<1>8. CASE TakeSnapshot
  BY <1>8 DEF TakeSnapshot
<1>9. CASE PrepareBackup
  BY <1>9 DEF PrepareBackup
<1>10. CASE PreexcludeCandidate
  BY <1>10 DEF PreexcludeCandidate
<1>11. CASE PrepareSafety
  BY <1>11 DEF PrepareSafety
<1>12. CASE PrepareJournal
  BY <1>12 DEF PrepareJournal
<1>13. CASE StopClient
  BY <1>13 DEF StopClient
<1>14. CASE Checkpoint
  BY <1>14 DEF Checkpoint, AfterCheckpoint
<1>15. CASE JournalTransition
  BY <1>15 DEF JournalTransition
<1>16. CASE InterfaceDown
  BY <1>16 DEF InterfaceDown
<1>17. CASE InstallCandidate
  BY <1>17 DEF InstallCandidate
<1>18. CASE InterfaceUp
  BY <1>18 DEF InterfaceUp
<1>19. CASE VerifyNetwork
  BY <1>19 DEF VerifyNetwork
<1>20. CASE RestoreIntent
  BY <1>20 DEF RestoreIntent
<1>21. CASE Prove
  BY <1>21 DEF Prove
<1>22. CASE RemoveCandidate
  BY <1>22 DEF RemoveCandidate
<1>23. CASE RemoveJournal
  BY <1>23 DEF RemoveJournal
<1>24. CASE Commit
  BY <1>24 DEF Commit
<1>25. CASE EnsureIntent
  BY <1>25 DEF EnsureIntent
<1>26. CASE Bookkeeping
  BY <1>26 DEF Bookkeeping
<1>27. CASE MarkFinalizing
  BY <1>27 DEF MarkFinalizing
<1>28. CASE RemoveSafety
  BY <1>28 DEF RemoveSafety
<1>29. CASE ExcludeAgain
  BY <1>29 DEF ExcludeAgain
<1>30. CASE EnterRollback
  BY <1>30 DEF EnterRollback
<1>31. CASE RollbackCheckpoint
  BY <1>31 DEF RollbackCheckpoint, AfterRollbackCheckpoint
<1>32. CASE InstallBackup
  BY <1>32 DEF InstallBackup
<1>33. CASE CleanupGate
  BY <1>33 DEF CleanupGate
<1>34. CASE ContainAndExit
  BY <1>34 DEF ContainAndExit
<1>35. CASE StartReconcile
  BY <1>35 DEF StartReconcile
<1>36. CASE ReconcileContain
  BY <1>36 DEF ReconcileContain
<1>37. CASE RebarrierPending
  BY <1>37 DEF RebarrierPending
<1>38. CASE Classify
  BY <1>38 DEF Classify
<1>39. CASE Sync
  BY <1>39 DEF Sync
<1>40. CASE StepFails
  BY <1>40 DEF StepFails
<1>41. CASE Kill
  BY <1>41 DEF Kill
<1>42. CASE PowerLoss
  BY <1>42 DEF PowerLoss
<1>43. CASE \E k \in Containers : OutsideStart(k)
  BY <1>43 DEF OutsideStart
<1>44. CASE \E k \in Containers : OutsideReplace(k)
  BY <1>44 DEF OutsideReplace
<1>45. CASE \E p \in Profiles : ExpireExclusion(p)
  BY <1>45 DEF ExpireExclusion
<1>46. CASE Writeback
  BY <1>46 DEF Writeback
<1> QED BY <1>1, <1>2, <1>3, <1>4, <1>5, <1>6, <1>7, <1>8, <1>9, <1>10, <1>11, <1>12,
    <1>13, <1>14, <1>15, <1>16, <1>17, <1>18, <1>19, <1>20, <1>21, <1>22, <1>23, <1>24,
    <1>25, <1>26, <1>27, <1>28, <1>29, <1>30, <1>31, <1>32, <1>33, <1>34, <1>35, <1>36,
    <1>37, <1>38, <1>39, <1>40, <1>41, <1>42, <1>43, <1>44, <1>45, <1>46
    DEF Next, Program, Staging, Forward, Finalize, Rollback, Reconcile, Crash, Outside

\* The operator and Docker act on containers only as an outside hand.
LEMMA OutsideMeddles ==
  ASSUME Next, meddles' # meddles
  PROVE  outside'
<1> USE DEF Onward, Changed, ContainAndFail, budgets
<1>1. CASE Start
  BY <1>1 DEF Start
<1>2. CASE HealthyCheck
  BY <1>2 DEF HealthyCheck
<1>3. CASE CleanOrphan
  BY <1>3 DEF CleanOrphan
<1>4. CASE OpenCandidate
  BY <1>4 DEF OpenCandidate
<1>5. CASE GenerateCandidate
  BY <1>5 DEF GenerateCandidate
<1>6. CASE StageStatic
  BY <1>6 DEF StageStatic
<1>7. CASE DropCandidate
  BY <1>7 DEF DropCandidate
<1>8. CASE TakeSnapshot
  BY <1>8 DEF TakeSnapshot
<1>9. CASE PrepareBackup
  BY <1>9 DEF PrepareBackup
<1>10. CASE PreexcludeCandidate
  BY <1>10 DEF PreexcludeCandidate
<1>11. CASE PrepareSafety
  BY <1>11 DEF PrepareSafety
<1>12. CASE PrepareJournal
  BY <1>12 DEF PrepareJournal
<1>13. CASE StopClient
  BY <1>13 DEF StopClient
<1>14. CASE Checkpoint
  BY <1>14 DEF Checkpoint
<1>15. CASE JournalTransition
  BY <1>15 DEF JournalTransition
<1>16. CASE InterfaceDown
  BY <1>16 DEF InterfaceDown
<1>17. CASE InstallCandidate
  BY <1>17 DEF InstallCandidate
<1>18. CASE InterfaceUp
  BY <1>18 DEF InterfaceUp
<1>19. CASE VerifyNetwork
  BY <1>19 DEF VerifyNetwork
<1>20. CASE RestoreIntent
  BY <1>20 DEF RestoreIntent
<1>21. CASE Prove
  BY <1>21 DEF Prove
<1>22. CASE RemoveCandidate
  BY <1>22 DEF RemoveCandidate
<1>23. CASE RemoveJournal
  BY <1>23 DEF RemoveJournal
<1>24. CASE Commit
  BY <1>24 DEF Commit
<1>25. CASE EnsureIntent
  BY <1>25 DEF EnsureIntent
<1>26. CASE Bookkeeping
  BY <1>26 DEF Bookkeeping
<1>27. CASE MarkFinalizing
  BY <1>27 DEF MarkFinalizing
<1>28. CASE RemoveSafety
  BY <1>28 DEF RemoveSafety
<1>29. CASE ExcludeAgain
  BY <1>29 DEF ExcludeAgain
<1>30. CASE EnterRollback
  BY <1>30 DEF EnterRollback
<1>31. CASE RollbackCheckpoint
  BY <1>31 DEF RollbackCheckpoint
<1>32. CASE InstallBackup
  BY <1>32 DEF InstallBackup
<1>33. CASE CleanupGate
  BY <1>33 DEF CleanupGate
<1>34. CASE ContainAndExit
  BY <1>34 DEF ContainAndExit
<1>35. CASE StartReconcile
  BY <1>35 DEF StartReconcile
<1>36. CASE ReconcileContain
  BY <1>36 DEF ReconcileContain
<1>37. CASE RebarrierPending
  BY <1>37 DEF RebarrierPending
<1>38. CASE Classify
  BY <1>38 DEF Classify
<1>39. CASE Sync
  BY <1>39 DEF Sync
<1>40. CASE StepFails
  BY <1>40 DEF StepFails
<1>41. CASE Kill
  BY <1>41 DEF Kill
<1>42. CASE PowerLoss
  BY <1>42 DEF PowerLoss
<1>43. CASE \E c \in Containers : OutsideStart(c)
  BY <1>43 DEF OutsideStart
<1>44. CASE \E c \in Containers : OutsideReplace(c)
  BY <1>44 DEF OutsideReplace
<1>45. CASE \E p \in Profiles : ExpireExclusion(p)
  BY <1>45 DEF ExpireExclusion
<1>46. CASE Writeback
  BY <1>46 DEF Writeback
<1> QED BY <1>1, <1>2, <1>3, <1>4, <1>5, <1>6, <1>7, <1>8, <1>9, <1>10, <1>11, <1>12,
    <1>13, <1>14, <1>15, <1>16, <1>17, <1>18, <1>19, <1>20, <1>21, <1>22, <1>23, <1>24,
    <1>25, <1>26, <1>27, <1>28, <1>29, <1>30, <1>31, <1>32, <1>33, <1>34, <1>35, <1>36,
    <1>37, <1>38, <1>39, <1>40, <1>41, <1>42, <1>43, <1>44, <1>45, <1>46
    DEF Next, Program, Staging, Forward, Finalize, Rollback, Reconcile, Crash, Outside

\* Without an outside hand, no step puts the client off the tunnel of the
\* installed profile: where the interface or the profile changes, the client is
\* down, and where the client is started, the tunnel is up.
LEMMA TunnelStep ==
  ASSUME CInv, Next, ~outside', ClientOffTunnel'
  PROVE  ClientOffTunnel
<1> USE DEF ClientOffTunnel
<1>a. configured' = configured /\ configured # None
  BY OutsideSteps
<1>b. WorldTypeOK /\ configured \in Containers
  BY <1>a DEF CInv, IInv, TypeOK, WorldTypeOK
<1>c. pc \in {"down", "rb_down", "install", "rb_install"} /\ ~outside =>
        containers[configured] # "running"
  BY <1>a DEF CInv, ClientControl, DownSteps, ClientDown
<1>d. ~outside \/ Start
  BY OutsideSteps
<1>1. CASE Start
  BY <1>1 DEF Start, files, client
<1>2. CASE PowerLoss
  BY <1>2, <1>a, <1>b DEF PowerLoss, client
<1>3. CASE InterfaceDown \/ InterfaceUp \/ InstallCandidate \/ InstallBackup
  <2>1. CASE InterfaceUp
    BY <2>1 DEF InterfaceUp, files
  <2>2. CASE InterfaceDown
    BY <2>2, <1>a, <1>c, <1>d DEF InterfaceDown, Start, At, client
  <2>3. CASE InstallCandidate
    BY <2>3, <1>a, <1>c, <1>d DEF InstallCandidate, Start, At, Changed, client
  <2>4. CASE InstallBackup
    BY <2>4, <1>a, <1>c, <1>d DEF InstallBackup, Start, At, Changed, client
  <2> QED BY <1>3, <2>1, <2>2, <2>3, <2>4
<1>4. CASE ~(Start \/ PowerLoss \/ InterfaceDown \/ InterfaceUp \/ InstallCandidate
               \/ InstallBackup)
  <2>1. link' = link /\ fs'["active"] = fs["active"]
    BY <1>4, StillTunnel DEF CInv
  <2>2. CASE containers[configured] # "running"
    <3>1. containers'[configured] = "running"
      BY <1>a
    <3>2. CASE pc # "idle" /\ meddles' = meddles
      BY <1>b, <2>1, <2>2, <3>1, <3>2, StartStep
    <3>3. CASE pc = "idle"
      BY <1>4, <1>a, <1>b, <2>1, <2>2, <3>1, <3>3, IdleStart DEF CInv
    <3>4. CASE meddles' # meddles
      BY <3>4, OutsideMeddles
    <3> QED BY <3>2, <3>3, <3>4
  <2>3. CASE containers[configured] = "running"
    BY <1>a, <2>1, <2>3
  <2> QED BY <2>2, <2>3
<1> QED BY <1>1, <1>2, <1>3, <1>4

\* Only RemoveSafety takes the record away while its process runs on.
LEMMA OnlyRemoveSafety ==
  ASSUME IInv, Next, pc # "idle", pc' = pc, fs["safety"] # None, fs'["safety"] = None
  PROVE  RemoveSafety
<1> USE DEF IInv, TypeOK
<1>1. ~UNCHANGED files
  BY DEF files
<1>2. \A f \in File \ {"safety"} : \A c : ~Put(f, c)
  BY OtherFile
<1>3. ~(CleanOrphan \/ OpenCandidate \/ GenerateCandidate \/ StageStatic
          \/ DropCandidate \/ PrepareBackup \/ PrepareJournal \/ JournalTransition
          \/ InstallCandidate \/ RemoveCandidate \/ RemoveJournal \/ InstallBackup)
  BY <1>1, <1>2 DEF CleanOrphan, OpenCandidate, GenerateCandidate, StageStatic,
     DropCandidate, PrepareBackup, PrepareJournal, JournalTransition, InstallCandidate,
     RemoveCandidate, RemoveJournal, InstallBackup, Onward, Changed, File
<1>4. ~(Sync \/ RebarrierPending \/ Writeback \/ PowerLoss)
  BY DEF Sync, RebarrierPending, Writeback, PowerLoss, Barrier, Return
<1>5. ~PrepareSafety
  BY DEF PrepareSafety, At, StagingControl, NoOwner, FilesTypeOK, File
<1>6. ~Commit
  <2> SUFFICES ASSUME Commit PROVE FALSE
    OBVIOUS
  <2> DEFINE new == [fs["safety"] EXCEPT !.state = "committed"]
  <2>1. Owned
    BY DEF Commit, At, Owned
  <2>2. new # None
    BY <2>1, OwnerFacts, RewrittenState
  <2>3. Put("safety", new)
    BY DEF Commit, Changed
  <2> HIDE DEF new
  <2> QED BY <2>2, <2>3 DEF Put, FilesTypeOK, File
<1>7. ~MarkFinalizing
  <2> SUFFICES ASSUME MarkFinalizing PROVE FALSE
    OBVIOUS
  <2> DEFINE new == [fs["safety"] EXCEPT !.state = "finalizing"]
  <2>1. fs["safety"] \in SafetyRecord
    BY DEF FilesTypeOK, File
  <2>2. new # None
    BY <2>1, RewrittenState
  <2>3. Put("safety", new)
    BY DEF MarkFinalizing, Changed
  <2> HIDE DEF new
  <2> QED BY <2>2, <2>3 DEF Put, FilesTypeOK, File
<1> QED BY <1>1, <1>3, <1>4, <1>5, <1>6, <1>7, QuietSteps DEF FileStep

\* The record goes with the decided side installed, certain and up, and the
\* client, if nothing else touched it, as recorded.
LEMMA ReleasedRestored ==
  ASSUME CInv, RemoveSafety, fs["safety"] # None
  PROVE  LET side == IF Pending THEN fs["safety"].backup ELSE fs["safety"].candidate
         IN /\ fs["active"] = side /\ disk["active"] = {side} /\ link = side
            /\ ~outside /\ Intent # "unmanaged" => containers[Recorded] = Intent
<1> DEFINE side == IF Pending THEN fs["safety"].backup ELSE fs["safety"].candidate
<1> USE DEF CInv, IInv, TypeOK
<1>1. link = fs["active"] /\ (~outside => IntentHolds)
  BY DEF RemoveSafety, ClientControl
<1>2. fs["active"] \in disk["active"] /\ fs["safety"] \in disk["safety"]
  BY DEF FilesTypeOK, File
<1>3. disk["active"] = {side}
  <2>1. CASE pc = "rb_remove_safety"
    <3>1. Pending /\ disk["active"] = {fs["safety"].backup}
      BY <2>1 DEF RemoveSafety, ForwardControl, Owned, RecoveryControl, Restored
    <3> QED BY <3>1
  <2>2. CASE pc = "remove_safety"
    <3>1. Committed
      BY <2>2 DEF RemoveSafety, RecoveryControl
    <3>2. ~Pending /\ fs["safety"].state # "pending"
      BY <3>1 DEF Committed, Pending
    <3>3. Fits(fs["safety"], disk)
      BY <1>2 DEF Agreement
    <3>4. \A a \in disk["active"] : a = side
      BY <3>2, <3>3 DEF Fits
    <3> HIDE DEF side
    <3> QED BY <1>2, <3>4
  <2> QED BY <2>1, <2>2 DEF RemoveSafety
<1>4. fs["active"] = side
  BY <1>2, <1>3
<1>5. ~outside /\ Intent # "unmanaged" => containers[Recorded] = Intent
  BY <1>1 DEF IntentHolds
<1> QED BY <1>1, <1>3, <1>4, <1>5

\* A client that is down is not running as the container a record names.
LEMMA RecordedDown ==
  ASSUME CInv
  PROVE  FailedRunLeavesClientStopped
<1> SUFFICES ASSUME ~outside, pc = "idle", exit = "fail", Pending, Intent # "unmanaged"
             PROVE  containers[Recorded] # "running"
  BY DEF FailedRunLeavesClientStopped
<1>1. ClientDown
  BY DEF CInv, ClientControl
<1>2. fs["safety"] \in Owners
  BY DEF CInv, IInv, TypeOK, FilesTypeOK, File, Pending, Owners
<1>3. fs["safety"].id = configured /\ Coherent(fs["safety"])
  BY <1>2 DEF CInv, Identified
<1> QED BY <1>1, <1>3 DEF ClientDown, Coherent, Recorded, Intent, Pending

\* A run of the managed runtime that failed and left a pending record left the
\* client stopped: containment precedes every such exit.
THEOREM FailuresContained ==
  ASSUME WritebackBeforeStart
  PROVE  Spec => []FailedRunLeavesClientStopped
<1>1. CInv => FailedRunLeavesClientStopped
  BY RecordedDown
<1> QED BY <1>1, ClientInvariance, PTL

\* Whatever Docker or the operator does, the program's own steps under a switch
\* start no container but the recorded one, with the tunnel up.
THEOREM OnlyRecordedStarts ==
  ASSUME WritebackBeforeStart
  PROVE  Spec => StartsOnlyRecorded
<1> DEFINE Starts ==
      \A c \in Containers :
        /\ pc # "idle" /\ meddles' = meddles
        /\ containers[c] # "running" /\ containers'[c] = "running"
        => c = Recorded /\ Intent = "running" /\ link = fs["active"]
<1>1. CInv /\ [Next]_vars => [Starts]_vars
  BY StartStep
<1> QED BY <1>1, ClientInvariance, PTL DEF Spec, StartsOnlyRecorded

\* With no outside hand, no step of the program, no kill and no power loss puts
\* the client on anything but the tunnel of the installed profile.
THEOREM NeverLeavesTunnel ==
  ASSUME WritebackBeforeStart
  PROVE  Spec => ClientNeverLeavesTunnel
<1>1. CInv /\ [Next]_vars => [~outside' /\ ClientOffTunnel' => ClientOffTunnel]_vars
  BY TunnelStep
<1> QED BY <1>1, ClientInvariance, PTL DEF Spec, ClientNeverLeavesTunnel

\* managed_safety_remove comes last: what the record decided is then true of the
\* profile, the tunnel and the client.
THEOREM RestoredBeforeRelease ==
  ASSUME WritebackBeforeStart
  PROVE  Spec => ReleasedOnlyWhenRestored
<1> DEFINE Released ==
      pc # "idle" /\ fs["safety"] # None /\ fs'["safety"] = None /\ pc' = pc =>
        LET side == IF Pending THEN fs["safety"].backup ELSE fs["safety"].candidate
        IN /\ fs["active"] = side /\ disk["active"] = {side} /\ link = side
           /\ ~outside /\ Intent # "unmanaged"
                => containers[Recorded] = Intent
<1>1. CInv /\ [Next]_vars => [Released]_vars
  <2> SUFFICES ASSUME CInv, Next, pc # "idle", fs["safety"] # None,
                      fs'["safety"] = None, pc' = pc
               PROVE  LET side == IF Pending THEN fs["safety"].backup
                                  ELSE fs["safety"].candidate
                      IN /\ fs["active"] = side /\ disk["active"] = {side}
                         /\ link = side
                         /\ ~outside /\ Intent # "unmanaged"
                              => containers[Recorded] = Intent
    OBVIOUS
  <2>1. RemoveSafety
    BY OnlyRemoveSafety DEF CInv
  <2> QED BY <2>1, ReleasedRestored
<1> QED BY <1>1, ClientInvariance, PTL DEF Spec, ReleasedOnlyWhenRestored
=============================================================================
