----------------------------- MODULE SetupApply -----------------------------
(***************************************************************************)
(* The transaction engine of the guided setup (application.py of           *)
(* libexec/wg_healthcheck_setup, over store.py and apply_system.py): one   *)
(* invocation under the exclusive lease stops the units, recovers what an  *)
(* earlier invocation left, applies one request and proves it healthy, and *)
(* every call it makes may fail or be the last one it makes.               *)
(*                                                                         *)
(* Durability.  images is what a power loss may leave of health_dir: the   *)
(* first is durable, the last is what a process sees (Disk).  A completed  *)
(* store call ends in a directory barrier, so it leaves one image; a call  *)
(* that fails or is cut may leave its change behind, not yet durable.      *)
(*                                                                         *)
(* The runtime's commands are one step each, with every result their own   *)
(* modules allow: completed, refused, failed or killed (a client call      *)
(* lasts 65 s at most) after any of their effects.  A killed setup leaves  *)
(* the command it waits for running under the inherited lease, so nothing  *)
(* acts before the command ends.                                           *)
(***************************************************************************)
EXTENDS SetupRecords, Naturals, Sequences

CONSTANTS Requests,   \* the requests the operator may make
          Initial,    \* the installations setup may start from
          Faults,     \* the kinds of faults: "error", "runtime", "kill"
          MaxFaults,  \* bound on faults
          Windows     \* windows the code leaves open, explored only when named here:
                      \* see Exposed, Unmanaged, Lingering, Survivors,
                      \* RotatesRestoration

ASSUME ApplyAssumption ==
  /\ Requests \subseteq Request /\ None \notin Request \cup {"own", "moved", "managed"}
  /\ Initial \subseteq [config : Config, credential : Keys \cup {None},
                        profile : {"own", "managed", None}, preManaged : {"own", None}]
  /\ \A i \in Initial :
       i.config.source = "api" => i.credential # None /\ i.profile # None
  /\ Faults \subseteq {"error", "runtime", "kill"}
  /\ Windows \subseteq {"unrecorded rollback", "moved restore", "reordered",
                         "unmanaged restore", "unsynced removal"}
  /\ MaxFaults \in Nat

VARIABLES
  images,   \* sequence of Directory: what a power loss may leave of health_dir
  wg,       \* profile, pre-managed snapshot, candidate and switch in progress
  status,   \* "good": newer than the last proof start, and healthy or recovered
  timer,    \* the timer unit is enabled
  pc,       \* the step the invocation is at; "idle": no invocation
  run,      \* what the invocation holds in memory
  verdict,  \* how the last invocation ended
  txn,      \* history of the last transaction: what it found, what it was asked
  faults

vars == <<images, wg, status, timer, pc, run, verdict, txn, faults>>

(* ------------------------------- the host ------------------------------ *)

\* "own" is the operator's profile, "moved" the same with another endpoint,
\* "managed" any profile AirVPN generated.
Profiles == {"own", "moved", "managed"}

\* A switch cut in the middle leaves pending and safety records: the set of
\* profiles a later reconciliation may settle on, empty without a record.
Host == [profile : Profiles \cup {None}, preManaged : Profiles \cup {None},
         candidate : BOOLEAN, switching : SUBSET Profiles]

Triple(d) == [source |-> d.config.source, settings |-> d.config.settings,
              key |-> d.credential]
Triples == [source : {"static", "api"}, settings : Settings, key : Keys \cup {None}]

Disk == images[Len(images)]
Dirty(d) == IF d = Disk THEN images ELSE Append(images, d)
DirtyVia(cut, d) == IF cut \in {Disk, d} THEN Dirty(d) ELSE Append(Append(images, cut), d)

\* An entry missing from images[i] may be lost on its own only in the window
\* "reordered": otherwise the directory reaches the disk in the order written.
Survivors(left) ==
  {left[i] : i \in 1..Len(left)} \cup
    (IF "reordered" \in Windows
       THEN {[journal |-> left[i].journal, config |-> left[j].config,
              credential |-> left[j].credential, configPrevious |-> left[k].configPrevious,
              credentialPrevious |-> left[k].credentialPrevious, staging |-> left[j].staging] :
               i, j, k \in 1..Len(left)}
       ELSE {})

NoRun == [request |-> None, supplied |-> None, recovering |-> FALSE,
          caller |-> "none", journal |-> None]

Callers == {"none",      \* before the transaction
            "recovery",  \* _recover_setup_transaction, up to its decision
            "rollback",  \* its rollback
            "apply",     \* the try block of _apply_api and _apply_static
            "undo",      \* the rollback of their except block
            "keep",      \* the clean-up that keeps a restored static profile
            "finalize",  \* _finalize_verified
            "post"}      \* _run_post_commit_actions

Steps == {"idle", "enter", "stop", "discard", "reconcile", "unstage", "classify",
          "unadopt", "restoreConfig", "restoreKey", "dropPreManaged", "markRolledBack",
          "cleanConfig", "cleanKey", "cleanJournal",
          "ready", "validate", "prepare", "snapshotConfig", "snapshotKey", "writeConfig",
          "markConfig", "writeKey", "markKey", "revalidate", "activate",
          "markActivating", "restoreStatic", "markActivated",
          "beginProof", "markVerifying", "verify", "markVerified",
          "reset", "removeKey", "enable"}

RollbackSteps == {"unadopt", "restoreConfig", "restoreKey", "dropPreManaged", "markRolledBack"}

Verdicts == {"none", "done", "refused", "inadmissible", "stuck", "blocked", "failed",
             "incomplete", "kept", "unfinalized", "committed", "killed"}

\* The answers that say a change is in force: they must outlive a power loss.
Committed == {"done", "kept", "unfinalized", "committed"}

\* A rollback is recorded when it is complete: until then the journal may be
\* one that recovery commits, on a health proof that comes after all.
MayStillCommit(d) ==
  /\ d.journal # None
  /\ \/ d.journal.phase = "verifying"
     \/ d.journal.phase = "activated" /\ d.journal.operation = "api-update"

Exposed ==
  /\ pc \in RollbackSteps /\ MayStillCommit(Disk)
  /\ Disk.journal.phase = "verifying" => status = "good"

\* A restoration without a profile or a snapshot of one is under way: recovery
\* could not read the profiles it decides by.
Unmanaged ==
  /\ pc \in {"markActivating", "restoreStatic", "restoreConfig", "markRolledBack"}
  /\ run.journal.operation = "static-restore" /\ None \in {wg.profile, wg.preManaged}

\* What recovery makes of an image: an open transaction counts for what its
\* snapshots hold.
Recovered(d) ==
  LET j == d.journal
      config == IF d.configPrevious # None THEN d.configPrevious ELSE d.config
      key == CASE ~j.keyChanged -> d.credential
               [] j.keyChanged /\ ~j.hadKey -> None
               [] OTHER -> IF d.credentialPrevious # None THEN d.credentialPrevious
                                                          ELSE d.credential
  IN IF j = None THEN Triple(d)
       ELSE IF j.phase \in ClosedPhases THEN Triple(d)
       ELSE [source |-> config.source, settings |-> config.settings, key |-> key]

\* The record is being removed while recovery could make something else of an
\* image: what was done without a sync is not done again, and so never synced.
Lingering ==
  /\ pc = "cleanJournal"
  /\ \E i \in 1..Len(images) : {Triple(images[i]), Recovered(images[i])} # {Triple(Disk)}

Init ==
  /\ \E i \in Initial :
       /\ images = <<[journal |-> None, config |-> i.config, credential |-> i.credential,
                      configPrevious |-> None, credentialPrevious |-> None, staging |-> {}]>>
       /\ wg = [profile |-> i.profile, preManaged |-> i.preManaged,
                 candidate |-> FALSE, switching |-> {}]
  /\ status = "stale"
  /\ timer = FALSE
  /\ pc = "idle"
  /\ run = NoRun
  /\ verdict = "none"
  /\ txn = [before |-> Triple(Disk), after |-> Triple(Disk), profile |-> wg.profile,
            adopts |-> FALSE, kept |-> FALSE, undone |-> FALSE, removes |-> FALSE]
  /\ faults = 0

(* -------------------------- control of one run ------------------------- *)

Spend(fault) ==
  /\ fault \in Faults /\ faults < MaxFaults
  /\ Exposed => "unrecorded rollback" \in Windows
  /\ Unmanaged => "unmanaged restore" \in Windows
  /\ Lingering => "unsynced removal" \in Windows
  /\ faults' = faults + 1

Go(next, self) == pc' = next /\ run' = self /\ UNCHANGED verdict

End(outcome) == pc' = "idle" /\ run' = NoRun /\ verdict' = outcome

\* A SetupError, or an interrupt, out of a call that leaves images'.
Raise(self) ==
  LET left == images'[Len(images')]
  IN CASE self.caller \in {"none", "recovery", "rollback"} -> End("refused")
       [] self.caller = "undo" -> End("incomplete")
       [] self.caller \in {"finalize", "keep"} -> End("unfinalized")
       [] self.caller = "post" -> End("committed")
       [] self.caller = "apply" /\ txn.kept ->
            Go("cleanConfig", [self EXCEPT !.caller = "keep"])
       [] self.caller = "apply" /\ ~txn.kept /\ left.journal # None ->
            Go(IF self.journal.operation \in ApiOperations THEN "reconcile" ELSE "restoreConfig",
               [self EXCEPT !.caller = "undo"])
       [] OTHER -> End(IF SetupArtifactsClear(left) THEN "failed" ELSE "incomplete")

\* The process is killed, alone or with the machine; /run does not survive that.
Killed(left, found) ==
  /\ \/ images' = left /\ status' = found
     \/ \E d \in Survivors(left) : images' = <<d>> /\ status' = "stale"
  /\ End("killed")

\* A store call that completes in `after'.  One that fails may have synced
\* nothing, and a power loss then finds any state it went through.
StoreCall(self, after, leaves, Done) ==
  \/ images' = <<after>> /\ Done /\ UNCHANGED <<status, faults>>
  \/ \E d \in leaves :
       \/ Spend("error") /\ UNCHANGED status
            /\ \E cut \in leaves : images' = DirtyVia(cut, d)
            /\ Raise(self)
       \/ Spend("kill") /\ Killed(Dirty(d), status)

Skip(Done) == Done /\ UNCHANGED <<images, status, faults>>

Refuse(self) == UNCHANGED <<images, status, faults>> /\ Raise(self)

\* atomic_write, copy_descriptor_atomic: never over an abandoned staging name.
AtomicWrite(self, entry, value, Done) ==
  IF entry \in Disk.staging
    THEN Refuse(self)
    ELSE StoreCall(self, Written(Disk, entry, value), WriteLeaves(Disk, entry, value), Done)

\* snapshot_file: never over a snapshot.
SnapshotFile(self, source, backup, Done) ==
  IF Disk[backup] # None
    THEN Refuse(self)
    ELSE StoreCall(self, Snapshotted(Disk, source, backup),
                   SnapshotLeaves(Disk, source, backup), Done)

\* restore_snapshot: its clean-up of the backup is done when its write is refused.
RestoreSnapshot(self, backup, target, Done) ==
  LET clean == Unstaged(Disk, backup)
  IN CASE target \notin Disk.staging ->
            StoreCall(self, Restored(Disk, backup, target),
                      RestoreLeaves(Disk, backup, target), Done)
       [] target \in Disk.staging /\ clean = Disk -> Refuse(self)
       [] OTHER -> StoreCall(self, clean, {Disk, clean}, Raise(self))

\* Mutant: the closing clean-up removes the journal before the snapshots.
UnlinkJournalWithFirst(self, entry, Done) ==
  LET after == Removed([Disk EXCEPT !.journal = None], entry)
  IN IF after = Disk THEN Skip(Done) ELSE StoreCall(self, after, {Disk, after}, Done)

\* durable_unlink: of an absent name, nothing is done and nothing is synced.
DurableUnlink(self, entry, Done) ==
  IF Removed(Disk, entry) = Disk
    THEN Skip(Done)
    ELSE StoreCall(self, Removed(Disk, entry), RemoveLeaves(Disk, entry), Done)

\* _persist_journal
PersistJournal(self, journal, Done) == AtomicWrite(self, "journal", journal, Done)

(* -------------------------- runtime commands --------------------------- *)

\* One result of a runtime command: what it leaves, its exit status, and
\* whether that exit is a fault (a refusal on its preconditions is not).
Result(host, source, found, ok, fault) ==
  [wg |-> host, source |-> source, status |-> found, ok |-> ok, fault |-> fault]

Sourced(source) == [Disk EXCEPT !.config.source = source]

RuntimeCall(results, Done, Failed) ==
  \E r \in results :
    LET left == IF r.ok /\ Sourced(r.source) # Disk THEN <<Sourced(r.source)>>
                                                   ELSE Dirty(Sourced(r.source))
    IN /\ wg' = r.wg
       /\ \/ /\ IF r.fault THEN Spend("runtime") ELSE UNCHANGED faults
             /\ images' = left /\ status' = r.status
             /\ IF r.ok THEN Done ELSE Failed
          \/ Spend("kill") /\ Killed(left, r.status)

Failures(hosts, sources) ==
  {Result(h, s, status, FALSE, TRUE) : h \in hosts, s \in sources}

\* A dry run generates a candidate and removes it.
ValidationResults ==
  {Result(wg, Disk.config.source, status, TRUE, FALSE)}
    \cup Failures({wg, [wg EXCEPT !.candidate = TRUE]}, {Disk.config.source})

\* provision --apply, adopt --apply: the profile or its snapshot first, the source last.
ActivationResults ==
  LET adopting == wg.profile # None
      installed == IF adopting THEN [wg EXCEPT !.preManaged = wg.profile]
                               ELSE [wg EXCEPT !.profile = "managed"]
      hosts == {wg, installed}
  IN IF adopting /\ wg.preManaged \notin {None, wg.profile}
       THEN {Result(wg, Disk.config.source, status, FALSE, FALSE)}
       ELSE {Result(installed, "api", status, TRUE, FALSE)}
              \cup Failures(hosts \cup {[h EXCEPT !.candidate = TRUE] : h \in hosts}, {"static"})
              \cup Failures({installed}, {"api"})

\* restore-static --apply: the source first, then a switch to the snapshot.
RestoreStaticResults ==
  LET restored == [wg EXCEPT !.profile = wg.preManaged, !.candidate = FALSE]
      cut == [wg EXCEPT !.switching = {wg.profile, wg.preManaged}]
  IN IF None \in {wg.profile, wg.preManaged} \/ wg.switching # {}
       THEN {Result(wg, Disk.config.source, status, FALSE, FALSE)}
       ELSE {Result(restored, "static", status, TRUE, FALSE)}
              \cup Failures({wg}, {Disk.config.source, "static"})
              \cup (IF wg.profile = wg.preManaged THEN {}
                      ELSE Failures({restored, cut, [wg EXCEPT !.candidate = TRUE]}, {"static"}))

Moved(profile) == IF profile = "own" THEN "moved" ELSE profile

RecordsRestoration ==
  \E i \in 1..Len(images) :
    images[i].journal # None /\ images[i].journal.operation = "static-restore"

\* A check moves the static profile, or is cut in it, while the record of a
\* restoration is still there: the window "moved restore".
RotatesRestoration ==
  /\ pc \in {"idle", "enter", "verify"} /\ wg.switching = {}
  /\ RecordsRestoration /\ Disk.config.source = "static"
  /\ wg'.profile # wg.profile \/ wg'.switching # {}

\* The profile an unhealthy check puts in place of the installed one.
Moves ==
  IF wg.profile = None THEN {}
  ELSE IF Disk.config.source = "api" THEN {"managed"}
  ELSE {Moved(wg.profile)}

\* How far a check comes: it settles a switch and stops, or reports health, or
\* rotates; without a profile it does nothing.
CheckEnds ==
  IF wg.switching # {}
    THEN {[wg EXCEPT !.profile = p, !.switching = {}, !.candidate = FALSE] : p \in wg.switching}
  ELSE IF wg.profile = None THEN {}
  ELSE {wg} \cup {[wg EXCEPT !.profile = p] : p \in Moves}

\* What a check that is cut, or fails, may leave halfway.
CheckHalts ==
  IF wg.switching # {} THEN {wg}
  ELSE {wg} \cup {[wg EXCEPT !.switching = {wg.profile, p}] : p \in Moves}
            \cup (IF Disk.config.source = "api" THEN {[wg EXCEPT !.candidate = TRUE]} ELSE {})

\* check: it may have come to its end and fail all the same, as the status is written
\* before the last clean-up.
CheckResults ==
  LET Out(host, found, ok) ==
        Result(host, Disk.config.source, found, ok, ~ok /\ wg.profile # None)
      Found == {"stale", IF wg.profile = None THEN status ELSE "good"}
  IN {Out(h, "good", TRUE) : h \in CheckEnds}
       \cup {Out(h, f, FALSE) : h \in CheckEnds \cup CheckHalts, f \in Found}

(* ----------------------------- invocations ----------------------------- *)

\* execute_request, api_requires_proposed_credential: before the lease, the
\* operator is asked for a key only if the records call for one.
Ask(r) ==
  /\ pc = "idle"
  /\ IF r.mode = "api" /\ ProposalRefused(Disk, r)
       THEN End(IF CredentialState(Disk) = None THEN "inadmissible" ELSE "refused")
       ELSE /\ pc' = "enter"
            /\ verdict' = IF verdict = "unfinalized" THEN verdict ELSE "none"
            /\ run' = [NoRun EXCEPT !.request = r,
                         !.supplied = IF r.mode = "api" /\ RequiresProposal(Disk, r)
                                        THEN r.key ELSE None]
  /\ UNCHANGED <<images, wg, status, timer, txn, faults>>

\* apply_setup_request: the descriptor is checked early unless a journal is there.
Enter ==
  /\ pc = "enter"
  /\ LET recovering == Disk.journal # None
     IN IF run.request.mode = "api" /\ ~recovering
             /\ ~PrecheckAccepts(Disk, run.request, run.supplied, FALSE)
          THEN End("refused")
          ELSE Go("stop", [run EXCEPT !.recovering = recovering])
  /\ UNCHANGED <<images, wg, status, timer, txn, faults>>

\* Mutant: the units are stopped, the timer is left enabled.
StopServicesOnly ==
  /\ pc = "stop"
  /\ Go("discard", run)
  /\ UNCHANGED <<images, wg, status, timer, txn, faults>>

\* stop_units, under the lease
StopUnits ==
  /\ pc = "stop"
  /\ \/ timer' = FALSE /\ Go("discard", run) /\ UNCHANGED <<images, status, faults>>
     \/ Spend("runtime") /\ timer' \in {timer, FALSE} /\ End("refused")
          /\ UNCHANGED <<images, status>>
     \/ Spend("kill") /\ timer' \in {timer, FALSE} /\ Killed(images, status)
  /\ UNCHANGED <<wg, txn>>

\* _discard_setup_staging, then the journal is read if there is one.
DiscardStaging ==
  /\ pc = "discard"
  /\ LET after == [Disk EXCEPT !.staging = @ \ PrivateTargets]
         Read == CASE Disk.journal # None ->
                        Go("reconcile", [run EXCEPT !.caller = "recovery", !.journal = Disk.journal])
                   [] SetupArtifactsClear(after) -> Go("ready", run)
                   [] OTHER -> End("stuck")
     IN IF after = Disk THEN Skip(Read)
          ELSE StoreCall(run, after,
                 {[Disk EXCEPT !.staging = @ \ gone] : gone \in SUBSET PrivateTargets}, Read)
  /\ UNCHANGED <<wg, timer, txn>>

\* _reconcile_runtime_for_recovery, first call: a switch in progress.
Reconcile ==
  /\ pc = "reconcile"
  /\ IF wg.switching = {} THEN Skip(Go("unstage", run)) /\ UNCHANGED wg
       ELSE RuntimeCall(CheckResults, Go("unstage", run), Raise(run))
  /\ UNCHANGED <<timer, txn>>

\* Its second call: a candidate nobody owns.
CleanupCandidate ==
  /\ pc = "unstage"
  /\ LET Done == Go(IF run.caller = "recovery" THEN "classify" ELSE "unadopt", run)
         cleaned == [wg EXCEPT !.candidate = FALSE]
     IN IF ~wg.candidate THEN Skip(Done) /\ UNCHANGED wg
          ELSE RuntimeCall({Result(cleaned, Disk.config.source, status, TRUE, FALSE)}
                             \cup Failures({wg, cleaned}, {Disk.config.source}),
                           Done, Raise(run))
  /\ UNCHANGED <<timer, txn>>

\* Mutant: recovery takes no restoration for visible.
NoRestoreIsVisible == FALSE

\* _static_restore_is_visible; in static mode both profiles are required, and
\* recovery goes no further without them.
StaticRestoreIsVisible ==
  /\ Disk.config.source = "static"
  /\ wg.profile # None /\ wg.profile = wg.preManaged

StaticRestoreIsUnreadable ==
  /\ Disk.config.source = "static"
  /\ None \in {wg.profile, wg.preManaged}

RollBack(self) ==
  Go(IF self.journal.operation \in ApiOperations THEN "reconcile" ELSE "restoreConfig",
     [self EXCEPT !.caller = "rollback"])

\* The decision of _recover_setup_transaction.
Classify ==
  /\ pc = "classify"
  /\ LET j == run.journal
         restoring == /\ j.operation = "static-restore"
                      /\ j.phase \in {"activating", "activated", "verifying"}
         keeps == restoring /\ StaticRestoreIsVisible
     IN /\ CASE j.phase \in ClosedPhases \/ keeps -> Go("cleanConfig", run)
             [] restoring /\ StaticRestoreIsUnreadable -> End("stuck")
             [] j.phase = "verifying" /\ status = "good"
                  /\ ~(restoring /\ (keeps \/ StaticRestoreIsUnreadable)) -> Go("markVerified", run)
             [] j.phase = "activated" /\ j.operation \in {"api-update", "static"} ->
                  Go("beginProof", run)
             [] OTHER -> RollBack(run)
        /\ txn' = [txn EXCEPT !.kept = @ \/ (keeps /\ Len(images) = 1)]
  /\ UNCHANGED <<images, wg, status, timer, faults>>

(* ----------------------- rollback and clean-up ------------------------- *)

UndoesAdoption(j) == j.operation = "adopt" /\ ~j.hadPreManaged

\* Mutant: the rollback leaves the adopted profile in place.
UnadoptNothing ==
  /\ pc = "unadopt"
  /\ Skip(Go("restoreConfig", run)) /\ UNCHANGED wg
  /\ txn' = [txn EXCEPT !.undone = TRUE]
  /\ UNCHANGED timer

\* _rollback_api puts the operator's profile back before anything else.
Unadopt ==
  /\ pc = "unadopt"
  /\ LET Done == Go("restoreConfig", run)
         \* A restoration cut here is reconciled by a check, whose good status
         \* is taken for the proof of the adoption: the window "unrecorded rollback".
         results == IF MayStillCommit(Disk) /\ "unrecorded rollback" \notin Windows
                      THEN {r \in RestoreStaticResults : r.wg.switching = {}}
                      ELSE RestoreStaticResults
     IN IF UndoesAdoption(run.journal) /\ wg.preManaged # None
          THEN RuntimeCall(results, Done, Raise(run))
          ELSE Skip(Done) /\ UNCHANGED wg
  /\ txn' = [txn EXCEPT !.undone = TRUE]
  /\ UNCHANGED timer

RestoreConfig ==
  /\ pc = "restoreConfig"
  /\ LET Done == Go(IF run.journal.operation \in ApiOperations THEN "restoreKey"
                      ELSE "markRolledBack", run)
     IN CASE Disk.configPrevious # None ->
               RestoreSnapshot(run, "configPrevious", "config", Done)
          [] Disk.configPrevious = None /\ run.journal.phase = "prepared" -> Skip(Done)
          [] OTHER -> Skip(End("stuck"))
  /\ txn' = [txn EXCEPT !.undone = TRUE]
  /\ UNCHANGED <<wg, timer>>

\* Mutant: the rollback restores the configuration and forgets the key.
RestoreNoKey ==
  /\ pc = "restoreKey"
  /\ Skip(Go("dropPreManaged", run))
  /\ UNCHANGED <<wg, timer, txn>>

RestoreKey ==
  /\ pc = "restoreKey"
  /\ LET j == run.journal
         Done == Go("dropPreManaged", run)
     IN CASE j.keyChanged /\ ~j.hadKey -> DurableUnlink(run, "credential", Done)
          [] j.keyChanged /\ j.hadKey /\ Disk.credentialPrevious # None ->
               RestoreSnapshot(run, "credentialPrevious", "credential", Done)
          [] j.keyChanged /\ j.hadKey /\ Disk.credentialPrevious = None
               /\ j.phase = "prepared" -> Skip(Done)
          [] ~j.keyChanged /\ Disk.credentialPrevious = None -> Skip(Done)
          [] OTHER -> Skip(End("stuck"))
  /\ UNCHANGED <<wg, timer, txn>>

\* The pre-managed snapshot lies beside the profile, not in health_dir.
DropPreManaged ==
  /\ pc = "dropPreManaged"
  /\ LET dropped == [wg EXCEPT !.preManaged = None]
     IN \/ /\ wg' = IF UndoesAdoption(run.journal) THEN dropped ELSE wg
           /\ Skip(Go("markRolledBack", run))
        \/ /\ UndoesAdoption(run.journal) /\ wg.preManaged # None
           /\ wg' \in {wg, dropped}
           /\ \/ Spend("error") /\ UNCHANGED <<images, status>> /\ Raise(run)
              \/ Spend("kill") /\ Killed(images, status)
  /\ UNCHANGED <<timer, txn>>

MarkRolledBack ==
  /\ pc = "markRolledBack"
  /\ PersistJournal(run, RolledBack(run.journal), Go("cleanConfig", run))
  /\ UNCHANGED <<wg, timer, txn>>

\* _cleanup_transaction: the snapshots, then the journal.
CleanConfig ==
  /\ pc = "cleanConfig"
  /\ DurableUnlink(run, "configPrevious", Go("cleanKey", run))
  /\ UNCHANGED <<wg, timer, txn>>

CleanKey ==
  /\ pc = "cleanKey"
  /\ DurableUnlink(run, "credentialPrevious", Go("cleanJournal", run))
  /\ UNCHANGED <<wg, timer, txn>>

CleanJournal ==
  /\ pc = "cleanJournal"
  /\ LET Done == CASE run.caller \in {"recovery", "rollback"} ->
                        Go("ready", [run EXCEPT !.caller = "none", !.journal = None])
                   [] run.caller = "undo" -> End("failed")
                   [] run.caller = "keep" -> End("kept")
                   [] run.caller = "finalize" -> Go("reset", [run EXCEPT !.caller = "post"])
     IN DurableUnlink(run, "journal", Done)
  /\ UNCHANGED <<wg, timer, txn>>

(* ------------------------- applying a request -------------------------- *)

\* The journal a request starts with: _apply_api and _apply_static.
NewJournal(r) ==
  [operation |-> CASE r.mode = "static" -> IF r.restore THEN "static-restore" ELSE "static"
                   [] r.mode = "api" /\ Disk.config.source = "api" -> "api-update"
                   [] OTHER -> IF wg.profile # None THEN "adopt" ELSE "provision",
   phase |-> "prepared",
   hadKey |-> Disk.credential # None,
   hadPreManaged |-> wg.preManaged # None,
   keyChanged |-> r.mode = "api" /\ KeyChanges(Disk, r),
   proof |-> FALSE]

Asked(r, supplied) ==
  IF r.mode = "api"
    THEN [source |-> "api", settings |-> r.settings, key |-> EffectiveKey(Disk, supplied)]
    ELSE [Triple(Disk) EXCEPT !.source = "static"]

\* Recovery has returned: its absence proof, the second precheck, and the
\* conditions both apply functions test before they write anything.
Begin ==
  /\ pc = "ready"
  /\ LET r == run.request
         admitted == r.mode = "api" =>
           /\ PrecheckAccepts(Disk, r, run.supplied, run.recovering)
           /\ RetainedKeyMatches(Disk, r, run.supplied)
           /\ ~(Disk.config.source = "api" /\ wg.profile = None)
         \* _assert_runtime_artifacts_clear
         blocked == wg.candidate \/ wg.switching # {}
         stuck == ~SetupArtifactsClear(Disk)
     IN CASE blocked -> End("blocked") /\ UNCHANGED txn
          [] ~blocked /\ stuck -> End("stuck") /\ UNCHANGED txn
          [] ~blocked /\ ~stuck /\ ~admitted -> End("refused") /\ UNCHANGED txn
          [] OTHER ->
               LET self == [run EXCEPT !.journal = NewJournal(r)]
               IN /\ IF r.mode = "api" THEN Go("validate", self)
                       ELSE Go("prepare", [self EXCEPT !.caller = "apply"])
                  /\ txn' = [before |-> Triple(Disk), after |-> Asked(r, run.supplied),
                             profile |-> wg.profile, adopts |-> UndoesAdoption(NewJournal(r)),
                             kept |-> FALSE, undone |-> FALSE,
                             removes |-> txn.removes /\ Len(images) > 1]
  /\ UNCHANGED <<images, wg, status, timer, faults>>

\* validate_with_lease: a failure before the journal changes nothing.
Validate ==
  /\ pc = "validate"
  /\ RuntimeCall(ValidationResults, Go("prepare", [run EXCEPT !.caller = "apply"]),
                 End("refused"))
  /\ UNCHANGED <<timer, txn>>

\* One phase of the journal: the record in memory moves first.
Mark(step, phase, next) ==
  /\ pc = step
  /\ LET self == [run EXCEPT !.journal.phase = phase]
     IN PersistJournal(self, self.journal, Go(next, self))
  /\ UNCHANGED <<wg, timer, txn>>

Activates == Disk.config.source = "static"   \* the source is flipped by the runtime

Prepare == Mark("prepare", "prepared", "snapshotConfig")

\* Mutant: a key that is replaced is not kept.
SnapshotConfigOnly ==
  /\ pc = "snapshotConfig"
  /\ LET next == IF run.journal.operation = "static-restore" THEN "markActivating" ELSE "writeConfig"
     IN SnapshotFile(run, "config", "configPrevious", Go(next, run))
  /\ UNCHANGED <<wg, timer, txn>>

SnapshotConfig ==
  /\ pc = "snapshotConfig"
  /\ LET j == run.journal
         next == CASE j.operation = "static-restore" -> "markActivating"
                   [] j.keyChanged /\ j.hadKey -> "snapshotKey"
                   [] OTHER -> "writeConfig"
     IN SnapshotFile(run, "config", "configPrevious", Go(next, run))
  /\ UNCHANGED <<wg, timer, txn>>

SnapshotKey ==
  /\ pc = "snapshotKey"
  /\ SnapshotFile(run, "credential", "credentialPrevious", Go("writeConfig", run))
  /\ UNCHANGED <<wg, timer, txn>>

\* Mutant: the configuration names the source asked for before the runtime does.
WriteSourceFirst ==
  /\ pc = "writeConfig"
  /\ AtomicWrite(run, "config", [source |-> run.request.mode, settings |-> run.request.settings],
                 Go("markConfig", run))
  /\ UNCHANGED <<wg, timer, txn>>

\* An API setup keeps the prior source here; a static one flips it.
WriteConfig ==
  /\ pc = "writeConfig"
  /\ IF run.request.mode = "api"
       THEN AtomicWrite(run, "config", [Disk.config EXCEPT !.settings = run.request.settings],
                        Go("markConfig", run))
       ELSE AtomicWrite(run, "config", [Disk.config EXCEPT !.source = "static"],
                        Go("markActivated", run))
  /\ UNCHANGED <<wg, timer, txn>>

MarkConfig ==
  Mark("markConfig", "config",
       CASE run.journal.keyChanged -> "writeKey"
         [] ~run.journal.keyChanged /\ Activates -> "activate"
         [] OTHER -> "markActivated")

WriteKey ==
  /\ pc = "writeKey"
  /\ AtomicWrite(run, "credential", run.supplied, Go("markKey", run))
  /\ UNCHANGED <<wg, timer, txn>>

MarkKey == Mark("markKey", "credential", "revalidate")

Revalidate ==
  /\ pc = "revalidate"
  /\ RuntimeCall(ValidationResults,
                 Go(IF Activates THEN "activate" ELSE "markActivated", run), Raise(run))
  /\ UNCHANGED <<timer, txn>>

Activate ==
  /\ pc = "activate"
  /\ RuntimeCall(ActivationResults, Go("markActivated", run), Raise(run))
  /\ UNCHANGED <<timer, txn>>

MarkActivating == Mark("markActivating", "activating", "restoreStatic")

\* Its success commits the restored static profile.
RestoreStatic ==
  /\ pc = "restoreStatic"
  /\ \/ /\ RuntimeCall({r \in RestoreStaticResults : r.ok}, Go("markActivated", run), FALSE)
        /\ txn' = [txn EXCEPT !.kept = pc' # "idle"]
     \/ /\ RuntimeCall({r \in RestoreStaticResults : ~r.ok}, FALSE, Raise(run))
        /\ UNCHANGED txn
  /\ UNCHANGED timer

MarkActivated == Mark("markActivated", "activated", "beginProof")

(* --------------------------- the health proof -------------------------- *)

\* begin_health_proof: from here on only a later status counts.
BeginProof ==
  /\ pc = "beginProof"
  /\ status' = "stale"
  /\ Go("markVerifying", run)
  /\ UNCHANGED <<images, wg, timer, txn, faults>>

\* _begin_journaled_health_proof: the record in memory moves last.
MarkVerifying ==
  /\ pc = "markVerifying"
  /\ LET j == [run.journal EXCEPT !.phase = "verifying", !.proof = TRUE]
     IN PersistJournal(run, j, Go("verify", [run EXCEPT !.journal = j]))
  /\ UNCHANGED <<wg, timer, txn>>

\* verify_health: exit status 0 and a fresh good status; a recovery that
\* fails it rolls back.
Verify ==
  /\ pc = "verify"
  /\ LET Failed == IF run.caller = "recovery" THEN RollBack(run) ELSE Raise(run)
         Done == IF status' = "good"
                   THEN Go("markVerified", IF run.caller = "apply"
                                             THEN [run EXCEPT !.caller = "finalize"] ELSE run)
                   ELSE Failed
     IN RuntimeCall(CheckResults, Done, Failed)
  /\ RotatesRestoration => "moved restore" \in Windows
  /\ UNCHANGED <<timer, txn>>

\* The commit point.
MarkVerified == Mark("markVerified", "verified", "cleanConfig")

(* ------------------------- after the commit ---------------------------- *)

ResetApiState ==
  /\ pc = "reset"
  /\ IF run.request.reset
       THEN RuntimeCall({Result(wg, Disk.config.source, status, TRUE, FALSE)}
                          \cup Failures({wg}, {Disk.config.source}),
                        Go("removeKey", run), Raise(run))
       ELSE Skip(Go("removeKey", run)) /\ UNCHANGED wg
  /\ UNCHANGED <<timer, txn>>

RemoveKey ==
  /\ pc = "removeKey"
  /\ LET removes == run.request.mode = "static" /\ run.request.remove
     IN /\ IF removes THEN DurableUnlink(run, "credential", Go("enable", run))
                      ELSE Skip(Go("enable", run))
        /\ txn' = IF removes THEN [txn EXCEPT !.after.key = None, !.removes = TRUE] ELSE txn
  /\ UNCHANGED <<wg, timer>>

\* enable_timer_after_commit: a failed activation is contained, if it can be.
EnableTimer ==
  /\ pc = "enable"
  /\ \/ /\ timer' = (timer \/ run.request.enable)
        /\ Skip(End("done"))
     \/ /\ run.request.enable /\ timer' \in BOOLEAN
        /\ \/ Spend("runtime") /\ End("committed") /\ UNCHANGED <<images, status>>
           \/ Spend("kill") /\ Killed(images, status)
  /\ UNCHANGED <<wg, txn>>

(* ----------------------- between two invocations ----------------------- *)

\* A dry run holds the lease and leaves a candidate only if it is cut.
Preview ==
  /\ pc = "idle"
  /\ SetupArtifactsClear(Disk) /\ ~wg.candidate /\ wg.switching = {}
  /\ Spend("runtime")
  /\ wg' = [wg EXCEPT !.candidate = TRUE]
  /\ UNCHANGED <<images, status, timer, pc, run, verdict, txn>>

\* A check by the timer or by hand, before the lease is taken.
Check ==
  /\ pc \in {"idle", "enter"}
  /\ txn.undone /\ MayStillCommit(Disk) => "unrecorded rollback" \in Windows
  /\ \E r \in CheckResults :
       /\ IF r.fault THEN Spend("runtime") ELSE UNCHANGED faults
       /\ wg' = r.wg /\ status' = r.status
  /\ RotatesRestoration => "moved restore" \in Windows
  /\ UNCHANGED <<images, timer, pc, run, verdict, txn>>

PowerLoss ==
  /\ pc \in {"idle", "enter"}
  /\ Spend("kill")
  /\ \E d \in Survivors(images) : images' = <<d>>
  /\ status' = "stale"
  /\ End(IF verdict \in Committed THEN verdict ELSE "killed")
  /\ UNCHANGED <<wg, timer, txn>>

Recovery == DiscardStaging \/ Reconcile \/ CleanupCandidate \/ Classify
RollingBack == Unadopt \/ RestoreConfig \/ RestoreKey \/ DropPreManaged \/ MarkRolledBack
CleanUp == CleanConfig \/ CleanKey \/ CleanJournal
Applying ==
  \/ Begin \/ Validate \/ Prepare \/ SnapshotConfig \/ SnapshotKey \/ WriteConfig
  \/ MarkConfig \/ WriteKey \/ MarkKey \/ Revalidate \/ Activate
  \/ MarkActivating \/ RestoreStatic \/ MarkActivated
Proving == BeginProof \/ MarkVerifying \/ Verify \/ MarkVerified
Ending == ResetApiState \/ RemoveKey \/ EnableTimer

Proceed == Enter \/ StopUnits \/ Recovery \/ RollingBack \/ CleanUp \/ Applying \/ Proving \/ Ending

Next == Proceed \/ Preview \/ Check \/ PowerLoss \/ \E r \in Requests : Ask(r)

Spec == Init /\ [][Next]_vars

(* ------------------------------ properties ----------------------------- *)

\* Every variable has a value of its type; and whatever a power loss leaves, the
\* record of a setup is one that recovery can read: read_journal rejects
\* nothing that _persist_journal wrote.
TypeOK ==
  /\ \A i \in 1..Len(images) : images[i] \in Directory
  /\ Len(images) \in 1..(2 * MaxFaults + 1)
  /\ wg \in Host
  /\ status \in {"stale", "good"}
  /\ timer \in BOOLEAN
  /\ pc \in Steps
  /\ run \in [request : Requests \cup {None}, supplied : Keys \cup {None},
              recovering : BOOLEAN, caller : Callers, journal : Journal \cup {None}]
  /\ verdict \in Verdicts
  /\ txn \in [before : Triples, after : Triples, profile : Profiles \cup {None},
              adopts : BOOLEAN, kept : BOOLEAN, undone : BOOLEAN, removes : BOOLEAN]
  /\ faults \in 0..MaxFaults

\* No sequence of failures, kills and power losses leads to a state in which
\* recovery refuses for good (application.py:683, "recover prior setup
\* crashes"): a snapshot is missing or not expected, artifacts remain that no
\* journal owns, or a profile it has to read is not there (192, 204, 208, 144, 264).
NeverStuck == verdict # "stuck"

\* A configuration in API mode always has its credential and its profile, in
\* every image a power loss may leave: the worker never wakes up without them.
ApiSourceHasKey ==
  \A i \in 1..Len(images) :
    images[i].config.source = "api" => images[i].credential # None /\ wg.profile # None

\* The timer is enabled only while nothing of a transaction is left, not even
\* on the disk a power loss would show: no scheduled check meets a setup half done.
TimerFailClosed ==
  timer => \A i \in 1..Len(images) : SetupArtifactsClear(images[i])

\* The triple that is in force, or that recovery will put in force; a restored
\* static profile is in force before its record is closed.
InForce(d) == IF txn.kept THEN Triple(d) ELSE Recovered(d)

\* The engine implements the atomic change of SetupAtomic, whatever fails: on
\* disk, source, settings and credential change together, and only from what
\* was installed to what was asked for.
Atomic == INSTANCE SetupAtomic WITH installed <- InForce(images[1]), asked <- txn.after
AppliesAtomically == Atomic!Spec

\* The answer to the operator holds: after "freshly verified" the triple asked
\* for is in force in every image; after a rollback the triple found is back,
\* and a restored static profile that is reported as kept stays static.
AnswerHolds ==
  pc = "idle" =>
    /\ verdict = "failed" => Triple(Disk) = txn.before
    /\ \A i \in 1..Len(images) :
         /\ verdict = "done" => images[i].journal = None /\ Triple(images[i]) = txn.after
         /\ verdict = "kept" => images[i].config.source = "static"

\* A rollback or a commit is complete: with no record left, source, settings
\* and credential are those found or those asked for (design document: "Any
\* failure restores the exact prior config and credential").  Only a key that
\* is being removed in static mode may be either there or gone.
ExactOrCommitted ==
  LET Keyless(t) == [t EXCEPT !.key = None]
      known == {txn.before, txn.after}
  IN Disk.journal = None =>
       \/ Triple(Disk) \in known
       \/ /\ txn.removes /\ Disk.config.source = "static"
          /\ Keyless(Triple(Disk)) \in {Keyless(t) : t \in known}

\* Once restore-static has succeeded its static result stays, until another
\* request is applied (application.py:541-544): it is never paired with a
\* configuration rolled back to API mode.  Not so when a check moves the restored
\* profile beside its record: recovery compares it with the snapshot
\* (application.py:256).  That step is RotatesRestoration, and the run
\* setup_moved lets it happen.
RestoredStaysStatic ==
  txn.kept => \A i \in 1..Len(images) : images[i].config.source = "static"

\* Refuted, and checked by no run (README): what the operator was told is
\* committed is not rolled back afterwards (application.py:331).
ReportedCommitHolds == verdict = "unfinalized" => run.caller # "rollback"

\* When recovery returns, an API request for which the operator was asked for no
\* key needs none: the state foreseen before recovery is the one it leaves
\* (credential_state.py:94-96).  Not so where recovery has just kept a restoration
\* cut in phase activating, which credential_state.py:91 leaves out of the phases
\* that may go either way; the code then refuses the request.
ProposalSuffices ==
  [][/\ pc' = "ready" /\ run.request.mode = "api" /\ run.supplied = None
     /\ ~(run.journal # None /\ run.journal.phase = "activating")
     => ~RequiresProposal(Disk', run.request)]_vars

\* Refuted, and checked by no run (README): no state that faults lead to makes
\* every API request inadmissible before recovery (credential_state.py:97-103).
ApiRequestAdmitted == verdict # "inadmissible"

\* Refuted, and checked by no run (README): when recovery has returned, no
\* candidate is left without a switch that owns it (application.py:165-170).
LoneCandidateRemoved == pc = "ready" => wg.switching # {} \/ ~wg.candidate

\* An adoption that did not commit leaves the operator's own profile installed
\* (possibly with an endpoint rotated since), and no snapshot of its making.
AdoptionUndone ==
  txn.adopts /\ Disk.journal = None /\ run.caller \in {"none", "undo"}
    /\ Triple(Disk) = txn.before /\ txn.before # txn.after /\ txn.undone
  => /\ wg.profile \in {txn.profile, Moved(txn.profile)} \/ wg.switching # {}
     /\ wg.preManaged = None \/ pc # "idle"

\* A record left by a setup is always resolved by the invocations that follow,
\* if they are made: each invocation that begins ends, and none of the faults
\* that happened keeps the record from being closed.
RecordsResolved == []<>(Disk.journal = None)

\* The operator repeats each of the requests again and again.
LiveSpec == Spec /\ WF_vars(Proceed) /\ \A r \in Requests : SF_vars(Ask(r))
=============================================================================
