------------------------- MODULE ManagedTransaction -------------------------
(***************************************************************************)
(* The crash-safe profile switch of the managed runtime                    *)
(* (libexec/wg-healthcheck-managed.d, fragments 20, 50, 60 and 70, with    *)
(* the staging half of fragment 80): a rotation replaces the installed     *)
(* WireGuard profile by a staged candidate, or puts the old profile back,  *)
(* whatever fails or crashes in between.                                   *)
(*                                                                         *)
(* Durability.  The five files live in one directory.  fs is what a        *)
(* process sees; disk[f] is the set of contents a power loss may leave in  *)
(* f.  Every writer syncs the temporary file before it renames it, so a    *)
(* content is whole or absent; a rename or an unlink ADDS to disk[f], and  *)
(* a sync of the directory makes every entry certain.  Entries that no     *)
(* completed directory sync covers may persist independently of each other.*)
(* A profile stands for its digest and endpoint; all profiles share one    *)
(* private identity.  StaticProfile is the pre-managed snapshot.           *)
(***************************************************************************)
EXTENDS Naturals

CONSTANTS Profiles, StaticProfile, Containers,
          None,        \* an absent file, container or interface
          Partial,     \* a candidate file that has been opened, not generated
          Budgets,     \* bounds on failing calls (I/O, Docker, network), on kills and
                       \* power losses, on what the operator or Docker does to
                       \* containers, and on transactions: one of these applies
          WritebackBeforeStart
            \* TRUE: the kernel has written the directory back before another
            \* transaction starts (the timer waits 60 s between two checks)

File == {"active", "backup", "candidate", "safety", "journal"}
Intents == {"unmanaged", "running", "stopped"}
Phases == {"prepared", "client-stopped", "tunnel-down",
           "candidate-installed", "candidate-up", "verified"}
SafetyRecord == [state : {"pending", "committed", "finalizing"},
                 backup : Profiles, candidate : Profiles,
                 intent : Intents, id : Containers \cup {None}]
JournalRecord == [phase : Phases, backup : Profiles, candidate : Profiles]

ASSUME ConstantsAssumption ==
  /\ StaticProfile \in Profiles
  /\ {None, Partial} \cap (Profiles \cup Containers) = {}
  /\ None # Partial
  /\ {None, Partial} \cap (SafetyRecord \cup JournalRecord) = {}
  /\ Budgets \subseteq [faults : Nat, crashes : Nat, meddles : Nat, starts : Nat]
  /\ WritebackBeforeStart \in BOOLEAN

VARIABLES
  fs,          \* [File -> content]: what a process sees
  disk,        \* [File -> set of contents]: what a power loss may leave
  link,        \* the profile the interface is up with, or None
  containers,  \* [Containers -> "running", "stopped" or "gone"]; gone: removed, or not
               \* yet created
  configured,  \* the container the configuration names, or None
  excluded,    \* candidates whose server exclusion is durable
  published,   \* success status and cooldown of this switch, in /run
  pc,          \* the step the locked process is at; "idle": no process
  unsynced,    \* the step at pc made its change, its sync is outstanding
  snapshot,    \* managed_qb_snapshot: intent and container ID
  mode,        \* "forward" | "resumed" | "undurable": how recovery was entered
  exit,        \* how the last process ended: "done" (it made its last effect),
               \* "fail" or "killed"; "none" before the first
  outside,     \* something but the program started, replaced or refused a container
  faults, crashes, meddles, starts

files == <<fs, disk>>
client == <<containers, configured>>
ledger == <<excluded, published>>
process == <<snapshot, mode, exit>>
budgets == <<faults, crashes, meddles, starts>>
vars == <<files, link, client, ledger, pc, unsynced, process, outside, budgets>>

\* What has happened so far is still within one of the bounds.
Within(f, c, m, n) ==
  \E b \in Budgets : f <= b.faults /\ c <= b.crashes /\ m <= b.meddles /\ n <= b.starts

(* ------------------------------- files --------------------------------- *)

\* Mutant: a rename counted as durable, its sync skipped.
PutTakenForDurable(f, content) ==
  /\ fs' = [fs EXCEPT ![f] = content]
  /\ UNCHANGED disk

Put(f, content) ==
  /\ fs' = [fs EXCEPT ![f] = content]
  /\ disk' = [disk EXCEPT ![f] = @ \cup {content}]

Barrier ==
  /\ disk' = [f \in File |-> {fs[f]}]
  /\ UNCHANGED fs

Images == {[active |-> a, backup |-> b, candidate |-> c, safety |-> s, journal |-> j] :
             a \in disk["active"], b \in disk["backup"], c \in disk["candidate"],
             s \in disk["safety"], j \in disk["journal"]}

\* managed_journal_matches_safety
JournalMatches(d) ==
  /\ d["journal"].backup = d["safety"].backup
  /\ d["journal"].candidate = d["safety"].candidate

\* The journal's own rule: a consumed candidate file needs a verified journal.
PhaseConsistent(d) ==
  d["candidate"] = None /\ d["active"] = d["journal"].candidate
    => d["journal"].phase = "verified"

\* managed_safety_artifacts_are_valid
ArtifactsValid(d) ==
  /\ d["backup"] = d["safety"].backup
  /\ IF d["safety"].state = "pending"
       THEN /\ d["active"] \in {d["safety"].backup, d["safety"].candidate}
            /\ d["candidate"] \in {None, d["safety"].candidate}
       ELSE /\ d["active"] = d["safety"].candidate
            /\ d["candidate"] = None

\* What managed_reconcile_pending accepts: anything else it contains and keeps.
Recoverable(d) ==
  /\ ArtifactsValid(d)
  /\ d["journal"] # None =>
       d["safety"].state = "pending" /\ JournalMatches(d) /\ PhaseConsistent(d)

\* Mutant: any record counts as undecided.
PendingWhateverState == fs["safety"] # None

Pending == fs["safety"] # None /\ fs["safety"].state = "pending"
Committed == fs["safety"] # None /\ fs["safety"].state # "pending"

(* ----------------------------- the client ------------------------------ *)

\* The recorded immutable ID (before the record exists, the snapshot's).
Recorded == IF fs["safety"] # None THEN fs["safety"].id ELSE snapshot.id
Intent == IF fs["safety"] # None THEN fs["safety"].intent ELSE snapshot.intent
Targets == {Recorded, configured} \ {None}

\* managed_qb_contain_recorded_and_current: stop both, prove both stopped.
Contained == [c \in Containers |->
                IF c \in Targets /\ containers[c] = "running"
                  THEN "stopped" ELSE containers[c]]
CanContain == \A c \in Targets : containers[c] # "gone"

TupleMatches == configured = Recorded

\* managed_qb_containment_checkpoint, forward and rollback flavours.
ProvenStopped ==
  TupleMatches /\ (Intent # "unmanaged" => containers[Recorded] = "stopped")
RollbackProvenStopped == \A c \in Targets : containers[c] = "stopped"

\* managed_qb_verify_recorded_intent
IntentHolds ==
  /\ TupleMatches
  /\ Intent # "unmanaged" => containers[Recorded] = Intent

\* Profile binding, live identity, network and client intent, as one proof.
Proven(profile) ==
  /\ fs["active"] = profile
  /\ link = profile
  /\ IntentHolds

(* -------------------------- control of a process ----------------------- *)

NoSnapshot == [intent |-> "unmanaged", id |-> None]

AfterCheckpoint ==
  [after_stop |-> "journal_stopped",      before_down |-> "down",
   after_down |-> "journal_down",         before_install |-> "install",
   after_install |-> "journal_installed", before_up |-> "up",
   after_up |-> "journal_up",             before_network |-> "network",
   after_network |-> "restore"]

\* Adjacent rollback checkpoints with nothing but reads between them are one.
AfterRollbackCheckpoint ==
  [rb_before_down |-> "rb_down",    rb_after_down |-> "rb_install",
   rb_after_install |-> "rb_up",    rb_after_up |-> "rb_network",
   rb_after_network |-> "rb_gate",  rb_post_cleanup |-> "rb_prove"]

\* Phase before, phase after, next step of each journal transition.
JournalSteps ==
  [journal_stopped   |-> [from |-> "prepared", to |-> "client-stopped"],
   journal_down      |-> [from |-> "client-stopped", to |-> "tunnel-down"],
   journal_installed |-> [from |-> "tunnel-down", to |-> "candidate-installed"],
   journal_up        |-> [from |-> "candidate-installed", to |-> "candidate-up"],
   journal_verified  |-> [from |-> "candidate-up", to |-> "verified"]]

\* Mutant: the rollback's cleanup forgets the journal.
AfterSyncForgetsJournal ==
  [clean_orphan |-> "stage",              generate |-> "snapshot",
   stage |-> "snapshot",                  backup |-> "preexclude",
   prepare_safety |-> "prepare_journal",  prepare_journal |-> "stop_client",
   journal_stopped |-> "before_down",     journal_down |-> "before_install",
   install |-> "after_install",           journal_installed |-> "before_up",
   journal_up |-> "before_network",       journal_verified |-> "prove_restored",
   remove_candidate |-> "remove_journal", remove_journal |-> "prove_cleaned",
   commit |-> "fin_network",              mark_finalizing |-> "fin_prove",
   remove_safety |-> "idle",              drop_candidate |-> "idle",
   rb_install |-> "rb_after_install",     rb_remove_candidate |-> "rb_post_cleanup",
   rb_remove_journal |-> "rb_post_cleanup", rb_remove_safety |-> "idle"]

\* Where a process goes on once the change made at a step is durable.
AfterSync ==
  [clean_orphan |-> "stage",              generate |-> "snapshot",
   stage |-> "snapshot",                  backup |-> "preexclude",
   prepare_safety |-> "prepare_journal",  prepare_journal |-> "stop_client",
   journal_stopped |-> "before_down",     journal_down |-> "before_install",
   install |-> "after_install",           journal_installed |-> "before_up",
   journal_up |-> "before_network",       journal_verified |-> "prove_restored",
   remove_candidate |-> "remove_journal", remove_journal |-> "prove_cleaned",
   commit |-> "fin_network",              mark_finalizing |-> "fin_prove",
   remove_safety |-> "idle",              drop_candidate |-> "idle",
   rb_install |-> "rb_after_install",     rb_remove_candidate |-> "rb_remove_journal",
   rb_remove_journal |-> "rb_post_cleanup", rb_remove_safety |-> "idle"]

StagingSteps == {"stage", "generate", "snapshot", "backup", "preexclude"}
\* managed_abort_profile_transaction 0 ...
PlainAborts == {"stop_client", "after_stop", "journal_stopped", "before_down", "down",
                "after_down", "journal_down", "before_install", "remove_candidate",
                "remove_journal", "prove_cleaned"}
\* managed_abort_profile_transaction 1 ...
CandidateAborts == {"install", "after_install", "journal_installed", "before_up", "up",
                    "after_up", "journal_up", "before_network", "network",
                    "after_network", "restore", "journal_verified", "prove_restored"}
RollbackSteps == {"rb_enter", "rb_before_down", "rb_down", "rb_after_down",
                  "rb_install", "rb_after_install", "rb_up", "rb_after_up",
                  "rb_network", "rb_after_network", "rb_gate", "rb_remove_candidate",
                  "rb_remove_journal", "rb_post_cleanup", "rb_prove", "rb_restore",
                  "rb_prove_final", "rb_remove_safety"}
FinalizeSteps == {"fin_network", "fin_intent", "bookkeeping", "mark_finalizing",
                  "fin_prove", "remove_safety"}
ReconcileSteps == {"rec_contain", "rec_barrier", "rec_check"}
Steps == {"idle", "clean_orphan", "drop_candidate", "prepare_safety",
          "prepare_journal", "commit", "exclude_again", "contain_exit"}
           \cup StagingSteps \cup PlainAborts \cup CandidateAborts
           \cup RollbackSteps \cup FinalizeSteps \cup ReconcileSteps

\* The failure exit of each step.
OnFailure(step) ==
  CASE step \in StagingSteps ->
         IF fs["candidate"] \in {None, StaticProfile} THEN "idle" ELSE "drop_candidate"
    [] step = "prepare_safety" ->
         IF fs["safety"] # None THEN "rec_contain"
         ELSE IF fs["candidate"] = StaticProfile THEN "idle" ELSE "drop_candidate"
    [] step \in {"prepare_journal", "commit"} -> "rec_contain"
    [] step \in PlainAborts -> "rb_enter"
    [] step \in CandidateAborts ->
         IF fs["safety"].candidate = StaticProfile THEN "rb_enter" ELSE "exclude_again"
    [] step = "exclude_again" -> "rb_enter"
    [] step = "bookkeeping" -> "mark_finalizing"
    [] step = "mark_finalizing" ->
         IF fs["safety"].state = "finalizing" THEN "fin_prove" ELSE "idle"
    [] step \in RollbackSteps \cup {"fin_network", "fin_intent", "fin_prove",
                                     "rec_contain", "rec_check"} -> "contain_exit"
    [] OTHER -> "idle"

Return(result) ==
  /\ pc' = "idle"
  /\ exit' = result
  /\ snapshot' = NoSnapshot
  /\ mode' = "forward"

GoTo(step) == pc' = step /\ UNCHANGED process

Fail ==
  LET next == OnFailure(pc)
  IN IF next = "idle" THEN Return("fail")
     ELSE /\ pc' = next
          /\ mode' = IF next = "rec_contain" THEN "resumed"
                     ELSE IF pc = "exclude_again" THEN "undurable" ELSE mode
          /\ UNCHANGED <<snapshot, exit>>

\* Steps whose failure path stops the client on the spot.
ContainsOnFailure ==
  DOMAIN AfterCheckpoint \cup DOMAIN AfterRollbackCheckpoint
    \cup {"restore", "rb_restore", "prove_restored", "prove_cleaned",
          "rb_prove_final", "fin_intent", "fin_prove"}

At(step) == pc = step /\ ~unsynced

\* A step that changed nothing durable and goes on.
Onward(step) ==
  /\ GoTo(step)
  /\ UNCHANGED <<files, link, client, ledger, unsynced, outside, budgets>>

\* A step that made a visible change and must now sync it.
Changed(f, content) ==
  /\ Put(f, content)
  /\ unsynced' = TRUE
  /\ UNCHANGED <<link, client, excluded, pc, process, outside, budgets>>

(* ------------------------------- failures ------------------------------ *)

\* The barrier after a visible change: sync the file and the directory.
Sync ==
  /\ unsynced
  /\ Barrier
  /\ unsynced' = FALSE
  /\ IF AfterSync[pc] = "idle"
       THEN Return(IF pc = "drop_candidate" THEN "fail" ELSE "done")
       ELSE GoTo(AfterSync[pc])
  /\ UNCHANGED <<link, client, ledger, outside, budgets>>

\* The call at pc fails: before it changed anything, or at its barrier.
StepFails ==
  /\ pc # "idle"
  /\ Within(faults + 1, crashes, meddles, starts)
  /\ faults' = faults + 1
  /\ unsynced' = FALSE
  /\ containers' = IF pc \in ContainsOnFailure THEN Contained ELSE containers
  /\ outside' = (outside \/ pc = "contain_exit")
  /\ Fail
  /\ UNCHANGED <<files, link, configured, ledger, crashes, meddles, starts>>

\* A check at pc finds the client not as it must be: contain, then the failure exit.
ContainAndFail ==
  /\ containers' = Contained
  /\ Fail
  /\ UNCHANGED <<files, link, configured, ledger, unsynced, outside, budgets>>

\* SIGTERM (the unit's start timeout) or SIGKILL: memory is lost, the files stay.
Kill ==
  /\ pc # "idle"
  /\ Within(faults, crashes + 1, meddles, starts)
  /\ crashes' = crashes + 1
  /\ unsynced' = FALSE
  /\ Return("killed")
  /\ UNCHANGED <<files, link, client, ledger, outside, faults, meddles, starts>>

\* Power loss: any image of the directory, /run empty, the interface down or
\* brought up by its boot unit, the containers that ran running again.
PowerLoss ==
  /\ Within(faults, crashes + 1, meddles, starts)
  /\ crashes' = crashes + 1
  /\ fs' \in Images
  /\ disk' = [f \in File |-> {fs'[f]}]
  /\ link' \in {None, fs'["active"]}
  /\ outside' = (outside \/
       (link' = None /\ \E c \in Containers : containers[c] = "running"))
  /\ published' = FALSE
  /\ unsynced' = FALSE
  /\ Return("killed")
  /\ UNCHANGED <<client, excluded, faults, meddles, starts>>

\* Docker's restart policy or the operator starts a stopped container.
OutsideStart(c) ==
  /\ Within(faults, crashes, meddles + 1, starts)
  /\ containers[c] = "stopped"
  /\ containers' = [containers EXCEPT ![c] = "running"]
  /\ outside' = TRUE
  /\ meddles' = meddles + 1
  /\ UNCHANGED <<files, link, configured, ledger, pc, unsynced, process,
                 faults, crashes, starts>>

\* The configured name comes to denote another container: the old one is
\* recreated under the same name (gone), or the configuration is edited (kept).
OutsideReplace(c) ==
  /\ Within(faults, crashes, meddles + 1, starts)
  /\ configured # None /\ c # configured
  /\ \E old \in {"gone", containers[configured]}, new \in {"running", "stopped"} :
       /\ old # "gone" => pc = "idle"
       /\ containers' = [containers EXCEPT ![configured] = old, ![c] = new]
  /\ configured' = c
  /\ outside' = TRUE
  /\ meddles' = meddles + 1
  /\ UNCHANGED <<files, link, ledger, pc, unsynced, process, faults, crashes, starts>>

\* Six hours pass after the last transaction that owned the exclusion.
ExpireExclusion(p) ==
  /\ p \in excluded
  /\ pc = "idle"
  /\ disk["safety"] = {None}
  /\ excluded' = excluded \ {p}
  /\ UNCHANGED <<files, link, client, published, pc, unsynced, process, outside, budgets>>

\* The kernel writes the directory back on its own.
Writeback ==
  /\ pc = "idle"
  /\ Barrier
  /\ UNCHANGED <<link, client, ledger, pc, unsynced, process, outside, budgets>>

(* ------------------------- staging a candidate ------------------------- *)

\* prepare_command_dispatch lets a profile command through: no owner, no journal.
Start ==
  /\ At("idle")
  /\ fs["safety"] = None /\ fs["journal"] = None
  /\ WritebackBeforeStart => \A f \in File : disk[f] = {fs[f]}
  /\ Within(faults, crashes, meddles, starts + 1)
  /\ starts' = starts + 1
  /\ outside' = FALSE
  /\ GoTo("clean_orphan")
  /\ UNCHANGED <<files, link, client, ledger, unsynced, faults, crashes, meddles>>

CleanOrphan ==
  /\ At("clean_orphan")
  /\ \/ fs["candidate"] = None /\ Onward("stage")
     \/ fs["candidate"] # None /\ Changed("candidate", None) /\ UNCHANGED published

\* rotate: managed_open_candidate_exclusive creates the empty candidate.
OpenCandidate ==
  /\ At("stage")
  /\ Put("candidate", Partial)
  /\ GoTo("generate")
  /\ UNCHANGED <<link, client, ledger, unsynced, outside, budgets>>

\* The helper selects a server that is neither current nor excluded and writes
\* the profile through the open descriptor.
GenerateCandidate ==
  LET eligible == Profiles \ (excluded \cup {StaticProfile, fs["active"]})
  IN /\ At("generate")
     /\ \/ \E p \in eligible : Changed("candidate", p) /\ UNCHANGED published
        \/ eligible = {} /\ Onward("drop_candidate")

\* restore-static: the pre-managed snapshot becomes the candidate.
StageStatic ==
  /\ At("stage")
  /\ fs["active"] # StaticProfile
  /\ Changed("candidate", StaticProfile)
  /\ UNCHANGED published

\* A rotate that fails before it owns anything removes its candidate.
DropCandidate ==
  /\ At("drop_candidate")
  /\ Changed("candidate", None)
  /\ UNCHANGED published

(* ------------------------- forward transaction ------------------------- *)

TakeSnapshot ==
  /\ At("snapshot")
  /\ snapshot' = IF configured = None THEN NoSnapshot
                 ELSE [intent |-> containers[configured], id |-> configured]
  /\ pc' = "backup"
  /\ UNCHANGED <<files, link, client, ledger, unsynced, mode, exit, outside, budgets>>

PrepareBackup ==
  /\ At("backup")
  /\ Changed("backup", fs["active"])
  /\ UNCHANGED published

PreexcludeCandidate ==
  /\ At("preexclude")
  /\ excluded' = excluded \cup ({fs["candidate"]} \ {StaticProfile})
  /\ GoTo("prepare_safety")
  /\ UNCHANGED <<files, link, client, published, unsynced, outside, budgets>>

PrepareSafety ==
  /\ At("prepare_safety")
  /\ Changed("safety", [state |-> "pending", backup |-> fs["backup"],
                        candidate |-> fs["candidate"],
                        intent |-> snapshot.intent, id |-> snapshot.id])
  /\ published' = FALSE

PrepareJournal ==
  /\ At("prepare_journal")
  /\ Changed("journal", [phase |-> "prepared", backup |-> fs["backup"],
                         candidate |-> fs["candidate"]])
  /\ UNCHANGED published

StopClient ==
  /\ At("stop_client")
  /\ IF Intent = "running" /\ containers[Recorded] = "gone"
       THEN Fail /\ UNCHANGED containers
       ELSE /\ containers' = IF Intent = "running"
                               THEN [containers EXCEPT ![Recorded] = "stopped"]
                               ELSE containers
            /\ GoTo("after_stop")
  /\ UNCHANGED <<files, link, configured, ledger, unsynced, outside, budgets>>

Checkpoint ==
  /\ pc \in DOMAIN AfterCheckpoint
  /\ IF ProvenStopped
       THEN Onward(AfterCheckpoint[pc])
       ELSE ContainAndFail

\* managed_journal_transition: verify the phase's profiles, then replace the file.
JournalTransition ==
  /\ pc \in DOMAIN JournalSteps /\ ~unsynced
  /\ fs["journal"] # None /\ fs["journal"].phase = JournalSteps[pc].from
  /\ fs["candidate"] = fs["journal"].candidate
  /\ fs["active"] = IF pc \in {"journal_stopped", "journal_down"}
                      THEN fs["journal"].backup ELSE fs["journal"].candidate
  /\ Changed("journal", [fs["journal"] EXCEPT !.phase = JournalSteps[pc].to])
  /\ UNCHANGED published

InterfaceDown ==
  /\ pc \in {"down", "rb_down"}
  /\ link' = None
  /\ GoTo(IF pc = "down" THEN "after_down" ELSE "rb_after_down")
  /\ UNCHANGED <<files, client, ledger, unsynced, outside, budgets>>

InstallCandidate ==
  /\ At("install")
  /\ Changed("active", fs["candidate"])
  /\ UNCHANGED published

\* managed_ensure_interface_up refuses an interface that exists.
InterfaceUp ==
  /\ pc \in {"up", "rb_up"}
  /\ link = None
  /\ link' = fs["active"]
  /\ GoTo(IF pc = "up" THEN "after_up" ELSE "rb_after_up")
  /\ UNCHANGED <<files, client, ledger, unsynced, outside, budgets>>

VerifyNetwork ==
  /\ pc \in {"network", "rb_network", "rb_prove", "fin_network"}
  /\ IF link = fs["active"]
       THEN Onward(CASE pc = "network" -> "after_network"
                     [] pc = "rb_network" -> "rb_after_network"
                     [] pc = "rb_prove" -> "rb_restore"
                     [] pc = "fin_network" -> "fin_intent")
       ELSE /\ Fail
            /\ UNCHANGED <<files, link, client, ledger, unsynced, outside, budgets>>

\* Mutant: the start goes to the configured name, whatever container it denotes.
RestoreByName ==
  /\ pc \in {"restore", "rb_restore"}
  /\ IF RollbackProvenStopped
       THEN /\ containers' = IF Intent = "running" /\ configured # None
                               THEN [containers EXCEPT ![configured] = "running"]
                               ELSE containers
            /\ GoTo(IF pc = "restore" THEN "journal_verified" ELSE "rb_prove_final")
            /\ UNCHANGED <<files, link, configured, ledger, unsynced, outside, budgets>>
       ELSE ContainAndFail

\* managed_qb_restore_recorded_intent: the one start of the recorded ID.
RestoreIntent ==
  /\ pc \in {"restore", "rb_restore"}
  /\ IF ProvenStopped
       THEN /\ containers' = IF Intent = "running"
                               THEN [containers EXCEPT ![Recorded] = "running"]
                               ELSE containers
            /\ GoTo(IF pc = "restore" THEN "journal_verified" ELSE "rb_prove_final")
            /\ UNCHANGED <<files, link, configured, ledger, unsynced, outside, budgets>>
       ELSE ContainAndFail

\* Mutant: success is published before the commit.
ProveThenPublish ==
  /\ pc \in {"prove_restored", "prove_cleaned", "fin_prove", "rb_prove_final"}
  /\ IF Proven(IF pc = "rb_prove_final" THEN fs["safety"].backup
               ELSE fs["safety"].candidate)
       THEN /\ GoTo(CASE pc = "prove_restored" -> "remove_candidate"
                      [] pc = "prove_cleaned" -> "commit"
                      [] pc = "fin_prove" -> "remove_safety"
                      [] pc = "rb_prove_final" -> "rb_remove_safety")
            /\ published' = (published \/ pc = "prove_cleaned")
            /\ UNCHANGED <<files, link, client, excluded, unsynced, outside, budgets>>
       ELSE ContainAndFail

\* Profile binding, network and intent re-proved before and after the cleanup,
\* and before each removal of the safety record.
Prove ==
  /\ pc \in {"prove_restored", "prove_cleaned", "fin_prove", "rb_prove_final"}
  /\ IF Proven(IF pc = "rb_prove_final" THEN fs["safety"].backup
               ELSE fs["safety"].candidate)
       THEN /\ Onward(CASE pc = "prove_restored" -> "remove_candidate"
                        [] pc = "prove_cleaned" -> "commit"
                        [] pc = "fin_prove" -> "remove_safety"
                        [] pc = "rb_prove_final" -> "rb_remove_safety")
       ELSE ContainAndFail

RemoveCandidate ==
  /\ pc \in {"remove_candidate", "rb_remove_candidate"} /\ ~unsynced
  /\ \/ fs["candidate"] = None /\ Onward(AfterSync[pc])
     \/ fs["candidate"] # None /\ Changed("candidate", None) /\ UNCHANGED published

\* Mutant: the journal's unlink is not synced before the steps that rely on it.
RemoveJournalUnsynced ==
  /\ pc \in {"remove_journal", "rb_remove_journal"} /\ ~unsynced
  /\ Put("journal", None)
  /\ GoTo(AfterSync[pc])
  /\ UNCHANGED <<link, client, ledger, unsynced, outside, budgets>>

RemoveJournal ==
  /\ pc \in {"remove_journal", "rb_remove_journal"} /\ ~unsynced
  /\ \/ fs["journal"] = None /\ Onward(AfterSync[pc])
     \/ fs["journal"] # None /\ Changed("journal", None) /\ UNCHANGED published

\* The commit point: pending becomes committed.
Commit ==
  /\ At("commit")
  /\ ArtifactsValid(fs)
  /\ Changed("safety", [fs["safety"] EXCEPT !.state = "committed"])
  /\ UNCHANGED published

(* ------------------- finalizing a committed candidate ------------------ *)

\* managed_qb_ensure_recorded_intent: a contained client is started again.
EnsureIntent ==
  LET startable == TupleMatches /\ Intent = "running" /\ containers[Recorded] = "stopped"
  IN /\ At("fin_intent")
     /\ IF IntentHolds \/ startable
          THEN /\ containers' = IF startable
                                  THEN [containers EXCEPT ![Recorded] = "running"]
                                  ELSE containers
               /\ GoTo(IF fs["safety"].state = "committed"
                         THEN "bookkeeping" ELSE "fin_prove")
               /\ UNCHANGED <<files, link, configured, ledger, unsynced, outside, budgets>>
          ELSE ContainAndFail

\* Mutant: a resumed finalization releases the exclusion as well.
BookkeepingAlwaysReleases ==
  /\ At("bookkeeping")
  /\ published' = TRUE
  /\ excluded' = excluded \ {fs["safety"].candidate}
  /\ GoTo("mark_finalizing")
  /\ UNCHANGED <<files, link, client, unsynced, outside, budgets>>

\* managed_postcommit_bookkeeping; only the run that committed knows the server.
Bookkeeping ==
  /\ At("bookkeeping")
  /\ published' = TRUE
  /\ excluded' = IF mode = "forward" THEN excluded \ {fs["safety"].candidate} ELSE excluded
  /\ GoTo("mark_finalizing")
  /\ UNCHANGED <<files, link, client, unsynced, outside, budgets>>

MarkFinalizing ==
  /\ At("mark_finalizing")
  /\ ArtifactsValid(fs)
  /\ Changed("safety", [fs["safety"] EXCEPT !.state = "finalizing"])
  /\ UNCHANGED published

\* The last effect of both a finalization and a rollback.
RemoveSafety ==
  /\ pc \in {"remove_safety", "rb_remove_safety"} /\ ~unsynced
  /\ Changed("safety", None)
  /\ UNCHANGED published

(* ------------------------------- rollback ------------------------------ *)

\* managed_refresh_exclusion_and_rollback; its failure is mode "undurable".
ExcludeAgain ==
  /\ At("exclude_again")
  /\ excluded' = excluded \cup {fs["safety"].candidate}
  /\ GoTo("rb_enter")
  /\ UNCHANGED <<files, link, client, published, unsynced, outside, budgets>>

EnterRollback ==
  /\ At("rb_enter")
  /\ containers' = Contained
  /\ IF Pending /\ CanContain /\ Recoverable(fs) THEN GoTo("rb_before_down") ELSE Fail
  /\ UNCHANGED <<files, link, configured, ledger, unsynced, outside, budgets>>

RollbackCheckpoint ==
  /\ pc \in DOMAIN AfterRollbackCheckpoint
  /\ IF RollbackProvenStopped
       THEN Onward(AfterRollbackCheckpoint[pc])
       ELSE ContainAndFail

\* Mutant: the restored profile is not synced.
InstallBackupUnsynced ==
  /\ At("rb_install")
  /\ Put("active", fs["backup"])
  /\ GoTo("rb_after_install")
  /\ UNCHANGED <<link, client, ledger, unsynced, outside, budgets>>

InstallBackup ==
  /\ At("rb_install")
  /\ Changed("active", fs["backup"])
  /\ UNCHANGED published

\* A rollback whose exclusion is not durable keeps its evidence.
CleanupGate ==
  /\ At("rb_gate")
  /\ Onward(IF mode = "undurable" THEN "contain_exit" ELSE "rb_remove_candidate")

\* Mutant: a failed recovery exits without containing the client.
ExitUncontained ==
  /\ At("contain_exit")
  /\ Return("fail")
  /\ UNCHANGED <<files, link, client, ledger, unsynced, outside, budgets>>

\* managed_rollback_failure: best-effort containment, status "failed".
ContainAndExit ==
  /\ At("contain_exit")
  /\ containers' = Contained
  /\ Return("fail")
  /\ UNCHANGED <<files, link, configured, ledger, unsynced, outside, budgets>>

(* ---------------------------- reconciliation --------------------------- *)

\* The timer's check with nothing pending; a healthy tunnel whose client does
\* not listen gets its configured container restarted.
HealthyCheck ==
  /\ At("idle")
  /\ fs["safety"] = None /\ fs["journal"] = None
  /\ exit' = "done"
  /\ containers' \in {containers} \cup
       {[containers EXCEPT ![c] = "running"] :
          c \in {d \in Containers : d = configured /\ link = fs["active"]}}
  /\ UNCHANGED <<files, link, configured, ledger, pc, unsynced, snapshot, mode,
                 outside, budgets>>

\* The timer's check with a safety record: load it.
StartReconcile ==
  /\ At("idle")
  /\ fs["safety"] # None
  /\ pc' = "rec_contain"
  /\ mode' = "resumed"
  /\ snapshot' = [intent |-> fs["safety"].intent, id |-> fs["safety"].id]
  /\ UNCHANGED <<files, link, client, ledger, unsynced, exit, outside, budgets>>

ReconcileContain ==
  /\ At("rec_contain")
  /\ containers' = Contained
  /\ IF CanContain
       THEN GoTo(IF Pending THEN "rec_barrier" ELSE "rec_check")
       ELSE Fail
  /\ UNCHANGED <<files, link, configured, ledger, unsynced, outside, budgets>>

\* managed_safety_rebarrier_pending
RebarrierPending ==
  /\ At("rec_barrier")
  /\ Barrier
  /\ GoTo("rec_check")
  /\ UNCHANGED <<link, client, ledger, unsynced, outside, budgets>>

\* Mutant: a committed owner's client is started before its network is proved.
ClassifySkipsNetwork ==
  /\ At("rec_check")
  /\ IF ~Recoverable(fs) THEN Fail
     ELSE GoTo(IF Pending THEN "rb_enter" ELSE "fin_intent")
  /\ UNCHANGED <<files, link, client, ledger, unsynced, outside, budgets>>

\* Mutant: a pending record without a journal is refused.
ClassifyNeedsJournal ==
  /\ At("rec_check")
  /\ IF ~Recoverable(fs) \/ (Pending /\ fs["journal"] = None) THEN Fail
     ELSE GoTo(IF Pending THEN "rb_enter" ELSE "fin_network")
  /\ UNCHANGED <<files, link, client, ledger, unsynced, outside, budgets>>

Classify ==
  /\ At("rec_check")
  /\ IF ~Recoverable(fs) THEN Fail
     ELSE GoTo(IF Pending THEN "rb_enter" ELSE "fin_network")
  /\ UNCHANGED <<files, link, client, ledger, unsynced, outside, budgets>>

(* ---------------------------- specification ---------------------------- *)

\* An installed profile that is up, no switch begun.  Of the containers only the
\* configured one exists: another comes in when it is created under that name or
\* configured (OutsideReplace), and concerns no switch before.
Init ==
  /\ \E p \in Profiles :
       /\ fs = [active |-> p, backup |-> None, candidate |-> None,
                safety |-> None, journal |-> None]
       /\ link = p
  /\ disk = [f \in File |-> {fs[f]}]
  /\ configured \in Containers \cup {None}
  /\ \E there \in {"running", "stopped"} :
       containers = [c \in Containers |-> IF c = configured THEN there ELSE "gone"]
  /\ excluded = {} /\ published = FALSE
  /\ pc = "idle" /\ unsynced = FALSE /\ snapshot = NoSnapshot
  /\ mode = "forward" /\ exit = "none" /\ outside = FALSE
  /\ faults = 0 /\ crashes = 0 /\ meddles = 0 /\ starts = 0

Staging == CleanOrphan \/ OpenCandidate \/ GenerateCandidate \/ StageStatic \/ DropCandidate
Forward ==
  \/ TakeSnapshot \/ PrepareBackup \/ PreexcludeCandidate \/ PrepareSafety
  \/ PrepareJournal \/ StopClient \/ Checkpoint \/ JournalTransition
  \/ InterfaceDown \/ InstallCandidate \/ InterfaceUp \/ VerifyNetwork
  \/ RestoreIntent \/ Prove \/ RemoveCandidate \/ RemoveJournal \/ Commit
Finalize == EnsureIntent \/ Bookkeeping \/ MarkFinalizing \/ RemoveSafety
Rollback == ExcludeAgain \/ EnterRollback \/ RollbackCheckpoint \/ InstallBackup
              \/ CleanupGate \/ ContainAndExit
Reconcile == StartReconcile \/ ReconcileContain \/ RebarrierPending \/ Classify

\* What the program does: its steps, their failures included.
Program == Staging \/ Forward \/ Finalize \/ Rollback \/ Reconcile \/ Sync \/ StepFails
Crash == Kill \/ PowerLoss
Outside == \/ \E c \in Containers : OutsideStart(c) \/ OutsideReplace(c)
           \/ \E p \in Profiles : ExpireExclusion(p)
           \/ Writeback

Next == Start \/ HealthyCheck \/ Program \/ Crash \/ Outside

Spec == Init /\ [][Next]_vars

\* A locked process runs on, and the timer starts a check when none runs.
FairSpec == Spec /\ WF_vars(Program)

(* ------------------------------ properties ----------------------------- *)

FilesTypeOK ==
  /\ DOMAIN fs = File /\ DOMAIN disk = File
  /\ \A f \in File : fs[f] \in disk[f]
  /\ disk["active"] \subseteq Profiles
  /\ disk["backup"] \subseteq Profiles \cup {None}
  /\ disk["candidate"] \subseteq Profiles \cup {None, Partial}
  /\ disk["safety"] \subseteq SafetyRecord \cup {None}
  /\ disk["journal"] \subseteq JournalRecord \cup {None}

ControlTypeOK ==
  /\ pc \in Steps
  /\ unsynced \in BOOLEAN
  /\ unsynced => pc \in DOMAIN AfterSync
  /\ mode \in {"forward", "resumed", "undurable"}
  /\ exit \in {"none", "done", "fail", "killed"}

WorldTypeOK ==
  /\ link \in Profiles \cup {None}
  /\ containers \in [Containers -> {"running", "stopped", "gone"}]
  /\ configured \in Containers \cup {None}
  /\ snapshot \in [intent : Intents, id : Containers \cup {None}]
  /\ excluded \subseteq Profiles
  /\ published \in BOOLEAN /\ outside \in BOOLEAN
  /\ faults \in Nat /\ crashes \in Nat /\ meddles \in Nat /\ starts \in Nat

\* Every variable has its type; what a process sees is among what may persist.
TypeOK == FilesTypeOK /\ ControlTypeOK /\ WorldTypeOK

\* Whatever image of the directory a power loss leaves, at whatever step, a safety
\* record in it is one the reconciler can finish on: it never stands beside a
\* backup, candidate, journal or active profile that contradicts it.
CrashRecoverable ==
  \A img \in Images : img["safety"] # None => Recoverable(img)

\* No crash image holds a journal without the safety record that owns it.
NeverUnowned ==
  \A img \in Images : img["safety"] = None => img["journal"] = None

\* Success (status and cooldown) is never published for a switch that can still
\* be rolled back in the same boot: the record it is published under is past pending.
PublishedOnlyCommitted == published => ~Pending

\* The server of a candidate stays durably excluded as long as any crash image
\* holds a pending record for it, whatever was written since.
ExcludedWhilePending ==
  \A s \in disk["safety"] :
    s # None /\ s.state = "pending" /\ s.candidate # StaticProfile
      => s.candidate \in excluded

\* With no outside hand, no step takes the client from running on the installed
\* profile's tunnel (or from stopped) to running without it: not taking the
\* interface down, not replacing the profile, not starting the client.
ClientOffTunnel ==
  configured # None /\ containers[configured] = "running" /\ link # fs["active"]
ClientNeverLeavesTunnel ==
  [][~outside' /\ ClientOffTunnel' => ClientOffTunnel]_vars

\* Whatever Docker or the operator does meanwhile: while a switch is owned the
\* program starts no container but the recorded one, under the configured name,
\* recorded as running, with the interface up on the installed profile.
StartsOnlyRecorded ==
  [][\A c \in Containers :
       /\ pc # "idle" /\ meddles' = meddles
       /\ containers[c] # "running" /\ containers'[c] = "running"
       => c = Recorded /\ Intent = "running" /\ link = fs["active"]]_vars

\* A run that failed and left a pending record left the client stopped.
FailedRunLeavesClientStopped ==
  ~outside /\ pc = "idle" /\ exit = "fail" /\ Pending /\ Intent # "unmanaged"
    => containers[Recorded] # "running"

\* The record is only ever removed with the side it decided on installed and
\* up, and (with no outside hand) the client back in its recorded state.
ReleasedOnlyWhenRestored ==
  [][pc # "idle" /\ fs["safety"] # None /\ fs'["safety"] = None /\ pc' = pc =>
       LET side == IF Pending THEN fs["safety"].backup ELSE fs["safety"].candidate
       IN /\ fs["active"] = side /\ disk["active"] = {side} /\ link = side
          /\ ~outside /\ Intent # "unmanaged"
               => containers[Recorded] = Intent]_vars

\* A committed owner whose tunnel a power loss left down stays contained:
\* nothing in the program brings that tunnel up again.
Stranded == Committed /\ link # fs["active"]

\* The configured container is not the recorded one: recreated under its name,
\* or another is configured.  Containment fails at every check while the
\* recorded one is gone (70:362), and the client cannot be restored by another
\* (its immutable ID does not match), so the owner is kept, by design.
Displaced == fs["safety"] # None /\ ~TupleMatches

\* Every owner that the reconciler accepts is released in the end, unless it is
\* stranded or its container displaced.  A container that is configured again
\* has its owner released after all.
EventuallyReleased ==
  fs["safety"] # None /\ Recoverable(fs)
    ~> fs["safety"] = None \/ Stranded \/ Displaced

\* managed_rollback_failure reports that the recovery state was retained.
FailedRollbackKeepsRecord ==
  [][pc = "contain_exit" /\ pc' = "idle" => fs["safety"] # None]_vars

(* ------------------------- the abstract switch ------------------------- *)

\* The decision a power loss cannot take back: a switch is open while some
\* image still holds a pending record.
Owners == disk["safety"] \ {None}
Switch == INSTANCE ProfileSwitch WITH
  profile <- IF Owners = {} THEN fs["active"] ELSE (CHOOSE s \in Owners : TRUE).backup,
  target <- IF Owners = {} THEN None ELSE (CHOOSE s \in Owners : TRUE).candidate,
  committed <- Owners # {} /\ \A s \in Owners : s.state # "pending"

\* Every behaviour of the file protocol is one of the atomic switch.
ImplementsSwitch == Switch!Spec
=============================================================================
