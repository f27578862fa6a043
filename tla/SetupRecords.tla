---------------------------- MODULE SetupRecords ----------------------------
(***************************************************************************)
(* The records of the guided setup (libexec/wg_healthcheck_setup) and the  *)
(* decisions it reads off them: the setup journal and its grammar          *)
(* (apply_journal.py), the health configuration (apply_config.py), and the *)
(* choice of the API credential (credential_state.py).                     *)
(*                                                                         *)
(* All of them live in one directory, health_dir.  A configuration is its  *)
(* profile source and its settings (device and countries together); a      *)
(* credential is a key.  `proof' stands for the three proof fields of the  *)
(* journal: the start of a health check and the status file before it.     *)
(***************************************************************************)
CONSTANTS Settings,  \* device and country selections
          Keys,      \* API keys
          None       \* an absent file or an argument not given

ApiOperations == {"provision", "adopt", "api-update"}
StaticOperations == {"static", "static-restore"}
ProofPhases == {"verifying", "verified"}
ClosedPhases == {"verified", "rolled-back"}

OperationPhases(operation) ==
  {"prepared", "activated", "rolled-back"} \cup ProofPhases
    \cup (IF operation \in ApiOperations THEN {"config", "credential"} ELSE {})
    \cup (IF operation = "static-restore" THEN {"activating"} ELSE {})

Config == [source : {"static", "api"}, settings : Settings]

JournalRecord == [operation : ApiOperations \cup StaticOperations,
                  phase : UNION {OperationPhases(o) : o \in ApiOperations \cup StaticOperations},
                  hadKey : BOOLEAN, hadPreManaged : BOOLEAN, keyChanged : BOOLEAN,
                  proof : BOOLEAN]

ASSUME RecordsAssumption == None \notin Settings \cup Keys \cup Config \cup JournalRecord

\* _validate_semantics, for the current version of the record.
ValidateSemantics(j) ==
  /\ j.phase \in OperationPhases(j.operation)
  /\ j.operation \in StaticOperations => ~j.keyChanged
  /\ j.operation \in ApiOperations => j.hadKey \/ j.keyChanged
  /\ j.proof <=> j.phase \in ProofPhases

\* The records read_journal accepts.
Journal == {j \in JournalRecord : ValidateSemantics(j)}

\* The fixed names a setup operation may leave behind besides its four files.
Entry == {"journal", "config", "credential", "configPrevious", "credentialPrevious"}
\* Mutant: the staging name of the journal is not among those discarded.
InstalledTargets == {"config", "credential"}

PrivateTargets == {"journal", "config", "credential"}   \* their staging is private
Snapshots == {"configPrevious", "credentialPrevious"}

Directory == [journal : Journal \cup {None},
              config : Config,
              credential : Keys \cup {None},
              configPrevious : Config \cup {None},
              credentialPrevious : Keys \cup {None},
              staging : SUBSET Entry]   \* the entries whose staging name exists

\* Mutant: the rolled-back record keeps the proof of the check that failed.
RolledBackKeepsProof(j) == [j EXCEPT !.phase = "rolled-back"]

\* _rolled_back
RolledBack(j) == [j EXCEPT !.phase = "rolled-back", !.proof = FALSE]

\* _assert_setup_artifacts_clear: nothing of an earlier transaction remains.
SetupArtifactsClear(d) ==
  /\ d.journal = None
  /\ d.configPrevious = None /\ d.credentialPrevious = None
  /\ d.staging = {}

(* ------------- what the calls of store.py leave behind ----------------- *)

Staged(d, entry) == [d EXCEPT !.staging = @ \cup {entry}]
Unstaged(d, entry) == [d EXCEPT !.staging = @ \ {entry}]

\* Each call is told by the directory it completes in, and by those it may be
\* cut or may fail in.  atomic_write and copy_descriptor_atomic write a staging
\* file and rename it over the entry.
Written(d, entry, value) == [d EXCEPT ![entry] = value]
WriteLeaves(d, entry, value) == {d, Staged(d, entry), Written(d, entry, value)}

\* snapshot_file discards an abandoned copy, links the new one to the backup
\* and then gives up its staging name.
Snapshotted(d, source, backup) == Unstaged([d EXCEPT ![backup] = d[source]], backup)
SnapshotLeaves(d, source, backup) ==
  LET copied == Snapshotted(d, source, backup)
  IN {d, Unstaged(d, backup), Staged(d, backup), Staged(copied, backup), copied}

\* restore_snapshot: the backup stays until the journal is closed.
Restored(d, backup, target) == Written(Unstaged(d, backup), target, d[backup])
RestoreLeaves(d, backup, target) ==
  {d} \cup WriteLeaves(Unstaged(d, backup), target, d[backup])

\* durable_unlink: the staging name it gives up is the one of a snapshot.
Cleaned(d, entry) == IF entry \in Snapshots THEN Unstaged(d, entry) ELSE d
Removed(d, entry) == [Cleaned(d, entry) EXCEPT ![entry] = None]
RemoveLeaves(d, entry) == {d, Cleaned(d, entry), Removed(d, entry)}

(* --------------------- the choice of the credential -------------------- *)

Request == [mode : {"api", "static"}, settings : Settings,
            key : Keys,                             \* what the operator would type
            replace : BOOLEAN, restore : BOOLEAN,   \* --replace-credential, --restore-pre-managed
            remove : BOOLEAN, reset : BOOLEAN,      \* --remove-credential, --reset-api-state
            enable : BOOLEAN]                       \* --enable-timer

\* secure_read refuses a file with two names: a snapshot whose staging link
\* has not been removed.
Readable(d, snapshot) == d[snapshot] # None /\ snapshot \notin d.staging

\* Mutant: the state foreseen is the one installed now.
StateInstalled(d) == [source |-> d.config.source, present |-> d.credential # None]

\* credential_state_after_recovery: the source and the key that recovery will
\* leave, as far as the journal tells; None where the function raises.
StateAfterRecovery(d) ==
  LET j == d.journal
      State(source, present) == [source |-> source, present |-> present]
  IN CASE j.phase \in ClosedPhases -> State(d.config.source, d.credential # None)
       [] j.phase \in {"activated", "verifying"} ->
            State(IF j.operation = "api-update" THEN "api" ELSE "static", j.hadKey)
       [] OTHER ->
            IF d.configPrevious # None
              THEN IF Readable(d, "configPrevious")
                     THEN State(d.configPrevious.source, j.hadKey)
                     ELSE None
              ELSE IF j.phase = "prepared"
                     THEN State(d.config.source, j.hadKey)
                     ELSE None

\* The state api_requires_proposed_credential decides from.
CredentialState(d) ==
  IF d.journal = None THEN [source |-> d.config.source, present |-> d.credential # None]
                      ELSE StateAfterRecovery(d)

\* api_requires_proposed_credential refuses: nothing readable to decide from,
\* or a replacement of a key that is not there.
ProposalRefused(d, r) ==
  \/ CredentialState(d) = None
  \/ r.replace /\ ~CredentialState(d).present

RequiresProposal(d, r) ==
  LET state == CredentialState(d)
  IN r.replace \/ ~state.present \/ state.source # "api"

\* precheck_api_credential: a proposal is missing, is there though the
\* installed key would be reused, or differs from the recovered key.
PrecheckAccepts(d, r, supplied, allowMatching) ==
  IF d.config.source = "api" /\ d.credential # None
    THEN IF r.replace
           THEN supplied # None
           ELSE supplied # None => allowMatching /\ supplied = d.credential
    ELSE /\ supplied # None
         /\ r.replace => d.credential # None

\* effective_credential on what the precheck accepted: may the key retained in
\* static mode stand, and which key takes part.
RetainedKeyMatches(d, r, supplied) ==
  d.config.source = "static" /\ d.credential # None /\ ~r.replace
    => supplied = d.credential

KeyChanges(d, r) ==
  d.credential = None \/ r.replace

EffectiveKey(d, supplied) == IF supplied = None THEN d.credential ELSE supplied
=============================================================================
