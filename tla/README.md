# AirVPN WireGuard health check: TLA+ models and proofs

`wg-healthcheck` keeps one WireGuard interface to AirVPN working: a systemd timer starts a
check every minute, a failing tunnel is restarted or moved to another server, and a
torrent client that is bound to the tunnel must never run without it.  A guided setup
(`wg-healthcheck-setup`) installs the API credential, the configuration and the profile
source under a journal.  This directory models the parts that are hard to test: what a
switch of the installed profile or a setup leaves behind when calls fail, processes are
killed, power is lost, or Docker and the operator interfere; which requests to the provider
are made when the record of the earlier ones goes through the same accidents; and which
process may work on the interface at all.

Contents: [the system](#the-system) · [the plan](#the-plan) ·
[the managed switch](#the-managed-switch) · [the API ledger](#the-api-ledger) ·
[the guided setup](#the-guided-setup) · [the file store](#the-file-store) ·
[the lease and the locks](#the-lease-and-the-locks) ·
[runs](#runs) · [proofs](#proofs) · [findings](#findings) ·
[what is not modelled](#what-is-not-modelled)

## The system

All processes of one interface are serialised by `<state>/<iface>.lock`; there is no
daemon.  What survives a process is files, the live interface and Docker.

| Component (source) | State it keeps | Operations | Hard behaviour | Correct when |
|---|---|---|---|---|
| Managed profile switch (`wg-healthcheck-managed.d/10, 20, 50, 60, 70`) | in `/etc/wireguard`: installed profile, `.bak-healthcheck`, candidate, safety record, journal; interface; client container | prepare, stop client, down, install, up, verify, restore client, clean up, commit, finalize, roll back, reconcile | every step can fail before or after its effect became visible; kill at the 180 s start timeout; power loss leaves any mix of unsynced entries; Docker restarts or replaces the client meanwhile | every leftover is recoverable; one decision per switch, never undone; client never off the tunnel |
| Staging and profile commands (`80`) | candidate file, `AIRVPN_PROFILE_SOURCE` in the configuration, `.pre-managed` snapshot | provision, adopt, rotate, restore-static, cleanup-candidate | half-generated candidate; profile source rewritten before the switch it belongs to | a candidate nobody owns is dropped, never installed |
| API ledger (`30`) | per interface: attempts of the last 24 h, backoff, failure class, credential identity, 16 exclusions | load, prune, gate, record attempt, record outcome, add and remove exclusion | clock steps back; limits reached; write fails after an outcome | no more calls than the window allows; backoff respected; a failed server stays away |
| Provider attempt (`40`) | global API lock shared by the interfaces | lock, gate, preflight, record, call, record, unlock, downstream | kill between record and outcome; interfaces queue | a call is always counted; the lock is not held over the switch |
| Check runtime (`bin/wg-healthcheck`) | stamps and status in `/run/wg-healthcheck` (tmpfs), v1 rotation marker | check, static endpoint rotation, restart, speed check, dispatch, locks | marker, endpoint and restart cut anywhere; cooldowns; guard lent by the setup | an interrupted rotation is undone; no profile command over an unresolved owner |
| Status and maintenance (`90`) | none | status, reset-api-state | reset against a running provider attempt | the ledger is removed only when nothing runs |
| Setup apply engine (`wg_healthcheck_setup/application.py`, `apply_*.py`, `credential_state.py`) | in `health_dir`: setup journal, configuration, credential, their snapshots, staging names | recover, apply API or static mode, prove healthy, finalize, roll back, clean up, reset, remove key, enable timer | every call fails or is cut before or after its effect; the runtime's commands may be killed half way; recovery is cut again | source, settings and credential change together or not at all; every record left can be resolved |
| File store (`store.py`) | names, inodes and their durability | atomic write, snapshot, restore, unlink, discard staging | rename, data and directory become durable one after the other; a snapshot has two names for a moment | files are whole; what succeeded stays; nothing is left that recovery does not know |
| Lease and locks (`apply_system.py`, `bin/wg-healthcheck`) | the guard, its lent descriptor, the interface lock, status file, timer | take and lend the lease, stop units, probe, call, prove health, adopt, exit | a killed setup leaves its command running, a killed command its helper | one worker on the interface; nothing beside a transaction; no success from before its proof |
| Setup command line (`cli.py`, `clients.py`, `model.py`, `private_io.py`) | none | parse, prompt for a key, preview, confirm | the key is asked for before recovery, from what recovery will leave | never asks too little |
| API helper (`libexec/airvpn-api`) | none | select, list, generate | malformed answers | selected server eligible |
| Units (`systemd/`) | timer state | start a check 60 s after the last | timeout kill | |
| Installer (`install.sh`) | installed files, guards, timers | quiesce, guard, replace, resume | live upgrade | old and new code never mixed |

**Interaction.** A check first classifies what the last process left
(`classify_pending_marker`).  A safety record is reconciled before anything else, and every
profile command is refused while one exists.  Only with nothing pending does the check look
at the tunnel; a failing one in API mode runs a provider attempt (under the global lock,
through the ledger), which stages a candidate, and then, after the lock is released, the
managed switch.  The setup engine excludes all of this with the setup guard and lends the
open descriptor of its guard to the runtime's commands it calls, one after the other, for at
most 65 s each; it reads what they did off their exit status, the profile, the configuration
and the status file.

## The plan

1. `ProfileSwitch` (abstract) and `ManagedTransaction` with its proofs: **done**.  The core:
   it is the only part that touches the installed profile, the tunnel and the client
   together.
2. `ApiLedger`: attempts, window, backoff, exclusions, wall clock and the global lock
   for two interfaces, with its proofs: **done**.
3. `SetupRecords`, `SetupApply` and the abstract `SetupAtomic`: the setup engine, with
   failing calls, kills, power losses and recovery; an apply is all or nothing: **done**.
4. `SetupStore`: the store's calls, system call by system call, against the outcomes
   `SetupApply` gives them: **done**.
5. `SetupLease` with its proofs: guard, lent lease, interface lock, health proof: **done**.
6. Open: `StaticRotation` (the v1 marker, endpoint rewrite, restart and stamps of the
   check); `AdminCommands` step by step (`SetupApply` has them as single steps with all
   their results); `Selection` (eligibility and order of servers) as operators.
7. Proofs of every safety property the runs check, with both refinements
   (`ManagedTransaction` of `ProfileSwitch`, `SetupApply` of `SetupAtomic`): **done** (see
   [proofs](#proofs)).  Liveness stays with TLC ([only
   model-checked](#only-model-checked)).

`SetupApply` composes `SetupRecords` with the engine and takes from the other modules what
they guarantee: one step per call of the store (checked by `SetupStore`), nothing beside a
transaction (`SetupLease`), and a switch that is cut leaves one of its two profiles
(`ProfileSwitch`).

Each module takes its budgets of accidents as constants, so that TLC bounds them and the
proofs do not.

## The managed switch

### Modules

* `ProfileSwitch`: the abstract promise.  A profile, the target of an open switch, and
  whether it is decided.  Crashes do not appear: they may decide an open switch, never
  undo a decision.
* `ManagedTransaction`: the file protocol, one action per step of the code.
* `MCManagedTransaction` and the `MCSwitch*.cfg` files: the TLC instances.
* `ManagedTransaction_proof`: the theorems about the files, then those about the client and
  the refinement.

### State and code

| Variable | In the code |
|---|---|
| `fs` | what `stat` and `read` see of the installed profile (`$WG_CONF`), its backup, the candidate, `$MANAGED_SAFETY` and `$ROTATION_PENDING` |
| `disk` | for each of them, the contents a power loss may leave |
| `link` | the profile `wg-quick up` was last run with, or none |
| `containers`, `configured` | Docker's state of each container; the one `QBITTORRENT_CONTAINER` names |
| `excluded` | the exclusion list of the ledger that is on disk |
| `published` | `write_status recovered` and `$ROTATE_STAMP`, both in `/run` |
| `pc`, `unsynced` | the step the locked process is at; whether that step's change is visible and not yet synced |
| `snapshot`, `mode`, `exit` | `managed_qb_snapshot`'s variables; whether recovery was entered by the run that committed, a later one, or with an exclusion that could not be written; how the last process ended |
| `outside` | somebody but the program changed the client |

A profile stands for its digest and endpoint.  The code checks that every profile of a
switch has the same private identity; here all have, so those checks are not written.  A
step that writes (`Changed`) and its directory sync (`Sync`) are two actions, with a
failure, a kill and a power loss possible between them; `StepFails` is the failure of
either, and goes to the exit `OnFailure` names, which is the code's own (`abort 0`,
`abort 1`, reconcile, contain, return).

Two rollback checkpoints between which the code only reads are one; the second would
repeat the first unless the client is meddled with exactly between the two, which the next
checkpoint sees.

### Durability

The five files are entries of one directory.  A writer syncs a temporary file before it
renames it, so a content is whole or absent.  A rename or unlink is visible at once and
certain only after a sync of the directory; until then each entry may persist or not,
independently.  `disk[f]` is that set, `Images` the directories a power loss can leave.
This is weaker than any journaling file system in use.

`WritebackBeforeStart` says whether the kernel has written back the directory before a new
transaction starts.  It only matters after a failed sync (every completed step syncs).  The
timer waits 60 s between checks and the kernel's default writeback takes 30 to 35 s, so
`TRUE` is the usual case; the operator can start `rotate` earlier, and with `FALSE` TLC finds
what then goes wrong (further disagreement 1).

### Environment

* Failing calls, kills and power losses, meddling with containers and transactions are counted
  (`faults`, `crashes`, `meddles`, `starts`), and the guards keep the counts within one of the
  `Budgets`.
* Only the containers the configuration names or has named exist: another one appears when the
  operator or Docker creates it (`OutsideReplace`).
* A kill loses the process and nothing else.  A power loss also empties `/run`, leaves the
  interface down or brought up by its boot unit with the installed profile, and lets
  Docker's restart policy bring back what ran.
* One process at a time: the interface lock.
* An exclusion may expire only while nothing is pending and no crash image holds a record:
  it lasts six hours and the transaction that wrote it is bounded by the 180 s timeout, the
  recovery by the timer.  The code that prunes exclusions does not look at the record
  (`30-api-state.bash:221`): this is an assumption on time, and a host that is off for six
  hours in the middle of a switch breaks it.
* `FairSpec` assumes `WF_vars(Program)`: a process that holds the lock goes on, and the
  timer starts another check when none runs.  Nothing is assumed of crashes, faults, the
  operator or Docker: what they do is never fair, and only bounded.

### Properties

| Property | Says |
|---|---|
| `CrashRecoverable` | whatever a power loss leaves, a record in it is one the reconciler accepts |
| `NeverUnowned` | and a journal in it has its owner |
| `PublishedOnlyCommitted` | success is never published over a switch that may still be undone |
| `ExcludedWhilePending` | the candidate's server stays excluded while a crash can bring its pending record back |
| `ReleasedOnlyWhenRestored` | the record goes only when the decided profile is installed for certain, up, and the client is back |
| `ClientNeverLeavesTunnel` | no step takes a client from on the tunnel to running off it |
| `StartsOnlyRecorded` | under meddling, only the recorded container is started, by its own ID, on an up tunnel |
| `FailedRunLeavesClientStopped` | a failed run that leaves a pending owner leaves the client stopped |
| `EventuallyReleased` | every recoverable owner is released, unless it is committed and stranded, or its container was displaced |
| `ImplementsSwitch` | the protocol implements `ProfileSwitch` |

The mapping of `ImplementsSwitch` reads the decision off `disk`: a switch is open while some
image still holds a pending record, so a commit takes effect when its sync makes it certain.

A committed owner whose tunnel a power loss left down is `Stranded`: reconciliation contains
the client and waits for the network (`managed_finalize_committed_transaction`), and no code
brings the interface up for it.  That is fail-closed; the boot unit or the operator ends it.

An owner is `Displaced` while the configured container is not the recorded one.  If the client
is recreated during a switch, its recorded ID is gone, containment fails at every check
(`70-transaction-recovery.bash:362`), and the owner, and with it every rotation, stays until
somebody steps in.  If another container is configured while the recorded one remains, both
are kept stopped.  The design wants it so (design document, lines 554-560 and 660-664:
"Configuration drift keeps both targets stopped and the safety record present").
The run `switch` explores it, with two interventions, so that the recorded container may also
be configured again: then the owner is released after all, because the property asks it of
every state and not only of the first.

`published` stands for status and cooldown together, as the commit writes them.  A rollback
writes the status `recovered` too, while its record is still pending
(`60-profile-effects.bash:403`); that says the old profile is back, no cooldown goes with it,
and `PublishedOnlyCommitted` does not speak of it.

## The API ledger

### Modules

* `ApiLedger`: the ledger operations (fragment 30) as operators on a record, and the
  provider attempt (fragment 40, with its callers in 70, 80 and 90) as one action per step
  between which another process, a crash or the clock can come.
* `MCApiLedger` and the `MCLedger*.cfg` files: the TLC instances.
* `ApiLedger_proof`: the theorems about the limit, the types and the lock, then those about
  holds and exclusions.

### State and code

| Variable | In the code |
|---|---|
| `file` | the ledger file of each interface; a missing file is the ledger observed at epoch 0 that holds nothing, because loading either gives the same memory |
| `synced` | what a power loss may leave of it instead: the content before a rename or an unlink whose directory sync failed |
| `mem` | the `MANAGED_API_*` variables of a running process |
| `lock` | the holder of `airvpn-api.lock`; the kernel frees it with the process |
| `pc`, `run` | the step, and the operation, credential and selected server of the attempt |
| `clock` | `date +%s`; captured after the global lock (`Loaded`) and again when the answer is there |
| `installed` | identity of the installed credential: the stat tuple of the key file with the device name |
| `pending` | a switch is undecided: no attempt starts; its own steps are `ManagedTransaction`'s |
| `slots`, `calls`, `promised` | ghosts: the ordinal of the last booking, the bookings whose request was made, and what durable outcomes promised |

A *booking* is a recorded attempt, with an ordinal so that two attempts in one second are
two.  `Book` writes it, `Call` makes the request, `Answer` writes the outcome; `GateHolds`,
`PreflightFails`, `Preexclude`, `SwitchCommits` and `SwitchFails` are the other writers.
Every write goes through `Persist`, which refuses what `managed_api_state_memory_is_valid`
refuses, and may fail before the rename or after it.

Abstracted: `window_start` (the first booking's epoch, or `observed_at`), the check of the
file's modification time, the failure of an unlock (the process ends and the kernel
unlocks), the 900 s rotation cooldown of the check (fewer attempts in the code).  A gate that
refuses for a reason outside the ledger is `GateRefuses`, which is always possible.

### Environment

* The clock goes on by itself, and with `MaxAdverse` may step back to any earlier value,
  while a process waits, holds the lock or calls.
* `MaxAdverse` is one budget for crashes, power losses, failed writes, steps of the clock,
  credential changes and resets: each may strike at every step.
* A credential changes only between attempts (the setup engine holds the exclusive lease),
  but a dry run may bring its own.
* `FairSpec` assumes `WF_vars(Advance(i))`: a process that holds the global lock is
  scheduled and every call it makes returns, because the helper runs under `timeout`.
  Nothing is assumed of processes that wait for the lock.

### Properties

| Property | Says |
|---|---|
| `TypeOK` | types, and: no sequence of operations writes a ledger that cannot be loaded again |
| `RateBound` | no `MaxAttempts + 1` requests of an interface within one `Day` |
| `CallsCharged` | the file, and what a power loss leaves of it, charge every request of the last `Day`; no booking serves two requests |
| `HoldRespected` | no bypass and no new credential lets a request through a rate-limit, transient or preflight backoff |
| `FailedCandidateHeld` | a server whose trial did not commit is not selected again within six hours, crash or not |
| `GeneratorSerialised` | one authenticated generator over all interfaces, and none over tunnel work |
| `LockFreed` | every holder of the global lock lets it go |
| `RetryAfterHonoured` | refuted: finding 2 |
| `SuppressionKept` | refuted: further disagreement 2 |

## The guided setup

### Modules

* `SetupAtomic`: the abstract promise.  The triple of source, settings and credential that
  is in force changes to the one asked for, in one step; a static installation may then give
  up its credential.
* `SetupRecords`: the journal with its grammar (`_validate_semantics`), the directory, what
  the calls of the store leave of it, and the decisions that only read records:
  `RolledBack`, `StateAfterRecovery`, `RequiresProposal`, `PrecheckAccepts`.
* `SetupApply`: one invocation of `apply_setup_request`, one action per call the engine
  makes, and what comes between two invocations.
* `MCSetupApply` and the `MCSetup*.cfg` files: requests and installations for TLC.
* `SetupApply_proof`: the types and the control of the engine; `SetupSound_proof`: what every
  directory is worth that may be found; `SetupProposal_proof`: the key foreseen before
  recovery is the key needed after it; `SetupExact_proof`: what is on disk against the
  history of the transaction, with the refinement of `SetupAtomic`.

### State and code

| Variable | In the code |
|---|---|
| `images` | `health_dir`: journal, configuration, credential, `config-previous`, `credential-previous` and staging names.  The last element is what a process sees, the first is durable, a power loss leaves one of them |
| `wg` | what the runtime's commands work on: installed profile, pre-managed snapshot, candidate, and the two profiles a cut switch may settle on |
| `status` | the status file against the last proof start: `good` is newer and a success |
| `timer` | the timer unit is enabled |
| `pc`, `run` | the step, and what the invocation holds: request, key typed, `recovering`, the journal in memory, and the function whose `except` clause is next (`caller`) |
| `verdict` | the answer: the success text, or which of the error messages |
| `txn` | history: what the last transaction found and was asked for, whether `restore-static` has succeeded |

A configuration is its profile source and its settings (device and countries are read and
written together); a key stands for the credential's bytes; `proof` stands for the three
proof fields of the journal.  `AtomicWrite`, `SnapshotFile`, `RestoreSnapshot` and
`DurableUnlink` complete with the directory durable, or fail or are cut in any state of
`WriteLeaves`, `SnapshotLeaves`, ... of `SetupRecords`.  `RuntimeCall` has a command complete,
refuse, fail or be killed after any of its effects.  `Raise` is the `except` clause that
catches an error, by `caller`: refuse, roll back, report an incomplete rollback, keep a
restored static profile, or report a commit that is not finalized.

### Environment

* `Faults`, `MaxFaults`: a store call fails (`error`), a command fails (`runtime`), the setup is
  killed or the host loses power (`kill`): at every call, and between two invocations.
* Between two invocations checks run, rotate, and leave a good or bad status; a preview is
  cut and leaves a candidate; the operator asks for anything.
* Directory changes reach the disk in the order made (as on ext4, XFS and Btrfs).
* `LiveSpec` assumes that an invocation goes on (`WF_vars(Proceed)`: every child is limited
  by 65 s) and that the operator repeats each request, `SF_vars(Ask(r))`, because only an
  invocation recovers: no unit does it.

### Windows

Five behaviours of the code break what it promises.  They are named in the constant
`Windows`, and explored only where a configuration names them, so that everything else can
be checked with them closed.  `RotatesRestoration` is a step of the code, written as a predicate
on a step: the model takes it when the window is open, and two of the theorems speak of the
behaviours without it.

| Window | What it lets happen | Shown by |
|---|---|---|
| `unrecorded rollback` | a fault (or a check by hand) during a rollback whose journal recovery would commit | run `setup_rollback`, finding 3 |
| `unmanaged restore` | a fault during a restoration that has no profile or no snapshot of one to restore | run `setup_unmanaged`, finding 4 |
| `moved restore` | a check rotates the static profile while the record of a restoration is there (`RotatesRestoration`) | run `setup_moved`, finding 5 |
| `reordered` | directory changes reach the disk in another order | further disagreement 7 |
| `unsynced removal` | a fault while the last record is removed and recovery could still make something else of an earlier image, one whose end was never synced | further disagreement 7 |

### Properties

| Property | Says |
|---|---|
| `TypeOK` | types, and: in every image, the journal is one `read_journal` accepts |
| `NeverStuck` | no sequence of accidents leads to a state recovery refuses for good |
| `ApiSourceHasKey` | in every image, API mode has its credential and its profile |
| `TimerFailClosed` | the timer is enabled only when nothing of a transaction is left in any image |
| `AnswerHolds` | what the operator is told (done, rolled back, kept) is so, and survives a power loss |
| `ExactOrCommitted` | without a record, the triple is exactly the one found or the one asked for |
| `RestoredStaysStatic` | a static profile restored with success is not paired with API mode again, unless a check has rotated it beside its record (refuted there: finding 5) |
| `AdoptionUndone` | an adoption that did not commit leaves the operator's profile, and no snapshot of its making |
| `ProposalSuffices` | when recovery returns, an API request for which no key was asked needs none, unless recovery has just kept a restoration cut in phase `activating` (refuted there: further disagreement 4) |
| `AppliesAtomically` | the engine implements `SetupAtomic` |
| `RecordsResolved` | a record left is resolved, if the operator goes on asking |

The mapping of `AppliesAtomically` (`InForce`) reads the durable directory: an open
transaction counts for what its snapshots hold (`Recovered`), a closed one and a kept
restoration for what is installed.

Two of the windows were found, or found to be too narrow, by the proofs and by runs with more
faults than those below: `unsynced removal` takes three faults, and a restoration with a
snapshot but no profile (`Unmanaged`), or a rotation beside a record that only an earlier
image holds (`RotatesRestoration`), takes four.

## The file store

`SetupStore` is `store.py` on the configuration and its snapshot.  `dirs` is what the
directory was since its last `fsync`, `data` what each inode holds and whether that is
synced; a power loss leaves one of `Images` with unsynced data torn.  One action is one
system call, or the test that leads to none: `Create` (`O_EXCL`), `Fill`, `SyncData`,
`Publish` (`rename`, or `link` for a snapshot), `SyncFile`, `SyncDir`, `Drop`, `Undo` (the
`finally` clauses), `Clean` (`_clean_snapshot_staging`), `Unlink`.  Each may fail or be the
last.  `data` has a fixed set of inodes: `Create` needs a free one (`Free`), and
`StoreAssumption` asks for two at least.  `fs` is chosen at the start: a file system that keeps the order of directory changes
or one that does not.

| Property | Says |
|---|---|
| `EntriesWhole` | on either file system, whatever a power loss leaves, a name holds a whole value, one it held or was being given |
| `SuccessDurable` | what a call that returned has changed is in every image |
| `Foreseen` | at every system call, and however the call ends, the directory is one of those `SetupRecords` foresees, and it is refused only where `SetupApply` refuses |

`Foreseen` is what makes the store calls of `SetupApply` single steps.  It has one exception,
written in it: a file system that reorders can leave a snapshot and another inode under its
staging name, which `_clean_snapshot_staging` reports as a conflict.  The credential's store
calls are the same code on another name (`copy_descriptor_atomic` differs in where the bytes
come from).

## The lease and the locks

`SetupLease` is the guard protocol between setups and the runtime's commands.

| Variable | In the code |
|---|---|
| `lease`, `shared` | whose open descriptor locks the guard exclusively, and whose share it |
| `iface` | whose descriptor locks the interface |
| `pc`, `calls`, `answer` | a setup's step, its calls, and how the last one (or, `recovering`, an earlier setup's) ended |
| `at`, `lender`, `helper` | a command's step, the setup whose descriptor it inherited, and whether a child of it (`wg-quick`, `docker`, a subshell) runs |
| `proof`, `status` | whether the status file is still the one of the proof start, and what it says |
| `since` | history: the commands that set to work since the proof start |

A flock belongs to the open file: it is free when the last descriptor is closed (`Closes`), so
a killed command's lock lasts as long as its helper, and a killed setup's lease as long as
the command it called; `Finish` alone unlocks explicitly.  No lock is waited for: who does
not get it ends (exit 75, or 0 for the unit).  The time stamps of a proof are left out; the
identity of the status file is what the property needs.  `FairSpec`: commands and helpers go
on and end (`timeout`, the unit's limits), `SF_vars(Exit(r))` because a command may start
helpers again and again, and a setup ends at some time, `SF_vars(Finish(s))`.

| Property | Says |
|---|---|
| `LeaseExcludes` | a setup that runs has the guard, and no command it was not lent to is past it |
| `OneAtWork` | one command or surviving helper on the interface |
| `TransactionAlone` | during a transaction, nothing of the commands of before is left at work |
| `LeaseAdoptable` | a called command can adopt the lease, also of a setup that was killed |
| `ProofSound` | a setup is finalized only on the success of a check that set to work after the proof start, whoever ran it, also by another setup's recovery |
| `LeaseReleased` | the guard does not stay locked |

`ProofSound` is why the order matters in which the code stops the units, probes the interface
lock and only then takes the identity of the status file: a check that is still at work would
write a status that looks new.

## Runs

| Run | Instance | Bounds | States | Shows |
|---|---|---|---|---|
| `switch` | 2 profiles, 2 containers | 2 faults, 2 crashes, 2 transactions, undisturbed; 1 fault, 1 crash, 1 transaction with 2 interventions | 1 080 744 | everything promised of a switch: files, client, refinement of `ProfileSwitch`, and the release of every owner that is neither stranded nor displaced |
| `ledger_window` | 1 interface, 3 servers, 2 credentials, limits 1 and 2, 3 bookings, `Day` 3, clock to 7 | 1 accident | 524 989 | the request limit, the charge of every request, the holds, failed servers stay away, the ledger stays loadable |
| `ledger_shared` | 2 interfaces, 1 booking each | 1 accident | 36 372 | the global lock |
| `setup` | 5 requests, 3 installations, 2 keys, 2 settings | 2 faults | 7 449 721 | everything promised of a setup, windows closed |
| `setup_liveness` | 2 requests, an adopted interface | 2 faults | 224 997 | every record is resolved |
| `setup_store` | 2 values, 2 names, 8 inodes, both file systems | 2 faults | 482 369 | the store |
| `setup_lease` | 2 setups, the unit and 2 commands | 2 calls per setup | 35 624 | the locks and the health proof |
| `switch_failed_rollback` | 2 profiles | 2 faults | violation | finding 1 |
| `ledger_retry_after` | 1 interface, `Retry-After` of 3 against a backoff of 1 | none | violation | finding 2 |
| `setup_rollback` | API requests on an adopted interface | 2 faults | violation | finding 3 |
| `setup_unmanaged` | any request, not yet managed | 1 fault | violation | finding 4 |
| `setup_moved` | API and restoration requests, an adopted interface | 1 fault | violation | finding 5 |

Why the bounds of the switch are enough: two profiles are the backup and the candidate.  Two
transactions let the leftovers of one meet the next.  Two faults reach a failure inside the
recovery from a failure; two crashes a crash inside the recovery from a crash.  Two
containers are the recorded one and its replacement, and two interventions replace it and put
it back; `EventuallyReleased` is checked with them, as nothing is assumed of who makes them.
The run has both budgets (`Accidents` of `MCManagedTransaction`), one for what goes wrong by
itself and one for what somebody does.  The safety properties hold for all values by proof.

Why those of the ledger are: with a limit of one request per `Day`, three bookings leave the
window and come again.  `Day`, `SixHours` and `FiveMinutes` are 3, 2 and 1, which keeps their
order, and a backoff that doubles and meets its ceiling.  The limit on exclusions lies above
the limit on attempts, as 16 above 6 (`LedgerConstants`), by the least amount: the list of two
does fill, with a third server to add, and the code's eviction is still never needed, because
an exclusion is gone before a `Day` has allowed enough attempts.  The clock's last epoch is
reached, so the refusal of an epoch too late to record is too.  That an evicted entry is
never one still needed is therefore not seen in a run, and is what the theorem
`FailedCandidatesHeld` says.  One accident is one at any
step; the two properties that are about accidents hold for any number by proof.

Why those of the setup are: the number of invocations is not bounded, so any request follows
any other.  The three installations are nothing, an operator's own profile, and an adopted
interface; the five requests cover each mode, replacement, restoration, key removal, reset and
timer, and with two keys and two settings a repeated request may be the same or another.  Two
faults cut the recovery of a transaction that was cut.  In the store, two faults are a
failure and a power loss in its `finally` clause, and eight inodes are never all in use, so
a call does not stop for want of one.  In the lease, two setups are one that is killed and
one that comes after; two commands are the called one and one by hand, beside the unit.

`CHECK_DEADLOCK` stays on: the timer's check, a request or a call of the store is always
possible.

`PROJECT.json` names, for every property, a plausible error in one definition (a sync left
out, an exclusion lifted too early, a start by name, a lock unlocked instead of closed) under
which the run fails.

## Proofs

Eight modules hold the theorems.  Each is about every value of the constants: any set of
profiles, containers, interfaces, servers, keys, settings, requests, setups and commands, and
any budget of faults.  What is assumed is the `ASSUME` of the module concerned (which TLC
evaluates in the runs) and, where the table says so, a value of one constant.  Every
inductive invariant was model-checked on the instances below before it was proved.

| Module | Theorem | Property | Also assumed |
|---|---|---|---|
| `ManagedTransaction_proof` | `TypeCorrect` | `TypeOK` | writeback |
| | `CrashSafe` | `CrashRecoverable` | writeback |
| | `JournalOwned` | `NeverUnowned` | writeback |
| | `PublishedCommitted` | `PublishedOnlyCommitted` | writeback |
| | `PendingExcluded` | `ExcludedWhilePending` | writeback |
| | `SwitchesAtomically` | `ImplementsSwitch` | writeback |
| | `RestoredBeforeRelease` | `ReleasedOnlyWhenRestored` | writeback |
| | `FailuresContained` | `FailedRunLeavesClientStopped` | writeback |
| | `OnlyRecordedStarts` | `StartsOnlyRecorded` | writeback |
| | `NeverLeavesTunnel` | `ClientNeverLeavesTunnel` | writeback |
| `ApiLedger_proof` | `RequestsBounded` | `RateBound` | |
| | `RequestsCharged` | `CallsCharged` | |
| | `TypeCorrect` | `TypeOK` | |
| | `OneGenerator` | `GeneratorSerialised` | |
| | `HoldsRespected` | `HoldRespected` | |
| | `FailedCandidatesHeld` | `FailedCandidateHeld` | |
| `SetupStore_proof` | `StoreTypes` | `TypeOK` | |
| | `FilesStayWhole` | `EntriesWhole` | |
| | `SuccessIsDurable` | `SuccessDurable` | |
| | `OutcomesForeseen` | `Foreseen` | |
| `SetupApply_proof` | `EngineTypes` | `TypeOK` | |
| `SetupSound_proof` | `RecoveryNeverStuck` | `NeverStuck` | no window |
| | `TimerStaysClosed` | `TimerFailClosed` | no window |
| | `ApiAlwaysHasKey` | `ApiSourceHasKey` | no window |
| | `RestorationStays` | `RestoredStaysStatic` | no `RotatesRestoration` |
| `SetupProposal_proof` | `ForeseenKeySuffices` | `ProposalSuffices` | no `RotatesRestoration` |
| `SetupExact_proof` | `EngineRefinesAtomic` | `AppliesAtomically` | no window |
| | `ExactlyOneOrOther` | `ExactOrCommitted` | no window |
| | `AnswersHold` | `AnswerHolds` | no window |
| | `AdoptionsUndone` | `AdoptionUndone` | no window |
| `SetupLease_proof` | `TypeCorrect` | `TypeOK` | |
| | `GuardExcludes` | `LeaseExcludes` | |
| | `SingleWorker` | `OneAtWork` | |
| | `NothingLeft` | `TransactionAlone` | |
| | `CalledAdopts` | `LeaseAdoptable` | |
| | `HealthProved` | `ProofSound` | |

"Writeback" is `WritebackBeforeStart`: the invariant of the switch is one, and without it
`CrashRecoverable` fails (further disagreement 1).  "No window" is `Windows = {}`: in a window
the code does not keep what it promises (findings 3 to 5, further disagreement 7).
Both are the values of the passing runs.  "No `RotatesRestoration`" is less: the theorem lets
the window `moved restore` be open, with the other four closed, and speaks of the behaviours
that never take that step (`[][~RotatesRestoration]_vars`).  So the whole of what can put API
mode back over a restored profile is that one step, and the whole of what can make the foreseen
key insufficient is that step or the phase `ProposalSuffices` names.

### The managed switch: files

None of the properties is inductive: whether an unlink is safe depends on what earlier
barriers made certain.  `IInv` ties the sets in `disk` to the step the process is at:

* `Agreement`, `Unowned`, `PhaseGap`: entry by entry, any two entries a power loss may leave
  together fit.  These three imply `CrashRecoverable` and `NeverUnowned`
  (`InvRecoverable`), because an image picks one member of each set.
* `StagingControl`, `ForwardControl`, `RecoveryControl`: what is certain at each step;
  before the record exists no journal does, while it is pending the backup is certain, and
  so on.  They are what makes the first three survive the writes.
* `LedgerControl`: exclusion and publication against the step.
* `ConfiguredExists`: the configured container exists, which `TypeOK` needs for snapshots.

There is one lemma per conjunct group, with one step per action of `Next`.

### The managed switch: client and refinement

`IInv` says nothing of the client.  `CInv` adds three parts:

* `OneSwitch`: all records that a power loss may leave are of one switch, and differ in their
  state at most; with none of them the installed profile is certain.  `RecordSteps` lists
  the four ways in which the set of records changes.
* `Identified`: until something else touches the client, records name the configured
  container.
* `ClientControl`: at which steps the client is known to be down, the tunnel known to be up
  with the installed profile, and the client known to be as recorded.

`SwitchesAtomically` rests on the first: with the abstract switch read off the records, a step
of the protocol opens one (`PrepareSafety`), makes one image certain and so decides it, ends
it or leaves it open (`CertainSwitch`: a sync, a barrier, a power loss), or is none of the
switch's (`QuietSwitch`).  `RecordSteps` puts each action in one of these classes.

### The API ledger

`RateBound` speaks of requests made; the gate counts bookings in a ledger that may be an
older one, read under a clock that may have stepped.  The invariant `Account` ties them, for
one interface: the file, what a power loss leaves, and, once the gate has loaded it, the
memory each charge all requests of the last `Day` before their own `observed`; at the
booking the three are one ledger that holds a booking with a new ordinal.  Then the window
of the new request is part of a ledger within the limit (`AccountCalls`).  Every other
operation on a ledger only *ages* it: it drops bookings that left the window (`Ages`, with
one lemma per operator), so that the step lemmas need not look inside.

The types need the range of `Base`, the doubling backoff, a recursive function.  The library
has induction with an operator as parameter only; `SetInduction` is the instance that is
needed, on a set of numbers, from the least element that the well-foundedness of strict
inclusion between finite sets gives.  So the range of `Base` is a lemma too (`BaseRange`).

The holds and exclusions are promises, and `Promise` says who remembers them: `Kept`, the
memory, the file and what a power loss leaves, according to the step.  A list of exclusions
forgets when it is full.  `Crowd` is the reason why it never forgets too early: counted from
any time of the last `Day`, a ledger excluded at most one server more than it booked
attempts.  A booking makes room for one exclusion, the pre-exclusion of a trial takes it, and
its renewal after the trial failed takes the room of the entry it replaces.  With 6 attempts a
day and 16 entries there is always room (`RoomForTrial`); the proof uses only that the second
number is greater (`LedgerConstants`).

### The file store

* `NamesWhole`, `StagingPrivate`, `Awaiting` follow the data: in every directory a power loss
  may leave, a name is of an inode whose data is whole, durable and awaited under that name;
  an inode that is being filled has a staging name at most.
* `Progress` follows the directory: at each system call it is a function of the one the call
  found and of the value it is to put there, for each kind of call.

`EntriesWhole` and `SuccessDurable` come from the first, `Foreseen` from the second, by cases
on the call.  `Images` takes each name from any directory since the last barrier on a file
system that reorders (`Mixed`), so that what is proved of one entry of any directory
holds of every image.

### The setup engine

`TypeOK` of `SetupApply` says that every journal a power loss may leave is one
`read_journal` accepts, and is not inductive: whether the phase that is marked next is one of
the operation depends on where the engine is.  `Control` says which part of it an invocation
is in (`CallerAt`) and what record it holds there (`JournalAt`).  For each action there is a
lemma on how it can end (`...Lands`: completed, failed, cut by a kill or by a power loss),
which the later proofs use in its place.

What the engine promises of the directory alone rests on one invariant, `SInv`, in
`SetupSound_proof`:

* `HostInv`, of the directories a power loss may leave, all of them together with the present
  one.  `Worth`: each by itself can be rolled back or finished: an open record has the
  snapshots its phase needs, tells the truth about the key that is put back, and what is put
  back has its key and profile if it is the API's.  `Stands`: if one of them shows that the
  runtime has restored the static profile, then the profiles show it too, so recovery sees
  it, and the present directory leads nowhere else.  `Alone`: beside a restoration none of
  them would undo an adoption, which moves the same profiles.
* `RunInv`, of the invocation: the record in memory is the one on disk (`Recorded`), a
  rollback finds its snapshots (`Backed`), a clean-up removes what nobody needs
  (`Cleaning`), a request starts from a clear directory (`Starting`), and has done what its
  step says (`Applied`, `Posted`).
* `Fits` or `Refusing`: a restoration is under way only with a profile and a snapshot there,
  or the runtime is about to refuse it and no fault is possible (the window).
* `Timed`: while the timer is on, no invocation is past `stop`, and no directory holds
  anything of a transaction.

`NeverStuck` is a conjunct, the other three follow from it.  The proof of an action has two
parts, which the families of lemmas are named for: what it may leave in the directory, each
image beside those that were there (`...Leaves`), and where the invocation goes (`...Sound`).

All of it is proved with one window open (`Shut` closes the other four), for every step but
one: `Stands` is what a `RotatesRestoration` breaks, as the profiles it moves are what recovery
looks at.  So `EngineSound` and `RestorationStays` have `[][~RotatesRestoration]_vars` as a
hypothesis on the behaviour and none on the model; with no window open the guards give it
(`NoRotation`), which is how the other theorems use the invariant (`ClosedSound`).

`ProposalSuffices` joins two moments with a whole recovery between them.  Its invariant `PInv`
says of a request that was asked for no key (`Unasked`): what recovery would make of the
present directory has the API source and its key (`KeyAhead`), unless recovery is removing the
record of a restoration that it keeps, cut in phase `activating` (`Kept`).  Letting a request
in is where it begins.
Every step of a recovery changes the directory and leaves that the same (`...Proposed`); a
rollback that a rejected proof begins is of an `api-update`, because only for one in that phase
was no key asked.  The property speaks of the step on which recovery returns: few actions end
there (`...Unready` says which do not), and for those `Returns` gives it.

The four of `SetupExact_proof` compare the directory with the history of the transaction
(`txn`): what it found, what it was asked for, and how it ended.  Three parts are added to
`SInv`:

* `TxnInv`, of the images a power loss may leave.  `Ordered`: in their order they lead from
  what is durably in force to what was asked for, in one step at most; so whichever becomes
  durable, the abstract triple stays or takes that step, and `AppliesAtomically` follows.
  `Bounded`: each is accounted for by what was found or asked for.  `Cleared`: without a
  record they agree, but for a key that is being removed.  `Whole`: one that recovery may
  still commit is all of one or all of the other.  A rollback breaks that one on its way:
  it restores the files before it records that it has, and the directories between the two
  hold half of each under a record that says `verifying`.  They are `Excused` while the
  rollback goes on, or was cut with a stale status and no switch for a check to settle, so
  that no proof can follow.  This is where the window "unrecorded rollback" (finding 3)
  shows in the proof: a good status in that place would commit the half.
* `WorkInv`, of the invocation: how much of the request is on disk at each step (`Halfway`),
  what was asked for in terms of the request and its record (`Aims`), how far a rollback has
  come (`Undoes`), and what the verdict stands for, in the single image left and over a later
  power loss (`Told`).
* `AdoptInv`, of the profiles, for as long as the last request is an adoption.  `Adopted`: the
  pre-managed snapshot is of the operator's profile, and without it the installed profile is
  the operator's own, at most rotated (`Home`).  `Pictured`: in an image where the snapshot
  is there, either the record of this adoption is too or the source is the API's; where it is
  not there, the source is static.  `Adopting`: how far the invocation has come with it.  So
  an image with its record gone and the source static shows that the snapshot has been
  dropped, which the engine does only after the profile is back.

Each action has one lemma per part (`...Exact`, `...Adopts`).  None of the parts is inductive
by itself: that a health check between two invocations keeps `Adopted`, for instance, is
known from `Pictured`, since it may install any managed profile under the API's source, but
under the static one only another endpoint of the operator's own.

### The lease

The invariant says what a lock tells of the processes: the lease is the running setup's and
excludes the shared holders (`Leased`, `Sharing`); a lent one is still locked, its setup
waits, and lent to one command at a time (`LeaseAdoptable`, `Waited`, `OneCall`); what works
on the interface has its lock and, in a transaction, the lease (`Working`, `Alone`); who works
while a proof is open began after it (`Proving`).  `Alone` and `Waited` together are what
`BeginProof` needs: when a setup takes the identity of the status file, nobody is at work.
`GoneStep` is the lemma for everything that closes descriptors: refusal, exit and kill.

### Only model-checked

Every invariant and action property of the passing runs, and both refinements, are stated by
a theorem above.  What remains with TLC:

* Liveness, which the prover cannot reach (fairness needs `ENABLED`): `EventuallyReleased`, `LockFreed`,
  `RecordsResolved`, `LeaseReleased`.
* That `SetupStore` and `SetupLease` give `SetupApply` what it assumes of them is an argument
  of this page and not a refinement: the modules have no common state, `Foreseen` compares
  outcomes.

## Findings

1. *A failed rollback may have no record left* (`switch_failed_rollback`).  When only the
   sync after the last unlink fails, the rollback contains the client, reports status
   `failed` and logs that recovery state was retained; it was not.
2. *A `Retry-After` is never honoured* (`ledger_retry_after`).  The helper writes the delay
   into its message on standard error, the runtime discards that stream, and the variable
   the backoff reads stays empty.  The design promises that a valid `Retry-After` is
   honoured; only the provider double of the tests sets the variable.
3. *A rollback that is cut can be committed* (`setup_rollback`).  Until a rollback is
   complete its journal says `verifying` (or `activated`, for an API update).  If it is cut
   after the configuration was restored, and the status file is by then a success, the next
   invocation takes that for the setup's own proof and commits: old settings, new key.
4. *A restoration of what was never managed blocks setup for good* (`setup_unmanaged`).  A
   `static-restore` on an interface without a pre-managed snapshot is admitted and journalled
   as `activating` before the runtime refuses it; killed there, recovery reads the missing
   snapshot with `required=True` and raises at every later invocation.
5. *A rotation hides a restoration* (`setup_moved`).  Recovery recognises a restored static
   profile by its being identical to the pre-managed snapshot (`application.py:256`).  A setup
   that is killed after the restoration leaves its record; a check that then rotates the
   profile's endpoint (`rotate_static_endpoint`, which does not look at the journal) makes the
   comparison fail, and the next invocation puts API mode over the static profile that
   `application.py:541` wants kept.  The check is one by hand, as the timer is off, or the
   setup's own.  When the rotation comes after a clean-up has removed the configuration's
   snapshot, recovery has nothing to roll back to and refuses for good (`NeverStuck` in the
   same window).

### Further disagreements

Met while modelling, each seen in a TLC counterexample of the definition named (by naming
the window, the constant or the property in a configuration), and kept out of the runs above:

1. *A reappearing record is not always harmless* (`CrashRecoverable` with
   `WritebackBeforeStart = FALSE`).  The design says (`docs/aegis/specs/2026-07-12-airvpn-api-managed-profiles-design.md:651`)
   "If the final unlink reappears after a crash, finalization is harmlessly repeated."  If
   another switch began before writeback, the old record meets the new candidate; every
   later check refuses that and keeps the client contained
   (`60-profile-effects.bash:226`).
2. *A dry run can shorten a suppression* (`SuppressionKept`).  It passes the gate by its
   bypass, its server selection fails, and the five-minute backoff it records
   (`80-admin-commands.bash:259`) takes the place of the 24-hour suppression, although the
   provider was never asked.
3. *A setup reported as committed may be rolled back* (`ReportedCommitHolds`).
   `application.py:331` reports "setup is verified and committed" when its last journal write
   failed; the proof is a status file in `/run`, gone after a reboot or replaced by an
   unhealthy check.
4. *No key is asked for after a cut restoration* (`ProposalSuffices` without its exception).
   The comment at `credential_state.py:94` says "Provision/adoption and either static transition
   can still commit or roll back during recovery. Require a proposal so either result can
   proceed in this invocation", but the phases of line 91 leave out `activating`, in which
   recovery keeps a restoration that is visible (`application.py:300`).  One kill after
   `restore-static`: for the next API request the source of `config-previous`, api, is
   foreseen, no key is asked for, recovery leaves static mode, and the invocation fails for
   want of a proposed credential.  The exception is exactly this case, so the run `setup` and
   the theorem still hold the code to every other one.
5. *A cut snapshot makes API requests inadmissible* (`ApiRequestAdmitted`).  Design line 492
   has the interrupted same-inode staging link reconciled before a restore, but
   `credential_state.py:99` reads the snapshot before that, with a reader that refuses two
   names; a static request must recover first.
6. *A lone candidate is not removed* (`LoneCandidateRemoved`).  Design line 494 promises it;
   recovery asks for it only when there is a journal (`application.py:289`), and a validation
   cut before that leaves a candidate that blocks setup.
7. *A removal that is not repeated is not synced* (`NeverStuck` with `reordered`).
   `durable_unlink` of an absent name syncs nothing (`store.py:495`), so after a failed sync
   the snapshot's removal and the journal's are unsynced together, and a file system that
   does not keep their order can bring the snapshot back without its journal.  With the
   order kept, the same gap lets a power loss bring back the record with what it would undo,
   after a later invocation has found nothing to remove (`AppliesAtomically` with
   `unsynced removal` and three faults).

Observations that are no disagreement: success is published before the record goes, in
`/run`, so a power loss takes it back with the process; a resumed finalization cannot lift
the exclusion because the record does not name the server; the attempt time of a rotation is
read before its preflight, so that a request may be made later than its booking says by as
long as the preflight takes, and the window is exact for booked times only; a dry run with
another credential leaves that identity in the ledger, so the next timer run sees a changed
one and a suppression ends.

## What is not modelled

Formatting and parsing of records and of the command line, ownership and permission checks,
HTTP, and WireGuard itself.  Hash collisions.  A profile edited by hand during a switch.
`AIRVPN_PROFILE_SOURCE` in `ManagedTransaction` (so `rotate` is possible after
`restore-static` there: more behaviours than the code's; `SetupApply` has it).  The restart of
the interface by a check that does not rotate.  The steps of the static rotation: in
`SetupApply` it is one effect of a check (`Moves`), and its two hazards stay without a
property.  The locks of the other interface and of the API, which a setup probes as well,
in `SetupLease`.  The installer, a shell program of its own, the selection of servers in the
API helper, packaging and tests; `PROJECT.json` gives every component's status.
