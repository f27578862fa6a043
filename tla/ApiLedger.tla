----------------------------- MODULE ApiLedger -----------------------------
(***************************************************************************)
(* The provider attempt ledger of the managed runtime (fragments 30 and 40 *)
(* of libexec/wg-healthcheck-managed.d, with its callers in fragments 70,  *)
(* 80 and 90): which authenticated requests an interface may make, and     *)
(* what it remembers of them across failures, crashes and reboots.         *)
(*                                                                         *)
(* Each interface has its own ledger file, touched only under that         *)
(* interface's lock, and all interfaces share one blocking global lock.    *)
(* A process captures the wall clock after it has the global lock and once *)
(* more when the provider has answered; in between the clock runs on.      *)
(* A missing file is the ledger observed at epoch 0 that holds nothing:    *)
(* loading either gives the same memory.  A booking is a recorded attempt: *)
(* its epoch, and an ordinal that tells apart two attempts in one second.  *)
(* window_start is left out, it is the first booking's epoch or            *)
(* observed_at; a credential stands for the stat tuple of the key file     *)
(* together with the configured device name.                               *)
(***************************************************************************)
EXTENDS Naturals, FiniteSets

CONSTANTS Ifaces, Servers, Credentials,
          None,           \* no lock holder, no credential, no server
          MaxAttempts,    \* 6 in the code
          MaxExclusions,  \* 16
          Day,            \* 86400: rolling window, suppression, Retry-After ceiling
          SixHours,       \* 21600: exclusion and backoff ceiling
          FiveMinutes,    \* 300: first backoff, backoff after a failed preflight
          MaxEpoch,       \* 4294967295, the last epoch the ledger can hold
          RetryAfters,    \* what the provider may put in Retry-After; 0: nothing
          MaxBookings,    \* bound on the attempts an interface records
          MaxAdverse      \* bound on crashes, failed writes, clock steps back,
                          \* credential changes and resets, together

Outcomes == {"none", "auth", "device", "rate", "transient"}
Suppressions == {"auth", "device"}
Operations == {"rotate", "apply", "dry-run"}
Booking == [slot : Nat, at : Nat]
Ledger == [observed : Nat, attempts : SUBSET Booking, backoff : Nat, class : Outcomes,
           identity : Credentials \cup {None}, excluded : [Servers -> Nat]]

ASSUME LedgerConstants ==
  /\ None \notin Ifaces \cup Servers \cup Credentials
  /\ {MaxAttempts, MaxExclusions, Day, SixHours, FiveMinutes, MaxEpoch,
      MaxBookings, MaxAdverse} \subseteq Nat
  /\ 0 < MaxAttempts /\ MaxAttempts < MaxExclusions
  /\ 0 < FiveMinutes /\ FiveMinutes <= SixHours /\ SixHours <= Day
  /\ RetryAfters \subseteq 0..Day

VARIABLES
  clock,      \* wall clock
  lock,       \* holder of airvpn-api.lock, or None
  pc,         \* the step the interface's process is at; "idle": no process
  run,        \* its operation, credential and selected server
  mem,        \* the ledger it has in memory
  file,       \* the ledger file a process reads
  synced,     \* the ledger that certainly survives a power loss
  installed,  \* the installed credential
  pending,    \* a switch journal or safety record exists
  slots,      \* ordinal of the last booking
  calls,      \* bookings whose authenticated request was made, since the last reset
  promised,   \* what durable outcomes promise: servers to avoid until, requests
              \* to hold until, and the time the provider asked to wait for
  adverse

ghosts == <<slots, calls, promised>>
vars == <<clock, lock, pc, run, mem, file, synced, installed, pending, ghosts, adverse>>

(* ----------------------------- the ledger ------------------------------ *)

\* managed_api_state_defaults
EmptyLedger == [observed |-> 0, attempts |-> {}, backoff |-> 0, class |-> "none",
                identity |-> None, excluded |-> [s \in Servers |-> 0]]

Live(l) == {s \in Servers : l.excluded[s] > l.observed}

\* managed_api_state_memory_is_valid 1: what every write and every load demands.
Valid(l) ==
  /\ l.observed + Day <= MaxEpoch
  /\ l.backoff <= l.observed + Day
  /\ (l.class = "none") <=> (l.backoff = 0)
  /\ Cardinality(l.attempts) <= MaxAttempts
  /\ \A b \in l.attempts : b.at <= l.observed /\ l.observed - b.at < Day
  /\ l.identity # None
  /\ Cardinality({s \in Servers : l.excluded[s] # 0}) <= MaxExclusions
  /\ \A s \in Servers : l.excluded[s] <= l.observed + SixHours

\* Mutant: an attempt leaves the window one unit of time early.
PruneEarly(l, now) ==
  [l EXCEPT !.observed = now,
            !.attempts = {b \in l.attempts : now - b.at + 1 < Day},
            !.excluded = [s \in Servers |-> IF l.excluded[s] > now THEN l.excluded[s] ELSE 0]]

\* managed_api_state_prune, for now >= l.observed
Prune(l, now) ==
  [l EXCEPT !.observed = now,
            !.attempts = {b \in l.attempts : now - b.at < Day},
            !.excluded = [s \in Servers |-> IF l.excluded[s] > now THEN l.excluded[s] ELSE 0]]

\* managed_api_state_refresh_identity: a new identity ends a suppression, and
\* only a suppression.
Identify(l, c) ==
  LET lifted == c # l.identity /\ l.class \in Suppressions
  IN  [l EXCEPT !.identity = c,
                !.class = IF lifted THEN "none" ELSE @,
                !.backoff = IF lifted THEN 0 ELSE @]

\* Mutant: The dry-run bypass covers every failure class.
AllowedAnyClass(l, bypass) ==
  /\ Cardinality(l.attempts) < MaxAttempts
  /\ l.backoff > l.observed => bypass

\* managed_api_attempt_allowed
Allowed(l, bypass) ==
  /\ Cardinality(l.attempts) < MaxAttempts
  /\ l.backoff > l.observed => l.class \in Suppressions /\ bypass

\* managed_api_state_add_exclusion: at the limit the oldest entry makes room.
Excluding(l, s, now) ==
  LET p == Prune(l, now)
      oldest == {v \in Live(p) : \A w \in Live(p) : p.excluded[v] <= p.excluded[w]}
      room == s \in Live(p) \/ Cardinality(Live(p)) < MaxExclusions
  IN  {[p EXCEPT !.excluded = [t \in Servers |-> IF t = s THEN now + SixHours
                                                 ELSE IF t = v THEN 0 ELSE p.excluded[t]]] :
         v \in IF room THEN {s} ELSE oldest}

\* managed_compute_backoff: doubled per attempt to the ceiling, a tenth of
\* jitter, and a longer Retry-After wins.
AtMost(a, b) == IF a <= b THEN a ELSE b
Base[n \in 1..MaxAttempts] ==
  IF n = 1 THEN FiveMinutes ELSE AtMost(2 * Base[n - 1], SixHours)
Backoffs(n, retryAfter) ==
  {LET delay == AtMost(Base[n] + jitter, SixHours)
   IN  IF retryAfter > delay THEN retryAfter ELSE delay : jitter \in 0..(Base[n] \div 10)}

\* managed_generate_candidate_provider: the helper reports the delay on its
\* standard error, which is discarded, and the result field stays empty.
RetryAfterReported(retryAfter) == 0

\* managed_api_record_outcome, after its prune
Recording(p, outcome, server, blamed, retryAfter) ==
  LET classed == CASE outcome = "none" -> {[p EXCEPT !.class = "none", !.backoff = 0]}
                   [] outcome \in Suppressions ->
                        {[p EXCEPT !.class = outcome, !.backoff = p.observed + Day]}
                   [] OTHER ->
                        {[p EXCEPT !.class = outcome, !.backoff = p.observed + delay] :
                           delay \in Backoffs(Cardinality(p.attempts),
                                              RetryAfterReported(retryAfter))}
  IN  IF blamed THEN UNION {Excluding(l, server, p.observed) : l \in classed} ELSE classed

\* Mutant: The write skips the validity check.
PersistUnchecked(i, l, ok) ==
  /\ ok
  /\ file' = [file EXCEPT ![i] = l]
  /\ synced' = [synced EXCEPT ![i] = l]
  /\ UNCHANGED adverse

\* Mutant: The write reports success without the sync of the directory.
PersistUnsynced(i, l, ok) ==
  /\ ok /\ Valid(l)
  /\ file' = [file EXCEPT ![i] = l]
  /\ UNCHANGED <<synced, adverse>>

\* managed_api_state_write: temporary file, sync, rename, sync of the directory.
\* It fails before the rename, or after it with the new file in place.
Persist(i, l, ok) ==
  \/ /\ ok /\ Valid(l)
     /\ file' = [file EXCEPT ![i] = l]
     /\ synced' = [synced EXCEPT ![i] = l]
     /\ UNCHANGED adverse
  \/ /\ ~ok /\ ~Valid(l)
     /\ UNCHANGED <<file, synced, adverse>>
  \/ /\ ~ok /\ Valid(l) /\ adverse < MaxAdverse
     /\ adverse' = adverse + 1
     /\ file' \in {file, [file EXCEPT ![i] = l]}
     /\ UNCHANGED synced

(* --------------------------- the processes ----------------------------- *)

NoRun == [op |-> "apply", credential |-> None, server |-> None]
NoPromise == [avoid |-> [s \in Servers |-> 0], hold |-> 0, retryAt |-> 0]

Goto(i, step) == pc' = [pc EXCEPT ![i] = step]
Remember(i, l) == mem' = [mem EXCEPT ![i] = l]

Finish(i) ==
  /\ Goto(i, "idle")
  /\ Remember(i, EmptyLedger)
  /\ run' = [run EXCEPT ![i] = NoRun]

\* managed_global_api_lock_release; the kernel does it for a killed holder.
Release(i) == lock' = IF lock = i THEN None ELSE lock

Now(i) == mem[i].observed
Current(i) == [slot |-> slots[i], at |-> Now(i)]

\* What a process that takes the global lock now works with.
Loaded(i) == Identify(Prune(file[i], clock), run[i].credential)

Init ==
  /\ clock = 0
  /\ lock = None
  /\ pc = [i \in Ifaces |-> "idle"]
  /\ run = [i \in Ifaces |-> NoRun]
  /\ mem = [i \in Ifaces |-> EmptyLedger]
  /\ file = [i \in Ifaces |-> EmptyLedger]
  /\ synced = [i \in Ifaces |-> EmptyLedger]
  /\ installed \in [Ifaces -> Credentials]
  /\ pending = [i \in Ifaces |-> FALSE]
  /\ slots = [i \in Ifaces |-> 0]
  /\ calls = [i \in Ifaces |-> {}]
  /\ promised = [i \in Ifaces |-> NoPromise]
  /\ adverse = 0

\* managed_run_profile_attempt under the interface lock, no switch pending; only
\* a dry run may bring a credential that is not the installed one.
Start(i) ==
  /\ pc[i] = "idle" /\ ~pending[i]
  /\ \E op \in Operations :
       \E c \in IF op = "dry-run" THEN Credentials ELSE {installed[i]} :
         run' = [run EXCEPT ![i] = [op |-> op, credential |-> c, server |-> None]]
  /\ Goto(i, "waiting")
  /\ UNCHANGED <<clock, lock, mem, file, synced, installed, pending, ghosts, adverse>>

\* The lock is free, but the ledger does not load (the clock went back, or the
\* epoch is too late to record) or the key cannot be opened.
GateRefuses(i) ==
  /\ pc[i] = "waiting" /\ lock = None
  /\ Finish(i)
  /\ UNCHANGED <<clock, lock, file, synced, installed, pending, ghosts, adverse>>

\* The gate is closed: the refreshed ledger is written and 75 returned.
GateHolds(i) ==
  /\ pc[i] = "waiting" /\ lock = None
  /\ clock >= file[i].observed /\ Valid(Loaded(i))
  /\ ~Allowed(Loaded(i), run[i].op = "dry-run")
  /\ \E ok \in BOOLEAN : Persist(i, Loaded(i), ok)
  /\ Finish(i)
  /\ UNCHANGED <<clock, lock, installed, pending, ghosts>>

\* Mutant: The gate does not wait for the global lock.
GatePassesUnlocked(i) ==
  /\ pc[i] = "waiting"
  /\ clock >= file[i].observed /\ Valid(Loaded(i))
  /\ Allowed(Loaded(i), run[i].op = "dry-run")
  /\ lock' = i
  /\ Remember(i, Loaded(i))
  /\ Goto(i, "gated")
  /\ UNCHANGED <<clock, run, file, synced, installed, pending, ghosts, adverse>>

GatePasses(i) ==
  /\ pc[i] = "waiting" /\ lock = None
  /\ clock >= file[i].observed /\ Valid(Loaded(i))
  /\ Allowed(Loaded(i), run[i].op = "dry-run")
  /\ lock' = i
  /\ Remember(i, Loaded(i))
  /\ Goto(i, "gated")
  /\ UNCHANGED <<clock, run, file, synced, installed, pending, ghosts, adverse>>

\* managed_prepare_candidate_preflight: the public selector never returns an
\* excluded server.
SelectServer(i) ==
  /\ pc[i] = "gated" /\ slots[i] < MaxBookings
  /\ \E s \in Servers \ Live(mem[i]) : run' = [run EXCEPT ![i].server = s]
  /\ Goto(i, "selected")
  /\ UNCHANGED <<clock, lock, mem, file, synced, installed, pending, ghosts, adverse>>

\* managed_record_preflight_backoff: no server could be selected.
PreflightFails(i) ==
  /\ pc[i] = "gated"
  /\ LET l == [mem[i] EXCEPT !.class = "transient", !.backoff = Now(i) + FiveMinutes]
     IN  \E ok \in BOOLEAN :
           /\ Persist(i, l, ok)
           /\ promised' = IF ok THEN [promised EXCEPT ![i].hold = l.backoff] ELSE promised
  /\ Release(i) /\ Finish(i)
  /\ UNCHANGED <<clock, installed, pending, slots, calls>>

\* Mutant: An early return keeps the lock.
PreflightAbortsLocked(i) ==
  /\ pc[i] = "gated"
  /\ Finish(i)
  /\ UNCHANGED <<clock, lock, file, synced, installed, pending, ghosts, adverse>>

\* The candidate file cannot be opened or the helper is not secure.
PreflightAborts(i) ==
  /\ pc[i] = "gated"
  /\ Release(i) /\ Finish(i)
  /\ UNCHANGED <<clock, file, synced, installed, pending, ghosts, adverse>>

\* managed_api_record_attempt: the booking is durable before the request.
Book(i) ==
  /\ pc[i] = "selected"
  /\ slots' = [slots EXCEPT ![i] = @ + 1]
  /\ LET l == [mem[i] EXCEPT !.attempts = @ \cup {[slot |-> slots[i] + 1, at |-> Now(i)]}]
     IN  \/ /\ Persist(i, l, TRUE)
            /\ Remember(i, l)
            /\ Goto(i, "booked")
            /\ UNCHANGED <<lock, run>>
         \/ Persist(i, l, FALSE) /\ Release(i) /\ Finish(i)
  /\ UNCHANGED <<clock, installed, pending, calls, promised>>

\* The provider callback sends the authenticated request.
Call(i) ==
  /\ pc[i] = "booked"
  /\ calls' = [calls EXCEPT ![i] = @ \cup {Current(i)}]
  /\ Goto(i, "calling")
  /\ UNCHANGED <<clock, lock, run, mem, file, synced, installed, pending, slots,
                 promised, adverse>>

\* The answer is recorded at a fresh epoch, the lock released, and only a
\* recorded success lets a rotation go on.
Answer(i) ==
  /\ pc[i] = "calling"
  /\ clock >= Now(i)
  /\ \E outcome \in Outcomes, blamed \in BOOLEAN, retryAfter \in RetryAfters, ok \in BOOLEAN :
       LET p == Prune(mem[i], clock)
       IN  /\ blamed => outcome = "transient"
           /\ retryAfter # 0 => outcome = "rate"
           /\ outcome \in {"rate", "transient"} => p.attempts # {}
           /\ \E l \in Recording(p, outcome, run[i].server, blamed, retryAfter) :
                /\ Persist(i, l, ok)
                /\ promised' = [promised EXCEPT ![i] =
                     [hold |-> IF ok /\ outcome \in {"rate", "transient"} THEN l.backoff ELSE @.hold,
                      avoid |-> IF ok /\ blamed
                                  THEN [@.avoid EXCEPT ![run[i].server] = clock + SixHours] ELSE @.avoid,
                      retryAt |-> IF retryAfter # 0 THEN clock + retryAfter ELSE @.retryAt]]
                /\ IF ok /\ outcome = "none" /\ run[i].op = "rotate"
                     THEN Goto(i, "answered") /\ Remember(i, l) /\ UNCHANGED run
                     ELSE Finish(i)
  /\ Release(i)
  /\ UNCHANGED <<clock, installed, pending, slots, calls>>

\* The answer cannot be dated or classified: the clock went back, or every
\* booking has left the window.  Nothing is recorded.
AnswerLost(i) ==
  /\ pc[i] = "calling"
  /\ clock < Now(i) \/ Prune(mem[i], clock).attempts = {}
  /\ Release(i) /\ Finish(i)
  /\ UNCHANGED <<clock, file, synced, installed, pending, ghosts, adverse>>

\* Mutant: The pre-exclusion stays in memory.
PreexcludeInMemory(i) ==
  /\ pc[i] = "answered" /\ clock >= Now(i)
  /\ \E l \in Excluding(mem[i], run[i].server, clock) :
       /\ promised' = [promised EXCEPT ![i].avoid[run[i].server] = clock + SixHours]
       /\ Remember(i, l)
  /\ pending' = [pending EXCEPT ![i] = TRUE]
  /\ Goto(i, "trial")
  /\ UNCHANGED <<clock, lock, run, file, synced, installed, slots, calls, adverse>>

\* managed_preexclude_candidate: before the switch touches anything, its server
\* is excluded; if that is not durable, there is no switch.
Preexclude(i) ==
  /\ pc[i] = "answered"
  /\ clock >= Now(i)
  /\ \E l \in Excluding(mem[i], run[i].server, clock) :
       \/ /\ Persist(i, l, TRUE)
          /\ promised' = [promised EXCEPT ![i].avoid[run[i].server] = clock + SixHours]
          /\ pending' = [pending EXCEPT ![i] = TRUE]
          /\ Remember(i, l)
          /\ Goto(i, "trial")
          /\ UNCHANGED run
       \/ Persist(i, l, FALSE) /\ Finish(i) /\ UNCHANGED <<promised, pending>>
  /\ UNCHANGED <<clock, lock, installed, slots, calls>>

SwitchRefused(i) ==
  /\ pc[i] = "answered"
  /\ Finish(i)
  /\ UNCHANGED <<clock, lock, file, synced, installed, pending, ghosts, adverse>>

\* managed_postcommit_bookkeeping: the server of a committed switch is eligible
\* again, unless its entry cannot be removed.
SwitchCommits(i) ==
  /\ pc[i] = "trial"
  /\ pending' = [pending EXCEPT ![i] = FALSE]
  /\ promised' = [promised EXCEPT ![i].avoid[run[i].server] = 0]
  /\ LET p == Prune(mem[i], clock)
         l == [p EXCEPT !.excluded[run[i].server] = 0]
     IN  IF clock >= Now(i) /\ run[i].server \in Live(p)
           THEN \E ok \in BOOLEAN : Persist(i, l, ok)
           ELSE UNCHANGED <<file, synced, adverse>>
  /\ Finish(i)
  /\ UNCHANGED <<clock, lock, installed, slots, calls>>

\* managed_refresh_exclusion_and_rollback: the candidate is at fault.  The
\* rollback itself may fail and leave the switch pending.
SwitchFails(i) ==
  /\ pc[i] = "trial"
  /\ \E rolledBack \in BOOLEAN : pending' = [pending EXCEPT ![i] = ~rolledBack]
  /\ IF clock >= Now(i)
       THEN \E l \in Excluding(mem[i], run[i].server, clock), ok \in BOOLEAN :
              /\ Persist(i, l, ok)
              /\ promised' = IF ok THEN [promised EXCEPT ![i].avoid[run[i].server] = clock + SixHours]
                                   ELSE promised
       ELSE UNCHANGED <<file, synced, promised, adverse>>
  /\ Finish(i)
  /\ UNCHANGED <<clock, lock, installed, slots, calls>>

\* managed_abort_profile_transaction 0: the candidate is not to blame.
SwitchAborts(i) ==
  /\ pc[i] = "trial"
  /\ \E rolledBack \in BOOLEAN : pending' = [pending EXCEPT ![i] = ~rolledBack]
  /\ Finish(i)
  /\ UNCHANGED <<clock, lock, file, synced, installed, ghosts, adverse>>

\* Recovery of the pending switch, the subject of ManagedTransaction.
Recover(i) ==
  /\ pc[i] = "idle" /\ pending[i]
  /\ pending' = [pending EXCEPT ![i] = FALSE]
  /\ UNCHANGED <<clock, lock, pc, run, mem, file, synced, installed, ghosts, adverse>>

\* managed_reset_api_state: under both locks, units stopped, nothing pending.
\* The unlink may stay unsynced.
ResetApiState(i) ==
  /\ pc[i] = "idle" /\ lock = None /\ ~pending[i]
  /\ adverse < MaxAdverse
  /\ adverse' = adverse + 1
  /\ file' = [file EXCEPT ![i] = EmptyLedger]
  /\ synced' \in {synced, [synced EXCEPT ![i] = EmptyLedger]}
  /\ calls' = [calls EXCEPT ![i] = {}]
  /\ promised' = [promised EXCEPT ![i] = NoPromise]
  /\ UNCHANGED <<clock, lock, pc, run, mem, installed, pending, slots>>

(* --------------------------- the environment --------------------------- *)

Tick ==
  /\ clock < MaxEpoch
  /\ clock' = clock + 1
  /\ UNCHANGED <<lock, pc, run, mem, file, synced, installed, pending, ghosts, adverse>>

ClockStepsBack ==
  /\ adverse < MaxAdverse
  /\ adverse' = adverse + 1
  /\ clock' \in 0..clock \ {clock}
  /\ UNCHANGED <<lock, pc, run, mem, file, synced, installed, pending, ghosts>>

\* Setup replaces the key file or the device, holding the exclusive lease.
ReplaceCredential(i) ==
  /\ pc[i] = "idle"
  /\ adverse < MaxAdverse
  /\ adverse' = adverse + 1
  /\ \E c \in Credentials \ {installed[i]} : installed' = [installed EXCEPT ![i] = c]
  /\ UNCHANGED <<clock, lock, pc, run, mem, file, synced, pending, ghosts>>

Crash(i) ==
  /\ pc[i] # "idle"
  /\ adverse < MaxAdverse
  /\ adverse' = adverse + 1
  /\ Release(i) /\ Finish(i)
  /\ UNCHANGED <<clock, file, synced, installed, pending, ghosts>>

\* Every process dies; an unsynced rename or unlink may be undone.
PowerLoss ==
  /\ adverse < MaxAdverse
  /\ adverse' = adverse + 1
  /\ lock' = None
  /\ pc' = [i \in Ifaces |-> "idle"]
  /\ run' = [i \in Ifaces |-> NoRun]
  /\ mem' = [i \in Ifaces |-> EmptyLedger]
  /\ \E kept \in SUBSET Ifaces :
       file' = [i \in Ifaces |-> IF i \in kept THEN file[i] ELSE synced[i]]
  /\ synced' = file'
  /\ UNCHANGED <<clock, installed, pending, ghosts>>

\* What a process does once it holds the global lock.
Advance(i) ==
  \/ SelectServer(i) \/ PreflightFails(i) \/ PreflightAborts(i)
  \/ Book(i) \/ Call(i) \/ Answer(i) \/ AnswerLost(i)

Switch(i) ==
  \/ Preexclude(i) \/ SwitchRefused(i)
  \/ SwitchCommits(i) \/ SwitchFails(i) \/ SwitchAborts(i)

Gate(i) == GateRefuses(i) \/ GateHolds(i) \/ GatePasses(i)

Next ==
  \/ \E i \in Ifaces :
       \/ Start(i) \/ Gate(i) \/ Advance(i) \/ Switch(i) \/ Recover(i)
       \/ ResetApiState(i) \/ ReplaceCredential(i) \/ Crash(i)
  \/ Tick \/ ClockStepsBack \/ PowerLoss

Spec == Init /\ [][Next]_vars

\* A running process is scheduled, and every call it makes has a timeout.
FairSpec == Spec /\ \A i \in Ifaces : WF_vars(Advance(i))

(* ----------------------------- properties ------------------------------ *)

Holding == {"gated", "selected", "booked", "calling"}
Steps == {"idle", "waiting", "answered", "trial"} \cup Holding

\* Types; and what a ledger file holds, a process can load (clock permitting):
\* no sequence of operations writes a file that blocks the interface for good.
TypeOK ==
  /\ clock \in 0..MaxEpoch /\ adverse \in 0..MaxAdverse
  /\ lock \in Ifaces \cup {None}
  /\ pc \in [Ifaces -> Steps]
  /\ run \in [Ifaces -> [op : Operations, credential : Credentials \cup {None},
                         server : Servers \cup {None}]]
  /\ \A i \in Ifaces :
       /\ {mem[i], file[i], synced[i]} \subseteq Ledger
       /\ \A l \in {file[i], synced[i]} : l = EmptyLedger \/ Valid(l)
  /\ installed \in [Ifaces -> Credentials]
  /\ pending \in [Ifaces -> BOOLEAN]
  /\ slots \in [Ifaces -> 0..MaxBookings]
  /\ \A i \in Ifaces : calls[i] \subseteq Booking
  /\ promised \in [Ifaces -> [avoid : [Servers -> Nat], hold : Nat, retryAt : Nat]]

\* "A maximum of six authenticated generation attempts is allowed per rolling
\* 24 hours per interface": of the requests made since the last reset, no
\* MaxAttempts + 1 carry epochs within one Day, whatever crashes, however the
\* clock steps, and although a ledger may lose its last write.
RateBound ==
  \A i \in Ifaces : \A c \in calls[i] :
    Cardinality({b \in calls[i] : b.at <= c.at /\ c.at - b.at < Day}) <= MaxAttempts

\* Every request was booked durably before it was made, and under a booking of
\* its own: the file, and what a power loss would leave of it, still charge
\* every request of the last Day, and a booking about to be used is unused.
Charges(l, made) ==
  \A c \in made : c.at <= l.observed /\ (l.observed - c.at < Day => c \in l.attempts)
CallsCharged ==
  \A i \in Ifaces :
    /\ Charges(file[i], calls[i]) /\ Charges(synced[i], calls[i])
    /\ pc[i] = "booked" => Current(i) \notin calls[i]

\* No request is made, dry run or not, new credential or not, while a durable
\* rate-limit, transient or preflight backoff runs.
HoldRespected ==
  \A i \in Ifaces : pc[i] \in {"booked", "calling"} => promised[i].hold <= Now(i)

\* "A failed managed candidate is excluded until its bounded expiry": a server
\* whose trial was started and not committed, or that the provider step failed
\* on, is not selected again within SixHours, crash or not.  The list has room for
\* more servers than a Day has attempts, so no entry is evicted while it counts.
FailedCandidateHeld ==
  \A i \in Ifaces :
    pc[i] \in {"selected", "booked", "calling"} =>
      promised[i].avoid[run[i].server] <= Now(i)

\* Maximum authenticated generator concurrency is one over all interfaces, and
\* the global lock is free of a process that has gone on to Docker or tunnel work.
GeneratorSerialised ==
  \A i \in Ifaces :
    /\ pc[i] \in Holding => lock = i
    /\ pc[i] \in {"answered", "trial"} => lock # i

\* Every holder of the global lock lets it go, on every path: an interface
\* never blocks the others for good.
LockFreed == \A i \in Ifaces : (lock = i) ~> (lock # i)

\* Refuted.  A Retry-After the provider sends with a rate limit is honoured.
RetryAfterHonoured ==
  \A i \in Ifaces : pc[i] = "calling" => promised[i].retryAt <= Now(i)

\* Refuted.  The dry-run flag "bypasses only auth/device suppression and clears
\* it only after a successful validation": nothing but an authenticated answer,
\* a new identity or a reset ends a suppression that still runs.
Suppressed(l) == l.class \in Suppressions /\ l.backoff > clock
SuppressionKept ==
  [][\A i \in Ifaces :
       Suppressed(file[i]) /\ file'[i] # file[i] =>
         \/ file'[i].class \in Suppressions
         \/ file'[i].identity # file[i].identity
         \/ pc[i] = "calling" \/ ResetApiState(i) \/ PowerLoss]_vars
=============================================================================
