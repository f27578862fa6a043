-------------------------- MODULE ApiLedger_proof --------------------------
(***************************************************************************)
(* Theorems about ApiLedger: the request limit and the charge of every     *)
(* request, the types of what is written, the serialisation of the         *)
(* generators, the holds on requests and the exclusion of failed           *)
(* candidates, for every set of interfaces, servers and credentials, every *)
(* limit and duration, and every budget.                                   *)
(*                                                                         *)
(* RateBound is not inductive: a request is counted against what a ledger  *)
(* still remembers.  Account adds that memory.  Every ledger an interface  *)
(* can come to work with charges the requests of the last Day, and at the  *)
(* moment of a request the booking it is made under is in the file, which  *)
(* is within the limit.                                                    *)
(*                                                                         *)
(* The types come second: that a booking is a number and a window within   *)
(* its limit is part of what may be written.  The delays are a recursive   *)
(* function of the number of attempts.  That its values are numbers is an  *)
(* induction, carried out on sets of numbers: a nonempty set of them has a *)
(* least element, because strict inclusion between finite sets is          *)
(* well-founded.                                                           *)
(*                                                                         *)
(* The holds and exclusions come last.  Kept says that every ledger, in    *)
(* memory, in the file or after a power loss, remembers what was promised. *)
(* An exclusion is forgotten early if the list is full, so Crowd counts:   *)
(* since any time of the last Day, a ledger excluded at most one server    *)
(* more than it booked attempts.  A booking makes room for one exclusion;  *)
(* the pre-exclusion of a trial takes it, and its renewal after a failed   *)
(* trial, later and so counted against fewer bookings, takes the room of   *)
(* the entry it replaces.                                                  *)
(***************************************************************************)
EXTENDS ApiLedger, TLAPS, FiniteSetTheorems

\* A ledger within the limit, all of whose bookings have an ordinal up to n.
Sound(l, n) ==
  /\ {"observed", "attempts"} \subseteq DOMAIN l
  /\ l.observed \in Nat
  /\ l.attempts \subseteq Booking
  /\ IsFiniteSet(l.attempts)
  /\ Cardinality(l.attempts) <= MaxAttempts
  /\ \A b \in l.attempts : b.slot <= n

\* The limit, on one set of requests.
Window(made, c) == {b \in made : b.at <= c.at /\ c.at - b.at < Day}
Bounded(made) == \A c \in made : Cardinality(Window(made, c)) <= MaxAttempts

\* What holds of one interface: its step, the ledger in memory, in the file and
\* after a power loss, its last ordinal and its requests.
Account(step, m, f, s, n, made) ==
  /\ n \in Nat
  /\ made \subseteq Booking /\ \A c \in made : c.slot <= n
  /\ Bounded(made)
  /\ Sound(m, n) /\ Sound(f, n) /\ Sound(s, n)
  /\ Charges(f, made) /\ Charges(s, made)
  /\ step \notin {"idle", "waiting"} => Charges(m, made)
  /\ step = "booked" =>
       /\ f = m /\ s = m
       /\ [slot |-> n, at |-> m.observed] \in m.attempts
       /\ \A c \in made : c.slot < n

Shapes ==
  /\ DOMAIN pc = Ifaces /\ DOMAIN mem = Ifaces /\ DOMAIN file = Ifaces
  /\ DOMAIN synced = Ifaces /\ DOMAIN slots = Ifaces /\ DOMAIN calls = Ifaces

AccountOf(i) == Account(pc[i], mem[i], file[i], synced[i], slots[i], calls[i])

IInv ==
  /\ clock \in Nat
  /\ Shapes
  /\ \A i \in Ifaces : AccountOf(i)

(* ------------------------- ledger operations --------------------------- *)

\* l comes from m by the passing of time alone: only bookings that left the
\* window are gone.
Ages(l, m) ==
  /\ {"observed", "attempts"} \subseteq DOMAIN l
  /\ l.observed \in Nat /\ m.observed <= l.observed
  /\ l.attempts \subseteq m.attempts
  /\ \A b \in m.attempts : l.observed - b.at < Day => b \in l.attempts

\* Aging keeps a ledger within the limit and keeps what it charges.
LEMMA AgingKeeps ==
  ASSUME NEW l, NEW m, NEW n, NEW made, Ages(l, m), Sound(m, n)
  PROVE  /\ Sound(l, n)
         /\ made \subseteq Booking /\ Charges(m, made) => Charges(l, made)
<1>1. IsFiniteSet(l.attempts) /\ Cardinality(l.attempts) <= Cardinality(m.attempts)
  BY FS_Subset DEF Ages, Sound
<1>2. Cardinality(l.attempts) \in Nat /\ Cardinality(m.attempts) \in Nat
  BY <1>1, FS_CardinalityType DEF Sound
<1>3. Sound(l, n)
  BY <1>1, <1>2, LedgerConstants DEF Ages, Sound
<1>4. ASSUME made \subseteq Booking, Charges(m, made) PROVE Charges(l, made)
  BY <1>4, LedgerConstants DEF Ages, Sound, Charges, Booking
<1> QED BY <1>3, <1>4

\* Aging twice is aging.
LEMMA AgingComposes ==
  ASSUME NEW k, NEW l, NEW m, NEW n, Sound(m, n), Ages(l, m), Ages(k, l)
  PROVE  Ages(k, m)
  BY LedgerConstants DEF Ages, Sound, Booking

\* A change of the other fields is aging.
LEMMA SameAges ==
  ASSUME NEW l, NEW m, NEW n, Sound(m, n), DOMAIN l = DOMAIN m,
         l.observed = m.observed, l.attempts = m.attempts
  PROVE  Ages(l, m)
  BY DEF Ages, Sound

\* managed_api_state_prune ages a ledger.
LEMMA PruneAges ==
  ASSUME NEW l, NEW n, NEW now \in Nat, Sound(l, n), l.observed <= now
  PROVE  Ages(Prune(l, now), l)
  BY DEF Ages, Sound, Prune

\* managed_api_state_refresh_identity ages a ledger.
LEMMA IdentifyAges ==
  ASSUME NEW l, NEW n, NEW c, Sound(l, n)
  PROVE  Ages(Identify(l, c), l)
  BY DEF Ages, Sound, Identify

\* managed_api_state_add_exclusion ages a ledger.
LEMMA ExcludingAges ==
  ASSUME NEW l, NEW n, NEW s, NEW now \in Nat, Sound(l, n), l.observed <= now,
         NEW k \in Excluding(l, s, now)
  PROVE  Ages(k, l)
<1> DEFINE p == Prune(l, now)
<1>1. Ages(p, l)
  BY PruneAges
<1>2. Sound(p, n)
  BY <1>1, AgingKeeps
<1>3. DOMAIN k = DOMAIN p /\ k.observed = p.observed /\ k.attempts = p.attempts
  BY <1>2 DEF Excluding, Sound
<1> QED BY <1>1, <1>2, <1>3, SameAges, AgingComposes

\* managed_api_record_outcome ages a ledger.
LEMMA RecordingAges ==
  ASSUME NEW p, NEW n, NEW outcome, NEW server, NEW blamed, NEW retryAfter,
         Sound(p, n), NEW k \in Recording(p, outcome, server, blamed, retryAfter)
  PROVE  Ages(k, p)
<1> DEFINE classed ==
      CASE outcome = "none" -> {[p EXCEPT !.class = "none", !.backoff = 0]}
        [] outcome \in Suppressions ->
             {[p EXCEPT !.class = outcome, !.backoff = p.observed + Day]}
        [] OTHER ->
             {[p EXCEPT !.class = outcome, !.backoff = p.observed + delay] :
                delay \in Backoffs(Cardinality(p.attempts), RetryAfterReported(retryAfter))}
<1>1. ASSUME NEW l \in classed
      PROVE  DOMAIN l = DOMAIN p /\ l.observed = p.observed /\ l.attempts = p.attempts
  <2>1. CASE outcome = "none"
    BY <1>1, <2>1 DEF Sound
  <2>2. CASE outcome # "none" /\ outcome \in Suppressions
    BY <1>1, <2>2 DEF Sound
  <2>3. CASE outcome # "none" /\ outcome \notin Suppressions
    BY <1>1, <2>3 DEF Sound
  <2> QED BY <2>1, <2>2, <2>3
<1>2. ASSUME NEW l \in classed PROVE Ages(l, p) /\ Sound(l, n)
  BY <1>1, <1>2, SameAges, AgingKeeps
<1>3. CASE ~blamed
  BY <1>2, <1>3 DEF Recording
<1>4. CASE blamed
  <2>1. PICK l \in classed : k \in Excluding(l, server, p.observed)
    BY <1>4 DEF Recording
  <2> HIDE DEF classed
  <2>2. p.observed \in Nat /\ l.observed <= p.observed
    BY <1>1 DEF Sound
  <2> QED BY <1>2, <2>1, <2>2, ExcludingAges, AgingComposes
<1> QED BY <1>3, <1>4

\* The ledger of a missing file is within the limit.
LEMMA EmptySound ==
  ASSUME NEW n PROVE Sound(EmptyLedger, n)
  BY FS_EmptySet, LedgerConstants DEF Sound, EmptyLedger

\* managed_api_state_write touches one interface's file, which holds the old or
\* the new ledger afterwards; after a success it surely holds the new one.
LEMMA PersistWrites ==
  ASSUME Shapes, NEW i \in Ifaces, NEW l, NEW ok \in BOOLEAN, Persist(i, l, ok)
  PROVE  /\ DOMAIN file' = Ifaces /\ DOMAIN synced' = Ifaces
         /\ \A j \in Ifaces : j # i => file'[j] = file[j] /\ synced'[j] = synced[j]
         /\ file'[i] \in {file[i], l} /\ synced'[i] \in {synced[i], l}
         /\ ok => file'[i] = l /\ synced'[i] = l /\ Valid(l)
  BY DEF Persist, Shapes

(* --------------------------- the account ------------------------------- *)

\* A process that ends leaves an account behind, whichever of its old and a
\* ledger l the file and a power loss show, if l ages what it worked with.
LEMMA AccountEnds ==
  ASSUME NEW step, NEW m, NEW f, NEW s, NEW n, NEW made, Account(step, m, f, s, n, made),
         NEW l, Ages(l, f) \/ (Ages(l, m) /\ step \notin {"idle", "waiting"}),
         NEW g \in {f, l}, NEW t \in {s, l}
  PROVE  Account("idle", EmptyLedger, g, t, n, made)
<1>1. Sound(l, n) /\ Charges(l, made)
  BY AgingKeeps DEF Account
<1> QED BY <1>1, EmptySound DEF Account

\* A process that ends without writing.
LEMMA AccountEndsUnwritten ==
  ASSUME NEW step, NEW m, NEW f, NEW s, NEW n, NEW made, Account(step, m, f, s, n, made)
  PROVE  Account("idle", EmptyLedger, f, s, n, made)
  BY EmptySound DEF Account

\* Moving on, with the ledger in memory aged, to a step without a booking.
LEMMA AccountMoves ==
  ASSUME NEW step, NEW m, NEW f, NEW s, NEW n, NEW made, Account(step, m, f, s, n, made),
         NEW l, Ages(l, f) \/ (Ages(l, m) /\ step \notin {"idle", "waiting"}),
         NEW g \in {f, l}, NEW t \in {s, l}, NEW next, next # "booked"
  PROVE  Account(next, l, g, t, n, made)
<1>1. Sound(l, n) /\ Charges(l, made)
  BY AgingKeeps DEF Account
<1> QED BY <1>1 DEF Account

\* Ordinals only grow.
LEMMA SoundLater ==
  ASSUME NEW l, NEW n \in Nat, Sound(l, n)
  PROVE  Sound(l, n + 1)
<1>1. \A b \in l.attempts : b.slot \in Nat /\ b.slot <= n
  BY DEF Sound, Booking
<1>2. \A b \in l.attempts : b.slot <= n + 1
  BY <1>1
<1> QED BY <1>2 DEF Sound

\* A durable booking, ready for its request.
LEMMA AccountBooks ==
  ASSUME NEW step, NEW m, NEW f, NEW s, NEW n, NEW made, Account(step, m, f, s, n, made),
         step \notin {"idle", "waiting"},
         NEW l, DOMAIN l = DOMAIN m, l.observed = m.observed,
         l.attempts = m.attempts \cup {[slot |-> n + 1, at |-> m.observed]}, Valid(l)
  PROVE  Account("booked", l, l, l, n + 1, made)
<1>1. IsFiniteSet(l.attempts)
  <2>1. IsFiniteSet(m.attempts)
    BY DEF Account, Sound
  <2> QED BY <2>1, FS_AddElement
<1>2. Sound(l, n + 1)
  <2>1. /\ n \in Nat /\ Sound(m, n + 1) /\ m.observed \in Nat
        /\ Cardinality(l.attempts) <= MaxAttempts
    BY SoundLater DEF Account, Sound, Valid
  <2>2. l.attempts \subseteq Booking /\ \A b \in l.attempts : b.slot <= n + 1
    BY <2>1 DEF Sound, Booking
  <2> QED BY <1>1, <2>1, <2>2 DEF Sound
<1>3. Charges(l, made)
  BY DEF Account, Sound, Charges
<1>4. made \subseteq Booking /\ n \in Nat /\ \A c \in made : c.slot <= n
  BY DEF Account
<1>5. \A c \in made : c.slot <= n + 1 /\ c.slot < n + 1
  BY <1>4 DEF Booking
<1> QED BY <1>2, <1>3, <1>4, <1>5 DEF Account

\* A booking that could not be made durable, or not certainly.
LEMMA AccountBooksInVain ==
  ASSUME NEW step, NEW m, NEW f, NEW s, NEW n, NEW made, Account(step, m, f, s, n, made),
         step \notin {"idle", "waiting"},
         NEW l, DOMAIN l = DOMAIN m, l.observed = m.observed,
         l.attempts = m.attempts \cup {[slot |-> n + 1, at |-> m.observed]},
         NEW g \in {f, l}, NEW t \in {s, l}, Valid(l) \/ (g = f /\ t = s)
  PROVE  Account("idle", EmptyLedger, g, t, n + 1, made)
<1>1. ASSUME NEW x, Sound(x, n) PROVE Sound(x, n + 1)
  BY <1>1, SoundLater DEF Account
<1>2. Sound(EmptyLedger, n + 1)
  BY EmptySound
<1>3. ASSUME Valid(l) PROVE Sound(l, n + 1) /\ Charges(l, made)
  <2>1. Account("booked", l, l, l, n + 1, made)
    BY <1>3, AccountBooks
  <2> QED BY <2>1 DEF Account
<1>4. made \subseteq Booking /\ n \in Nat /\ \A c \in made : c.slot <= n
  BY DEF Account
<1>5. \A c \in made : c.slot <= n + 1
  BY <1>4 DEF Booking
<1> QED BY <1>1, <1>2, <1>3, <1>4, <1>5 DEF Account

\* The window is not empty.
LEMMA DayPositive == Day \in Nat /\ 0 < Day
  BY LedgerConstants

\* The request is made under its booking.  In the window of a request that
\* sees the new one lie only bookings the file holds.
LEMMA AccountCalls ==
  ASSUME NEW m, NEW f, NEW s, NEW n, NEW made, Account("booked", m, f, s, n, made)
  PROVE  Account("calling", m, f, s, n, made \cup {[slot |-> n, at |-> m.observed]})
<1> DEFINE new == [slot |-> n, at |-> m.observed]
           now == made \cup {new}
<1>1. /\ n \in Nat /\ m.observed \in Nat /\ made \subseteq Booking
      /\ f = m /\ s = m /\ new \in m.attempts
      /\ Charges(m, made) /\ Sound(m, n)
  BY DEF Account, Sound
<1>2. new \in Booking /\ new.at = m.observed /\ new.slot = n
  BY <1>1 DEF Booking
<1> HIDE DEF new
<1>3. Charges(m, now)
  BY <1>1, <1>2 DEF Charges
<1>4. ASSUME NEW c \in now PROVE Cardinality(Window(now, c)) <= MaxAttempts
  <2>1. now \subseteq Booking /\ \A b \in now : b.at \in Nat
    BY <1>1, <1>2 DEF Booking
  <2>2. CASE new \in Window(now, c)
    <3>1. c.at = m.observed
      BY <1>1, <1>2, <1>3, <2>1, <2>2 DEF Window, Charges
    <3>2. Window(now, c) \subseteq m.attempts
      BY <1>3, <3>1 DEF Window, Charges
    <3>3. /\ Cardinality(Window(now, c)) <= Cardinality(m.attempts)
          /\ IsFiniteSet(Window(now, c))
      BY <1>1, <3>2, FS_Subset DEF Sound
    <3>4. Cardinality(Window(now, c)) \in Nat /\ Cardinality(m.attempts) \in Nat
      BY <1>1, <3>3, FS_CardinalityType DEF Sound
    <3> QED BY <1>1, <3>3, <3>4, LedgerConstants DEF Sound
  <2>3. CASE new \notin Window(now, c)
    <3>1. Window(now, c) = Window(made, c)
      BY <2>3 DEF Window
    <3>2. c \in made
      BY <1>2, <2>1, <2>3, DayPositive DEF Window
    <3> QED BY <3>1, <3>2 DEF Account, Bounded
  <2> QED BY <2>2, <2>3
<1>5. Bounded(now)
  BY <1>4 DEF Bounded
<1>6. now \subseteq Booking /\ \A c \in now : c.slot <= n
  BY <1>1, <1>2 DEF Account
<1> QED BY <1>1, <1>3, <1>5, <1>6 DEF Account, new


(* ------------------------------ the steps ------------------------------ *)

\* A step that touches nothing but interface i's account.
Elsewhere(i) ==
  /\ Shapes'
  /\ clock' \in Nat
  /\ \A j \in Ifaces \ {i} :
       /\ pc'[j] = pc[j] /\ mem'[j] = mem[j] /\ file'[j] = file[j]
       /\ synced'[j] = synced[j] /\ slots'[j] = slots[j] /\ calls'[j] = calls[j]

\* A step that gives an account of one ledger and leaves the others keeps the invariant.
LEMMA OneAccount ==
  ASSUME IInv, NEW i \in Ifaces, Elsewhere(i), AccountOf(i)'
  PROVE  IInv'
  BY DEF IInv, Elsewhere, AccountOf

\* The invariant holds of an empty ledger.
LEMMA InitInv == Init => IInv
<1> SUFFICES ASSUME Init PROVE IInv
  OBVIOUS
<1>1. clock \in Nat /\ Shapes
  BY DEF Init, Shapes
<1>2. ASSUME NEW i \in Ifaces PROVE AccountOf(i)
  <2>1. Sound(EmptyLedger, 0)
    BY EmptySound
  <2>2. /\ pc[i] = "idle" /\ slots[i] = 0 /\ calls[i] = {}
        /\ mem[i] = EmptyLedger /\ file[i] = EmptyLedger /\ synced[i] = EmptyLedger
    BY DEF Init
  <2> QED BY <2>1, <2>2 DEF AccountOf, Account, Bounded, Charges
<1> QED BY <1>1, <1>2 DEF IInv

\* A process ends without writing.
LEMMA EndsUnwritten ==
  ASSUME IInv, NEW i \in Ifaces, Finish(i), UNCHANGED <<clock, file, synced, slots, calls>>
  PROVE  IInv'
<1>1. Elsewhere(i)
  BY DEF IInv, Elsewhere, Shapes, Finish, Goto, Remember
<1>2. pc'[i] = "idle" /\ mem'[i] = EmptyLedger
  BY DEF IInv, Shapes, Finish, Goto, Remember
<1> QED BY <1>1, <1>2, OneAccount, AccountEndsUnwritten DEF IInv, AccountOf

\* A process writes a ledger, or fails to, and ends.
LEMMA EndsWriting ==
  ASSUME IInv, NEW i \in Ifaces, Finish(i), UNCHANGED <<clock, slots, calls>>,
         NEW l, NEW ok \in BOOLEAN, Persist(i, l, ok),
         Ages(l, file[i]) \/ (Ages(l, mem[i]) /\ pc[i] \notin {"idle", "waiting"})
  PROVE  IInv'
<1>1. /\ DOMAIN file' = Ifaces /\ DOMAIN synced' = Ifaces
      /\ \A j \in Ifaces : j # i => file'[j] = file[j] /\ synced'[j] = synced[j]
      /\ file'[i] \in {file[i], l} /\ synced'[i] \in {synced[i], l}
  BY PersistWrites DEF IInv
<1>2. Elsewhere(i)
  BY <1>1 DEF IInv, Elsewhere, Shapes, Finish, Goto, Remember
<1>3. pc'[i] = "idle" /\ mem'[i] = EmptyLedger
  BY DEF IInv, Shapes, Finish, Goto, Remember
<1>4. Account("idle", EmptyLedger, file'[i], synced'[i], slots[i], calls[i])
  BY <1>1, AccountEnds DEF IInv, AccountOf
<1> QED BY <1>2, <1>3, <1>4, OneAccount DEF AccountOf

\* A process writes a ledger and goes on with it.
LEMMA MovesWriting ==
  ASSUME IInv, NEW i \in Ifaces, UNCHANGED <<clock, slots, calls>>,
         NEW l, Remember(i, l), NEW ok \in BOOLEAN, Persist(i, l, ok),
         NEW next, next # "booked", Goto(i, next),
         Ages(l, file[i]) \/ (Ages(l, mem[i]) /\ pc[i] \notin {"idle", "waiting"})
  PROVE  IInv'
<1>1. /\ DOMAIN file' = Ifaces /\ DOMAIN synced' = Ifaces
      /\ \A j \in Ifaces : j # i => file'[j] = file[j] /\ synced'[j] = synced[j]
      /\ file'[i] \in {file[i], l} /\ synced'[i] \in {synced[i], l}
  BY PersistWrites DEF IInv
<1>2. Elsewhere(i)
  BY <1>1 DEF IInv, Elsewhere, Shapes, Goto, Remember
<1>3. pc'[i] = next /\ mem'[i] = l
  BY DEF IInv, Shapes, Goto, Remember
<1>4. Account(next, l, file'[i], synced'[i], slots[i], calls[i])
  BY <1>1, AccountMoves DEF IInv, AccountOf
<1> QED BY <1>2, <1>3, <1>4, OneAccount DEF AccountOf

\* Every account is sound, whatever the step.
LEMMA LedgersSound ==
  ASSUME IInv, NEW i \in Ifaces
  PROVE  /\ clock \in Nat
         /\ Sound(mem[i], slots[i]) /\ Sound(file[i], slots[i])
         /\ mem[i].observed \in Nat /\ file[i].observed \in Nat
  BY DEF IInv, AccountOf, Account, Sound

\* Nothing of the account changes, or only the step, away from a booking.
LEMMA QuietStep ==
  ASSUME IInv, NEW i \in Ifaces, clock' \in Nat,
         UNCHANGED <<mem, file, synced, slots, calls>>,
         \/ UNCHANGED pc
         \/ Goto(i, "waiting")
         \/ Goto(i, "selected") /\ pc[i] = "gated"
  PROVE  IInv'
<1>1. Elsewhere(i)
  BY DEF IInv, Elsewhere, Shapes, Goto
<1>2. \/ pc'[i] = pc[i]
      \/ pc'[i] = "waiting"
      \/ pc'[i] = "selected" /\ pc[i] = "gated"
  BY DEF IInv, Shapes, Goto
<1> QED BY <1>1, <1>2, OneAccount DEF IInv, AccountOf, Account

(* --- one lemma per group of actions --- *)

\* What the gate loads ages the file.
LEMMA LoadedAges ==
  ASSUME IInv, NEW i \in Ifaces, clock >= file[i].observed
  PROVE  Ages(Loaded(i), file[i])
<1>1. Ages(Prune(file[i], clock), file[i])
  BY LedgersSound, PruneAges
<1>2. Sound(Prune(file[i], clock), slots[i])
  BY <1>1, LedgersSound, AgingKeeps
<1> QED BY <1>1, <1>2, LedgersSound, IdentifyAges, AgingComposes DEF Loaded

\* The gate keeps it.
LEMMA GateStep ==
  ASSUME IInv, NEW i \in Ifaces, Gate(i)
  PROVE  IInv'
<1>1. CASE GateRefuses(i)
  BY <1>1, EndsUnwritten DEF GateRefuses, ghosts
<1>2. CASE GateHolds(i)
  <2>1. Finish(i) /\ UNCHANGED <<clock, slots, calls>> /\ clock >= file[i].observed
    BY <1>2 DEF GateHolds, ghosts
  <2>2. PICK ok \in BOOLEAN : Persist(i, Loaded(i), ok)
    BY <1>2 DEF GateHolds
  <2> QED BY <2>1, <2>2, LoadedAges, EndsWriting
<1>3. CASE GatePasses(i)
  <2>1. /\ UNCHANGED <<clock, file, synced, slots, calls>>
        /\ Goto(i, "gated") /\ Remember(i, Loaded(i)) /\ clock >= file[i].observed
    BY <1>3 DEF GatePasses, ghosts
  <2>2. pc'[i] = "gated" /\ mem'[i] = Loaded(i) /\ Elsewhere(i)
    BY <2>1 DEF IInv, Elsewhere, Shapes, Goto, Remember
  <2>3. Account("gated", Loaded(i), file[i], synced[i], slots[i], calls[i])
    BY <2>1, LoadedAges, AccountMoves DEF IInv, AccountOf
  <2> QED BY <2>1, <2>2, <2>3, OneAccount DEF AccountOf
<1> QED BY <1>1, <1>2, <1>3 DEF Gate

\* managed_api_record_attempt: the account gains a booking, or the process ends.
LEMMA BookStep ==
  ASSUME IInv, NEW i \in Ifaces, Book(i)
  PROVE  IInv'
<1> DEFINE l == [mem[i] EXCEPT
                   !.attempts = @ \cup {[slot |-> slots[i] + 1, at |-> Now(i)]}]
<1>1. /\ DOMAIN l = DOMAIN mem[i] /\ l.observed = mem[i].observed
      /\ l.attempts = mem[i].attempts \cup {[slot |-> slots[i] + 1, at |-> mem[i].observed]}
  BY LedgersSound DEF Sound, Now
<1> HIDE DEF l
<1>2. /\ pc[i] = "selected" /\ UNCHANGED <<clock, calls>>
      /\ slots' = [slots EXCEPT ![i] = slots[i] + 1]
  BY DEF Book
<1>3. Account("selected", mem[i], file[i], synced[i], slots[i], calls[i])
  BY <1>2 DEF IInv, AccountOf
<1>4. CASE Persist(i, l, TRUE) /\ Remember(i, l) /\ Goto(i, "booked")
  <2>1. /\ DOMAIN file' = Ifaces /\ DOMAIN synced' = Ifaces
        /\ \A j \in Ifaces : j # i => file'[j] = file[j] /\ synced'[j] = synced[j]
        /\ file'[i] = l /\ synced'[i] = l /\ Valid(l)
    BY <1>4, PersistWrites DEF IInv
  <2>2. Account("booked", l, l, l, slots[i] + 1, calls[i])
    BY <1>1, <1>3, <2>1, AccountBooks
  <2>3. Elsewhere(i)
    BY <1>2, <1>4, <2>1 DEF IInv, Elsewhere, Shapes, Goto, Remember
  <2>4. pc'[i] = "booked" /\ mem'[i] = l /\ slots'[i] = slots[i] + 1
    BY <1>2, <1>4 DEF IInv, Shapes, Goto, Remember
  <2> QED BY <1>2, <2>1, <2>2, <2>3, <2>4, OneAccount DEF AccountOf
<1>5. CASE Persist(i, l, FALSE) /\ Finish(i)
  <2>1. /\ DOMAIN file' = Ifaces /\ DOMAIN synced' = Ifaces
        /\ \A j \in Ifaces : j # i => file'[j] = file[j] /\ synced'[j] = synced[j]
        /\ file'[i] \in {file[i], l} /\ synced'[i] \in {synced[i], l}
    BY <1>5, PersistWrites DEF IInv
  <2>2. \/ Valid(l)
        \/ file'[i] = file[i] /\ synced'[i] = synced[i]
    BY <1>5 DEF Persist
  <2>3. Account("idle", EmptyLedger, file'[i], synced'[i], slots[i] + 1, calls[i])
    BY <1>1, <1>3, <2>1, <2>2, AccountBooksInVain
  <2>4. Elsewhere(i)
    BY <1>2, <1>5, <2>1 DEF IInv, Elsewhere, Shapes, Finish, Goto, Remember
  <2>5. pc'[i] = "idle" /\ mem'[i] = EmptyLedger /\ slots'[i] = slots[i] + 1
    BY <1>2, <1>5 DEF IInv, Shapes, Finish, Goto, Remember
  <2> QED BY <1>2, <2>3, <2>4, <2>5, OneAccount DEF AccountOf
<1> QED BY <1>4, <1>5 DEF Book, l

\* The request.
LEMMA CallStep ==
  ASSUME IInv, NEW i \in Ifaces, Call(i)
  PROVE  IInv'
<1>1. /\ pc[i] = "booked" /\ Goto(i, "calling")
      /\ calls' = [calls EXCEPT ![i] = calls[i] \cup {Current(i)}]
      /\ UNCHANGED <<clock, mem, file, synced, slots>>
  BY DEF Call
<1>2. Elsewhere(i) /\ pc'[i] = "calling" /\ calls'[i] = calls[i] \cup {Current(i)}
  BY <1>1 DEF IInv, Elsewhere, Shapes, Goto
<1>3. Account("calling", mem[i], file[i], synced[i], slots[i], calls[i] \cup {Current(i)})
  BY <1>1, AccountCalls DEF IInv, AccountOf, Current, Now
<1> QED BY <1>1, <1>2, <1>3, OneAccount DEF AccountOf

\* The steps of the lock holder.
LEMMA AdvanceStep ==
  ASSUME IInv, NEW i \in Ifaces, Advance(i)
  PROVE  IInv'
<1>1. CASE SelectServer(i)
  BY <1>1, LedgersSound, QuietStep DEF SelectServer, ghosts
<1>2. CASE PreflightFails(i)
  <2> DEFINE l == [mem[i] EXCEPT !.class = "transient", !.backoff = Now(i) + FiveMinutes]
  <2>1. DOMAIN l = DOMAIN mem[i] /\ l.observed = mem[i].observed /\ l.attempts = mem[i].attempts
    BY LedgersSound DEF Sound
  <2> HIDE DEF l
  <2>2. Ages(l, mem[i])
    BY <2>1, LedgersSound, SameAges
  <2>3. Finish(i) /\ UNCHANGED <<clock, slots, calls>> /\ pc[i] \notin {"idle", "waiting"}
    BY <1>2 DEF PreflightFails
  <2>4. PICK ok \in BOOLEAN : Persist(i, l, ok)
    BY <1>2 DEF PreflightFails, l
  <2> QED BY <2>2, <2>3, <2>4, EndsWriting
<1>3. CASE PreflightAborts(i)
  BY <1>3, EndsUnwritten DEF PreflightAborts, ghosts
<1>4. CASE Book(i)
  BY <1>4, BookStep
<1>5. CASE Call(i)
  BY <1>5, CallStep
<1>6. CASE Answer(i)
  <2> DEFINE p == Prune(mem[i], clock)
  <2>1. /\ pc[i] = "calling" /\ clock >= mem[i].observed
        /\ UNCHANGED <<clock, slots, calls>>
    BY <1>6 DEF Answer, Now
  <2>2. PICK outcome \in Outcomes, blamed \in BOOLEAN, retryAfter \in RetryAfters, ok \in BOOLEAN :
          \E l \in Recording(p, outcome, run[i].server, blamed, retryAfter) :
            /\ Persist(i, l, ok)
            /\ Finish(i) \/ (Goto(i, "answered") /\ Remember(i, l))
    BY <1>6 DEF Answer
  <2>3. PICK l \in Recording(p, outcome, run[i].server, blamed, retryAfter) :
          /\ Persist(i, l, ok)
          /\ Finish(i) \/ (Goto(i, "answered") /\ Remember(i, l))
    BY <2>2
  <2>4. Ages(p, mem[i]) /\ Sound(p, slots[i])
    BY <2>1, LedgersSound, PruneAges, AgingKeeps
  <2>5. Ages(l, p)
    BY <2>3, <2>4, RecordingAges
  <2>6. Ages(l, mem[i])
    BY <2>4, <2>5, LedgersSound, AgingComposes
  <2>7. CASE Finish(i)
    BY <2>1, <2>3, <2>6, <2>7, EndsWriting
  <2>8. CASE Goto(i, "answered") /\ Remember(i, l)
    BY <2>1, <2>3, <2>6, <2>8, MovesWriting
  <2> QED BY <2>3, <2>7, <2>8
<1>7. CASE AnswerLost(i)
  BY <1>7, EndsUnwritten DEF AnswerLost, ghosts
<1> QED BY <1>1, <1>2, <1>3, <1>4, <1>5, <1>6, <1>7 DEF Advance

\* An exclusion that is written, during a switch, ages the ledger in memory.
LEMMA ExclusionAges ==
  ASSUME IInv, NEW i \in Ifaces, clock >= Now(i), NEW s, NEW l \in Excluding(mem[i], s, clock)
  PROVE  Ages(l, mem[i])
  BY LedgersSound, ExcludingAges DEF Now

\* The steps around a switch, without the global lock.
LEMMA SwitchStep ==
  ASSUME IInv, NEW i \in Ifaces, Switch(i)
  PROVE  IInv'
<1>1. CASE Preexclude(i)
  <2>1. /\ pc[i] = "answered" /\ clock >= Now(i)
        /\ UNCHANGED <<clock, slots, calls>>
    BY <1>1 DEF Preexclude
  <2>2. PICK l \in Excluding(mem[i], run[i].server, clock) :
          \/ Persist(i, l, TRUE) /\ Remember(i, l) /\ Goto(i, "trial")
          \/ Persist(i, l, FALSE) /\ Finish(i)
    BY <1>1 DEF Preexclude
  <2>3. Ages(l, mem[i])
    BY <2>1, ExclusionAges
  <2>4. CASE Persist(i, l, TRUE) /\ Remember(i, l) /\ Goto(i, "trial")
    BY <2>1, <2>3, <2>4, MovesWriting
  <2>5. CASE Persist(i, l, FALSE) /\ Finish(i)
    BY <2>1, <2>3, <2>5, EndsWriting
  <2> QED BY <2>2, <2>4, <2>5
<1>2. CASE SwitchRefused(i)
  BY <1>2, EndsUnwritten DEF SwitchRefused, ghosts
<1>3. CASE SwitchCommits(i)
  <2> DEFINE p == Prune(mem[i], clock)
             l == [p EXCEPT !.excluded[run[i].server] = 0]
  <2>1. pc[i] = "trial" /\ Finish(i) /\ UNCHANGED <<clock, slots, calls>>
    BY <1>3 DEF SwitchCommits
  <2>2. CASE clock >= Now(i) /\ \E ok \in BOOLEAN : Persist(i, l, ok)
    <3>1. Ages(p, mem[i]) /\ Sound(p, slots[i])
      BY <2>2, LedgersSound, PruneAges, AgingKeeps DEF Now
    <3>2. DOMAIN l = DOMAIN p /\ l.observed = p.observed /\ l.attempts = p.attempts
      BY <3>1 DEF Sound
    <3> HIDE DEF l, p
    <3>3. Ages(l, mem[i])
      BY <3>1, <3>2, LedgersSound, SameAges, AgingComposes
    <3> QED BY <2>1, <2>2, <3>3, EndsWriting
  <2>3. CASE UNCHANGED <<file, synced>>
    BY <2>1, <2>3, EndsUnwritten
  <2> QED BY <1>3, <2>2, <2>3 DEF SwitchCommits
<1>4. CASE SwitchFails(i)
  <2>1. pc[i] = "trial" /\ Finish(i) /\ UNCHANGED <<clock, slots, calls>>
    BY <1>4 DEF SwitchFails
  <2>2. CASE clock >= Now(i)
    <3>1. PICK l \in Excluding(mem[i], run[i].server, clock), ok \in BOOLEAN : Persist(i, l, ok)
      BY <1>4, <2>2 DEF SwitchFails
    <3> QED BY <2>1, <2>2, <3>1, ExclusionAges, EndsWriting
  <2>3. CASE ~(clock >= Now(i))
    BY <1>4, <2>1, <2>3, EndsUnwritten DEF SwitchFails
  <2> QED BY <2>2, <2>3
<1>5. CASE SwitchAborts(i)
  BY <1>5, EndsUnwritten DEF SwitchAborts, ghosts
<1> QED BY <1>1, <1>2, <1>3, <1>4, <1>5 DEF Switch

\* reset-api-state forgets the requests with the ledger.
LEMMA ResetStep ==
  ASSUME IInv, NEW i \in Ifaces, ResetApiState(i)
  PROVE  IInv'
<1>1. /\ pc[i] = "idle" /\ UNCHANGED <<clock, pc, mem, slots>>
      /\ file' = [file EXCEPT ![i] = EmptyLedger]
      /\ synced' \in {synced, [synced EXCEPT ![i] = EmptyLedger]}
      /\ calls' = [calls EXCEPT ![i] = {}]
  BY DEF ResetApiState
<1>2. /\ Elsewhere(i)
      /\ file'[i] = EmptyLedger /\ synced'[i] \in {synced[i], EmptyLedger} /\ calls'[i] = {}
  BY <1>1 DEF IInv, Elsewhere, Shapes
<1>3. Sound(EmptyLedger, slots[i])
  BY EmptySound
<1>4. Account("idle", mem[i], EmptyLedger, synced'[i], slots[i], {})
  BY <1>1, <1>2, <1>3 DEF IInv, AccountOf, Account, Bounded, Charges
<1> QED BY <1>1, <1>2, <1>4, OneAccount DEF AccountOf

\* A power loss ends every process and keeps one of two accounted ledgers.
LEMMA PowerLossStep ==
  ASSUME IInv, PowerLoss
  PROVE  IInv'
<1>1. /\ UNCHANGED <<clock, slots, calls>>
      /\ pc' = [i \in Ifaces |-> "idle"] /\ mem' = [i \in Ifaces |-> EmptyLedger]
      /\ synced' = file'
  BY DEF PowerLoss, ghosts
<1>2. PICK kept \in SUBSET Ifaces :
        file' = [i \in Ifaces |-> IF i \in kept THEN file[i] ELSE synced[i]]
  BY DEF PowerLoss
<1>3. clock' \in Nat /\ Shapes'
  BY <1>1, <1>2 DEF IInv, Shapes
<1>4. ASSUME NEW i \in Ifaces PROVE AccountOf(i)'
  <2>1. file'[i] \in {file[i], synced[i]} /\ synced'[i] = file'[i]
    BY <1>1, <1>2
  <2>2. Account("idle", EmptyLedger, file'[i], synced'[i], slots[i], calls[i])
    BY <2>1, EmptySound DEF IInv, AccountOf, Account
  <2> QED BY <1>1, <2>2 DEF AccountOf
<1> QED BY <1>3, <1>4 DEF IInv

\* Every step keeps it.
LEMMA StepInv == IInv /\ [Next]_vars => IInv'
<1> SUFFICES ASSUME IInv, [Next]_vars PROVE IInv'
  OBVIOUS
<1>1. ASSUME NEW i \in Ifaces, Start(i) \/ Recover(i) \/ ReplaceCredential(i) PROVE IInv'
  BY <1>1, LedgersSound, QuietStep DEF Start, Recover, ReplaceCredential, ghosts
<1>2. ASSUME NEW i \in Ifaces, Crash(i) PROVE IInv'
  BY <1>2, EndsUnwritten DEF Crash, ghosts
<1>3. CASE Tick \/ ClockStepsBack \/ UNCHANGED vars
  <2>1. UNCHANGED <<pc, mem, file, synced, slots, calls>>
    BY <1>3 DEF Tick, ClockStepsBack, vars, ghosts
  <2>2. clock' \in Nat
    BY <1>3 DEF IInv, Tick, ClockStepsBack, vars
  <2> QED BY <2>1, <2>2 DEF IInv, Shapes, AccountOf
<1> QED BY <1>1, <1>2, <1>3, GateStep, AdvanceStep, SwitchStep, ResetStep, PowerLossStep DEF Next

(* ------------------------------ theorems ------------------------------- *)

\* The invariant holds throughout every behaviour.
THEOREM Invariance == Spec => []IInv
  BY InitInv, StepInv, PTL DEF Spec

\* No more than MaxAttempts requests of an interface carry epochs within one
\* Day, for every number of interfaces, limit and duration, whatever crashes,
\* failed writes, power losses and clock steps happen.
THEOREM RequestsBounded == Spec => []RateBound
<1>1. IInv => RateBound
  BY DEF IInv, AccountOf, Account, Bounded, Window, RateBound
<1> QED BY <1>1, Invariance, PTL

\* Every request of the last Day is charged in the ledger file and in what a
\* power loss leaves of it, and no booking serves two requests.
THEOREM RequestsCharged == Spec => []CallsCharged
<1>1. ASSUME IInv, NEW i \in Ifaces, pc[i] = "booked" PROVE Current(i) \notin calls[i]
  <2>1. \A c \in calls[i] : c.slot \in Nat /\ c.slot < slots[i]
    BY <1>1 DEF IInv, AccountOf, Account, Booking
  <2> QED BY <1>1, <2>1 DEF Current, IInv, AccountOf, Account
<1>2. IInv => CallsCharged
  BY <1>1 DEF IInv, AccountOf, Account, CallsCharged
<1> QED BY <1>2, Invariance, PTL

(* --------------------------- the types --------------------------------- *)

(* ------------------------ numbers and delays --------------------------- *)

\* Every set of numbers has a least one.
LEMMA LeastNumber ==
  ASSUME NEW S, S \subseteq Nat, S # {}
  PROVE  \E n \in S : \A m \in S : n <= m
<1> DEFINE R == StrictSubsetOrdering(Nat)
           T == {1..n : n \in S}
<1>1. IsWellFoundedOn(R, FiniteSubsetsOf(Nat))
  BY FS_StrictSubsetOrderingWellFounded
<1>2. T \subseteq FiniteSubsetsOf(Nat) /\ T # {}
  <2>1. ASSUME NEW n \in S PROVE 1..n \in FiniteSubsetsOf(Nat)
    <3>1. 1..n \in SUBSET Nat /\ n \in Int
      OBVIOUS
    <3>2. IsFiniteSet(1..n)
      BY <3>1, FS_Interval
    <3> QED BY <3>1, <3>2 DEF FiniteSubsetsOf
  <2> QED BY <2>1
<1> HIDE DEF R, T
<1>3. PICK x \in T : \A y \in T : <<y, x>> \notin R
  BY <1>1, <1>2, WFMin
<1>4. PICK n \in S : x = 1..n
  BY DEF T
<1>5. ASSUME NEW m \in S, m < n PROVE FALSE
  <2>1. n \in Nat /\ m \in Nat /\ 1..m \in T
    BY DEF T
  <2>2. 1..m \subseteq 1..n /\ 1..m # 1..n /\ 1..m \subseteq Nat /\ 1..n \subseteq Nat
    <3>1. n \in 1..n /\ n \notin 1..m
      BY <1>5, <2>1
    <3>2. 1..m \subseteq 1..n
      BY <1>5, <2>1
    <3> QED BY <2>1, <3>1, <3>2
  <2>3. <<1..m, 1..n>> \in R
    BY <2>2 DEF R, StrictSubsetOrdering
  <2> QED BY <1>3, <1>4, <2>1, <2>3
<1> QED BY <1>5

\* Induction, on sets of numbers.
LEMMA SetInduction ==
  ASSUME NEW S, 0 \in S, \A n \in Nat : n \in S => n + 1 \in S
  PROVE  Nat \subseteq S
<1>1. SUFFICES ASSUME Nat \ S # {} PROVE FALSE
  OBVIOUS
<1>2. PICK n \in Nat \ S : \A m \in Nat \ S : n <= m
  BY <1>1, LeastNumber
<1>3. n # 0 /\ n - 1 \in Nat /\ n - 1 < n
  BY <1>2
<1>4. n - 1 \in S
  BY <1>2, <1>3
<1>5. n - 1 + 1 \in S
  BY <1>3, <1>4
<1> QED BY <1>2, <1>5

\* managed_compute_backoff's loop stays within its ceiling.
Doubles(f, k) ==
  \A n \in 1..k : f[n] = IF n = 1 THEN FiveMinutes ELSE AtMost(2 * f[n - 1], SixHours)

\* For every number of attempts the loop has a value.
LEMMA BaseDefined ==
  \A k \in Nat : \E f \in [1..k -> 0..SixHours] : Doubles(f, k)
<1> DEFINE S == {k \in Nat : \E f \in [1..k -> 0..SixHours] : Doubles(f, k)}
<1>1. 0 \in S
  <2>1. [n \in 1..0 |-> 0] \in [1..0 -> 0..SixHours] /\ 1..0 = {}
    OBVIOUS
  <2> QED BY <2>1 DEF Doubles
<1>2. ASSUME NEW k \in Nat, k \in S PROVE k + 1 \in S
  <2>1. PICK f \in [1..k -> 0..SixHours] : Doubles(f, k)
    BY <1>2
  <2> DEFINE next == IF k = 0 THEN FiveMinutes ELSE AtMost(2 * f[k], SixHours)
             g == [n \in 1..(k + 1) |-> IF n = k + 1 THEN next ELSE f[n]]
  <2>2. next \in 0..SixHours
    <3>1. CASE k = 0
      BY <3>1, LedgerConstants
    <3>2. CASE k # 0
      <4>1. f[k] \in 0..SixHours
        BY <3>2
      <4> QED BY <3>2, <4>1, LedgerConstants DEF AtMost
    <3> QED BY <3>1, <3>2
  <2> HIDE DEF next
  <2>3. g \in [1..(k + 1) -> 0..SixHours]
    BY <2>2
  <2>4. ASSUME NEW n \in 1..(k + 1)
        PROVE  g[n] = IF n = 1 THEN FiveMinutes ELSE AtMost(2 * g[n - 1], SixHours)
    <3>1. CASE n = k + 1
      BY <3>1 DEF next
    <3>2. CASE n # k + 1
      <4>1. n \in 1..k /\ g[n] = f[n] /\ (n # 1 => g[n - 1] = f[n - 1])
        BY <3>2
      <4> QED BY <2>1, <4>1 DEF Doubles
    <3> QED BY <3>1, <3>2
  <2>5. Doubles(g, k + 1)
    BY <2>4 DEF Doubles
  <2> QED BY <2>3, <2>5
<1> HIDE DEF S
<1>3. Nat \subseteq S
  BY <1>1, <1>2, SetInduction
<1> QED BY <1>3 DEF S

\* The delay before jitter stays within its ceiling, for every attempt.
LEMMA BaseRange == \A n \in 1..MaxAttempts : Base[n] \in 0..SixHours
<1>1. PICK f \in [1..MaxAttempts -> 0..SixHours] : Doubles(f, MaxAttempts)
  BY BaseDefined, LedgerConstants
<1> DEFINE Def(g) == [n \in 1..MaxAttempts |-> IF n = 1 THEN FiveMinutes
                                              ELSE AtMost(2 * g[n - 1], SixHours)]
<1>2. f = Def(f)
  BY <1>1 DEF Doubles
<1>3. Base = CHOOSE g : g = Def(g)
  BY DEF Base
<1> HIDE DEF Def
<1>4. Base = Def(Base)
  BY <1>2, <1>3
<1>5. \A n \in 1..MaxAttempts : Base[n] = IF n = 1 THEN FiveMinutes ELSE AtMost(2 * Base[n - 1], SixHours)
  BY <1>4 DEF Def
<1> DEFINE S == {k \in Nat : k + 1 \in 1..MaxAttempts => Base[k + 1] \in 0..SixHours}
<1>6. 0 \in S
  BY <1>5, LedgerConstants
<1>7. ASSUME NEW k \in Nat, k \in S PROVE k + 1 \in S
  <2>1. SUFFICES ASSUME k + 2 \in 1..MaxAttempts PROVE Base[k + 2] \in 0..SixHours
    OBVIOUS
  <2>2. Base[k + 2] = AtMost(2 * Base[k + 1], SixHours)
    <3>1. k + 2 # 1 /\ (k + 2) - 1 = k + 1
      OBVIOUS
    <3> QED BY <1>5, <2>1, <3>1
  <2>3. Base[k + 1] \in 0..SixHours
    <3>1. MaxAttempts \in Nat
      BY LedgerConstants
    <3>2. k + 1 \in 1..MaxAttempts
      BY <2>1, <3>1
    <3> QED BY <1>7, <3>2
  <2> HIDE DEF S
  <2> QED BY <2>2, <2>3, LedgerConstants DEF AtMost
<1> HIDE DEF S
<1>8. Nat \subseteq S
  BY <1>6, <1>7, SetInduction
<1> QED
  <2>1. ASSUME NEW n \in 1..MaxAttempts PROVE Base[n] \in 0..SixHours
    <3>1. MaxAttempts \in Nat /\ n - 1 \in Nat /\ (n - 1) + 1 = n
      BY LedgerConstants
    <3>2. n - 1 \in S
      BY <1>8, <3>1
    <3> QED BY <3>1, <3>2 DEF S
  <2> QED BY <2>1

(* ---------------------------- ledger types ----------------------------- *)

\* EmptyLedger is a ledger.
LEMMA EmptyTyped == EmptyLedger \in Ledger
  BY DEF EmptyLedger, Ledger, Outcomes

\* What managed_api_state_prune returns.
LEMMA PruneTyped ==
  ASSUME NEW l \in Ledger, NEW now \in Nat
  PROVE  /\ Prune(l, now) \in Ledger
         /\ Prune(l, now).observed = now
         /\ Prune(l, now).attempts = {b \in l.attempts : now - b.at < Day}
         /\ Prune(l, now).class = l.class /\ Prune(l, now).backoff = l.backoff
         /\ \A s \in Servers : Prune(l, now).excluded[s] =
              IF l.excluded[s] > now THEN l.excluded[s] ELSE 0
<1> DEFINE kept == {b \in l.attempts : now - b.at < Day}
           left == [s \in Servers |-> IF l.excluded[s] > now THEN l.excluded[s] ELSE 0]
<1>1. kept \in SUBSET Booking /\ left \in [Servers -> Nat]
  BY DEF Ledger
<1> HIDE DEF kept, left
<1>2. Prune(l, now) = [l EXCEPT !.observed = now, !.attempts = kept, !.excluded = left]
  BY DEF Prune, kept, left
<1>3. /\ [l EXCEPT !.observed = now, !.attempts = kept, !.excluded = left] \in Ledger
      /\ Prune(l, now).observed = now /\ Prune(l, now).attempts = kept
      /\ Prune(l, now).class = l.class /\ Prune(l, now).backoff = l.backoff
      /\ Prune(l, now).excluded = left
  BY <1>1, <1>2 DEF Ledger
<1> QED BY <1>2, <1>3 DEF kept, left

\* What managed_api_state_refresh_identity returns; it lifts only a suppression.
LEMMA IdentifyTyped ==
  ASSUME NEW l \in Ledger, NEW c \in Credentials \cup {None}
  PROVE  /\ Identify(l, c) \in Ledger
         /\ Identify(l, c).observed = l.observed /\ Identify(l, c).attempts = l.attempts
         /\ Identify(l, c).excluded = l.excluded
         /\ l.class \notin Suppressions => /\ Identify(l, c).class = l.class
                                           /\ Identify(l, c).backoff = l.backoff
  BY DEF Identify, Ledger, Outcomes

\* The next ledger: one server's exclusion is set, and at the limit another's dropped.
LEMMA ExcludingTyped ==
  ASSUME NEW l \in Ledger, NEW s \in Servers, NEW now \in Nat, NEW k \in Excluding(l, s, now)
  PROVE  /\ k \in Ledger
         /\ k.observed = now /\ k.attempts = Prune(l, now).attempts
         /\ k.class = l.class /\ k.backoff = l.backoff
         /\ k.excluded[s] = now + SixHours
         /\ \A t \in Servers \ {s} : k.excluded[t] \in {0, Prune(l, now).excluded[t]}
         /\ (s \in Live(Prune(l, now)) \/ Cardinality(Live(Prune(l, now))) < MaxExclusions)
              => \A t \in Servers \ {s} : k.excluded[t] = Prune(l, now).excluded[t]
<1> DEFINE p == Prune(l, now)
           room == s \in Live(p) \/ Cardinality(Live(p)) < MaxExclusions
           oldest == {v \in Live(p) : \A w \in Live(p) : p.excluded[v] <= p.excluded[w]}
<1>1. p \in Ledger /\ p.observed = now /\ p.class = l.class /\ p.backoff = l.backoff
  BY PruneTyped
<1> HIDE DEF p
<1>2. PICK v \in IF room THEN {s} ELSE oldest :
        k = [p EXCEPT !.excluded = [t \in Servers |-> IF t = s THEN now + SixHours
                                                      ELSE IF t = v THEN 0 ELSE p.excluded[t]]]
  BY Zenon DEF Excluding, p
<1> DEFINE e == [t \in Servers |-> IF t = s THEN now + SixHours
                                   ELSE IF t = v THEN 0 ELSE p.excluded[t]]
<1>3. e \in [Servers -> Nat]
  BY <1>1, LedgerConstants DEF Ledger
<1>4. e[s] = now + SixHours /\ \A t \in Servers \ {s} : e[t] \in {0, p.excluded[t]}
  OBVIOUS
<1>5. room => \A t \in Servers \ {s} : e[t] = p.excluded[t]
  BY <1>2
<1> HIDE DEF e
<1>6. k = [p EXCEPT !.excluded = e]
  BY <1>2 DEF e
<1>7. /\ k \in Ledger /\ k.excluded = e /\ k.observed = p.observed /\ k.attempts = p.attempts
      /\ k.class = p.class /\ k.backoff = p.backoff
  BY <1>1, <1>3, <1>6 DEF Ledger
<1> QED BY <1>1, <1>4, <1>5, <1>7 DEF p, room

\* The backoff of an attempt is a number.
LEMMA BackoffsTyped ==
  ASSUME NEW n \in 1..MaxAttempts, NEW r PROVE Backoffs(n, RetryAfterReported(r)) \subseteq Nat
<1>1. Base[n] \in Nat /\ SixHours \in Nat
  BY BaseRange, LedgerConstants
<1>2. \A jitter \in 0..(Base[n] \div 10) : AtMost(Base[n] + jitter, SixHours) \in Nat
  BY <1>1 DEF AtMost
<1> QED BY <1>2 DEF Backoffs, RetryAfterReported

\* managed_api_record_outcome before the exclusion of the server.
Classed(p, outcome, k) ==
  /\ k \in Ledger
  /\ k.observed = p.observed /\ k.attempts = p.attempts /\ k.excluded = p.excluded
  /\ k.class = outcome

Reclassed(p, c, until) == [p EXCEPT !.class = c, !.backoff = until]

\* Setting a class and its backoff is classifying.
LEMMA ReclassedTyped ==
  ASSUME NEW p \in Ledger, NEW c \in Outcomes, NEW until \in Nat
  PROVE  Classed(p, c, Reclassed(p, c, until))
  BY DEF Classed, Reclassed, Ledger

\* What managed_api_record_outcome returns: a classified ledger, of which the
\* blamed server is excluded.
LEMMA RecordingTyped ==
  ASSUME NEW p \in Ledger, NEW outcome \in Outcomes, NEW server, NEW blamed \in BOOLEAN,
         NEW retryAfter,
         outcome \in {"rate", "transient"} => Cardinality(p.attempts) \in 1..MaxAttempts,
         NEW k \in Recording(p, outcome, server, blamed, retryAfter)
  PROVE  \E l : /\ Classed(p, outcome, l)
                /\ IF blamed THEN k \in Excluding(l, server, p.observed) ELSE k = l
<1> DEFINE delays == Backoffs(Cardinality(p.attempts), RetryAfterReported(retryAfter))
           classed ==
             CASE outcome = "none" -> {[p EXCEPT !.class = "none", !.backoff = 0]}
               [] outcome \in Suppressions ->
                    {[p EXCEPT !.class = outcome, !.backoff = p.observed + Day]}
               [] OTHER ->
                    {[p EXCEPT !.class = outcome, !.backoff = p.observed + delay] : delay \in delays}
<1>1. ASSUME NEW l \in classed PROVE Classed(p, outcome, l)
  <2>1. CASE outcome = "none"
    <3>1. classed = {[p EXCEPT !.class = "none", !.backoff = 0]}
      BY <2>1 DEF Suppressions
    <3> HIDE DEF classed
    <3>2. l = Reclassed(p, "none", 0)
      BY <1>1, <3>1, Zenon DEF Reclassed
    <3> QED BY <2>1, <3>2, ReclassedTyped
  <2>2. CASE outcome # "none" /\ outcome \in Suppressions
    <3>1. classed = {[p EXCEPT !.class = outcome, !.backoff = p.observed + Day]}
      BY <2>2
    <3> HIDE DEF classed
    <3>2. l = Reclassed(p, outcome, p.observed + Day)
      BY <1>1, <3>1, Zenon DEF Reclassed
    <3>3. p.observed + Day \in Nat
      BY LedgerConstants DEF Ledger
    <3> QED BY <3>2, <3>3, ReclassedTyped
  <2>3. CASE outcome # "none" /\ outcome \notin Suppressions
    <3>1. delays \subseteq Nat
      BY <2>3, BackoffsTyped DEF Outcomes, Suppressions
    <3> HIDE DEF delays
    <3>2. classed = {[p EXCEPT !.class = outcome, !.backoff = p.observed + delay] : delay \in delays}
      BY <2>3
    <3> HIDE DEF classed
    <3>3. PICK delay \in delays : l = Reclassed(p, outcome, p.observed + delay)
      BY <1>1, <3>2, Zenon DEF Reclassed
    <3>4. p.observed + delay \in Nat
      BY <3>1 DEF Ledger
    <3> QED BY <3>3, <3>4, ReclassedTyped
  <2> QED BY <2>1, <2>2, <2>3
<1>2. k \in IF blamed THEN UNION {Excluding(l, server, p.observed) : l \in classed} ELSE classed
  BY Zenon DEF Recording
<1> HIDE DEF classed
<1>3. CASE blamed
  <2>1. PICK l \in classed : k \in Excluding(l, server, p.observed)
    BY <1>2, <1>3
  <2> QED BY <1>1, <1>3, <2>1
<1>4. CASE ~blamed
  BY <1>1, <1>2, <1>4
<1> QED BY <1>3, <1>4

(* ------------------------------- typing -------------------------------- *)

\* The steps at which a process has chosen a server.
Chosen == {"selected", "booked", "calling", "answered", "trial"}

Processes ==
  /\ lock \in Ifaces \cup {None}
  /\ pc \in [Ifaces -> Steps]
  /\ run \in [Ifaces -> [op : Operations, credential : Credentials \cup {None},
                         server : Servers \cup {None}]]
  /\ slots \in [Ifaces -> 0..MaxBookings]
  /\ \A i \in Ifaces : pc[i] = "selected" => slots[i] < MaxBookings
  /\ \A i \in Ifaces : pc[i] \in Chosen => run[i].server \in Servers

Loadable(l) == l = EmptyLedger \/ Valid(l)
Ledgers ==
  \A i \in Ifaces : /\ {mem[i], file[i], synced[i]} \subseteq Ledger
                    /\ Loadable(file[i]) /\ Loadable(synced[i])

Surroundings ==
  /\ clock \in 0..MaxEpoch /\ adverse \in 0..MaxAdverse
  /\ installed \in [Ifaces -> Credentials]
  /\ pending \in [Ifaces -> BOOLEAN]
  /\ promised \in [Ifaces -> [avoid : [Servers -> Nat], hold : Nat, retryAt : Nat]]

TypeInv == IInv /\ Processes /\ Ledgers /\ Surroundings

\* The constants are numbers.
LEMMA ConstantNats ==
  /\ MaxBookings \in Nat /\ MaxAdverse \in Nat /\ MaxEpoch \in Nat /\ SixHours \in Nat
  /\ Day \in Nat /\ FiveMinutes \in Nat /\ MaxAttempts \in Nat /\ MaxExclusions \in Nat
  /\ RetryAfters \subseteq Nat
  BY LedgerConstants

\* No step leaves the types of the lock and the processes.
LEMMA ProcessesStep == TypeInv /\ [Next]_vars => Processes'
<1> SUFFICES ASSUME TypeInv, [Next]_vars PROVE Processes'
  OBVIOUS
<1> USE ConstantNats DEF TypeInv, Processes, Steps, Holding, Chosen, Operations
<1>1. ASSUME NEW i \in Ifaces, Finish(i), UNCHANGED slots,
             lock' \in {lock, None, i} PROVE Processes'
  BY <1>1 DEF Finish, Goto, NoRun
<1>2. ASSUME NEW i \in Ifaces, NEW next \in Steps, Goto(i, next), UNCHANGED <<slots, run>>,
             next = "selected" => pc[i] = "selected",
             next \in Chosen => pc[i] \in Chosen,
             lock' \in {lock, None, i} PROVE Processes'
  BY <1>2 DEF Goto
<1>3. ASSUME UNCHANGED <<lock, pc, run, slots>> PROVE Processes'
  BY <1>3
<1>4. ASSUME NEW i \in Ifaces, Start(i) PROVE Processes'
  BY <1>4 DEF Start, Goto, ghosts, Surroundings
<1>5. ASSUME NEW i \in Ifaces, Gate(i) PROVE Processes'
  <2>1. CASE GateRefuses(i) \/ GateHolds(i)
    BY <1>1, <2>1 DEF GateRefuses, GateHolds, ghosts
  <2>2. CASE GatePasses(i)
    BY <1>2, <2>2 DEF GatePasses, ghosts
  <2> QED BY <1>5, <2>1, <2>2 DEF Gate
<1>6. ASSUME NEW i \in Ifaces, Advance(i) PROVE Processes'
  <2>1. CASE SelectServer(i)
    BY <2>1 DEF SelectServer, Goto, ghosts
  <2>2. CASE PreflightFails(i) \/ PreflightAborts(i) \/ AnswerLost(i)
    BY <1>1, <2>2 DEF PreflightFails, PreflightAborts, AnswerLost, Release, ghosts
  <2>3. CASE Book(i)
    <3>1. pc[i] = "selected" /\ slots' = [slots EXCEPT ![i] = @ + 1]
      BY <2>3 DEF Book
    <3>2. slots' \in [Ifaces -> 0..MaxBookings] /\ \A j \in Ifaces \ {i} : slots'[j] = slots[j]
      BY <3>1
    <3>3. CASE Goto(i, "booked") /\ UNCHANGED <<lock, run>>
      BY <3>1, <3>2, <3>3 DEF Goto
    <3>4. CASE Release(i) /\ Finish(i)
      BY <3>2, <3>4 DEF Release, Finish, Goto, NoRun
    <3> QED BY <2>3, <3>3, <3>4 DEF Book
  <2>4. CASE Call(i)
    BY <1>2, <2>4 DEF Call, ghosts
  <2>5. CASE Answer(i)
    <3>1. pc[i] = "calling" /\ UNCHANGED slots /\ lock' \in {lock, None}
      BY <2>5 DEF Answer, Release
    <3>2. \/ Goto(i, "answered") /\ UNCHANGED run
          \/ Finish(i)
      BY <2>5 DEF Answer
    <3> QED BY <1>1, <1>2, <3>1, <3>2
  <2> QED BY <1>6, <2>1, <2>2, <2>3, <2>4, <2>5 DEF Advance
<1>7. ASSUME NEW i \in Ifaces, Switch(i) PROVE Processes'
  <2>1. CASE Preexclude(i)
    <3>1. pc[i] = "answered" /\ UNCHANGED <<slots, lock>>
      BY <2>1 DEF Preexclude
    <3>2. \/ Goto(i, "trial") /\ UNCHANGED run
          \/ Finish(i)
      BY <2>1 DEF Preexclude
    <3> QED BY <1>1, <1>2, <3>1, <3>2
  <2>2. CASE SwitchRefused(i) \/ SwitchCommits(i) \/ SwitchFails(i) \/ SwitchAborts(i)
    BY <1>1, <2>2 DEF SwitchRefused, SwitchCommits, SwitchFails, SwitchAborts, ghosts
  <2> QED BY <1>7, <2>1, <2>2 DEF Switch
<1>8. ASSUME NEW i \in Ifaces, Recover(i) \/ ResetApiState(i) \/ ReplaceCredential(i)
      PROVE Processes'
  BY <1>3, <1>8 DEF Recover, ResetApiState, ReplaceCredential, ghosts
<1>9. ASSUME NEW i \in Ifaces, Crash(i) PROVE Processes'
  BY <1>1, <1>9 DEF Crash, Release, ghosts
<1>10. CASE Tick \/ ClockStepsBack \/ UNCHANGED vars
  BY <1>3, <1>10 DEF Tick, ClockStepsBack, vars, ghosts
<1>11. CASE PowerLoss
  BY <1>11 DEF PowerLoss, NoRun, ghosts
<1> QED BY <1>4, <1>5, <1>6, <1>7, <1>8, <1>9, <1>10, <1>11 DEF Next

\* managed_api_state_write writes a ledger that can be loaded again.
LEMMA PersistTyped ==
  ASSUME TypeInv, NEW i \in Ifaces, NEW l \in Ledger, NEW ok \in BOOLEAN, Persist(i, l, ok)
  PROVE  /\ \A j \in Ifaces : /\ {file'[j], synced'[j]} \subseteq Ledger
                              /\ Loadable(file'[j]) /\ Loadable(synced'[j])
         /\ adverse' \in 0..MaxAdverse
<1>1. CASE ~Valid(l)
  BY <1>1 DEF Persist, TypeInv, Ledgers, Surroundings
<1>2. CASE Valid(l)
  <2>1. /\ \A j \in Ifaces : j # i => file'[j] = file[j] /\ synced'[j] = synced[j]
        /\ file'[i] \in {file[i], l} /\ synced'[i] \in {synced[i], l}
    BY PersistWrites DEF TypeInv, IInv
  <2>2. Loadable(l)
    BY <1>2 DEF Loadable
  <2>3. adverse' \in 0..MaxAdverse
    BY ConstantNats DEF Persist, TypeInv, Surroundings
  <2> QED BY <2>1, <2>2, <2>3 DEF TypeInv, Ledgers
<1> QED BY <1>1, <1>2

\* What a process works with, at a glance.
LEMMA AtWork ==
  ASSUME TypeInv, NEW i \in Ifaces
  PROVE  /\ mem[i] \in Ledger /\ file[i] \in Ledger /\ synced[i] \in Ledger
         /\ clock \in Nat /\ mem[i].observed \in Nat /\ slots[i] \in Nat
         /\ Sound(mem[i], slots[i]) /\ Sound(file[i], slots[i])
         /\ pc[i] \in Chosen => run[i].server \in Servers
         /\ run[i].credential \in Credentials \cup {None}
         /\ promised[i].hold \in Nat /\ promised[i].avoid \in [Servers -> Nat]
         /\ DOMAIN pc = Ifaces /\ DOMAIN mem = Ifaces /\ DOMAIN file = Ifaces
         /\ DOMAIN synced = Ifaces /\ DOMAIN run = Ifaces /\ DOMAIN promised = Ifaces
<1>1. clock \in Nat
  BY ConstantNats DEF TypeInv, Surroundings
<1>2. mem[i] \in Ledger /\ file[i] \in Ledger /\ synced[i] \in Ledger
  BY DEF TypeInv, Ledgers
<1>3. /\ mem[i].observed \in Nat /\ slots[i] \in Nat
      /\ Sound(mem[i], slots[i]) /\ Sound(file[i], slots[i])
  BY LedgersSound DEF TypeInv, IInv, AccountOf, Account
<1>4. /\ DOMAIN pc = Ifaces /\ DOMAIN mem = Ifaces /\ DOMAIN file = Ifaces
      /\ DOMAIN synced = Ifaces /\ DOMAIN run = Ifaces /\ DOMAIN promised = Ifaces
  BY DEF TypeInv, IInv, Shapes, Processes, Surroundings
<1>5. /\ pc[i] \in Chosen => run[i].server \in Servers
      /\ run[i].credential \in Credentials \cup {None}
  BY DEF TypeInv, Processes
<1>6. promised[i].hold \in Nat /\ promised[i].avoid \in [Servers -> Nat]
  BY DEF TypeInv, Surroundings
<1> QED BY <1>1, <1>2, <1>3, <1>4, <1>5, <1>6

\* What a process loads is a ledger.
LEMMA LoadedTyped ==
  ASSUME TypeInv, NEW i \in Ifaces PROVE Loaded(i) \in Ledger
  BY AtWork, PruneTyped, IdentifyTyped DEF Loaded

\* The ledger an answer leaves: classified, and then perhaps with an exclusion.
Answered(i, outcome, blamed, l) ==
  \E c : /\ Classed(Prune(mem[i], clock), outcome, c)
         /\ IF blamed THEN l \in Excluding(c, run[i].server, clock) ELSE l = c

\* What an answer records.
LEMMA AnswerRecorded ==
  ASSUME TypeInv, NEW i \in Ifaces, pc[i] = "calling", clock >= Now(i),
         NEW outcome \in Outcomes, NEW blamed \in BOOLEAN, NEW retryAfter,
         outcome \in {"rate", "transient"} => Prune(mem[i], clock).attempts # {},
         NEW l \in Recording(Prune(mem[i], clock), outcome, run[i].server, blamed, retryAfter)
  PROVE  Answered(i, outcome, blamed, l) /\ l \in Ledger
<1> DEFINE p == Prune(mem[i], clock)
<1>1. p \in Ledger /\ p.observed = clock
  BY AtWork, PruneTyped
<1>2. Sound(p, slots[i])
  BY AtWork, PruneAges, AgingKeeps DEF Now
<1> HIDE DEF p
<1>3. p.attempts # {} => Cardinality(p.attempts) \in 1..MaxAttempts
  <2>1. Cardinality(p.attempts) \in Nat /\ Cardinality(p.attempts) <= MaxAttempts
    BY <1>2, FS_CardinalityType DEF Sound
  <2>2. p.attempts # {} => Cardinality(p.attempts) # 0
    BY <1>2, FS_EmptySet DEF Sound
  <2> QED BY <2>1, <2>2, ConstantNats
<1>4. PICK c : /\ Classed(p, outcome, c)
               /\ IF blamed THEN l \in Excluding(c, run[i].server, p.observed) ELSE l = c
  <2>1. outcome \in {"rate", "transient"} => Cardinality(p.attempts) \in 1..MaxAttempts
    BY <1>3 DEF p
  <2>2. l \in Recording(p, outcome, run[i].server, blamed, retryAfter)
    BY DEF p
  <2> QED BY <1>1, <2>1, <2>2, RecordingTyped
<1>5. Answered(i, outcome, blamed, l)
  BY <1>1, <1>4 DEF Answered, p
<1>6. c \in Ledger
  BY <1>4 DEF Classed
<1>7. l \in Ledger
  BY <1>1, <1>4, <1>6, AtWork, ExcludingTyped DEF Chosen
<1> QED BY <1>5, <1>7

\* No step leaves the types of the ledgers, and what a file holds can be loaded.
LEMMA LedgersStep == TypeInv /\ [Next]_vars => Ledgers' /\ adverse' \in 0..MaxAdverse
<1> SUFFICES ASSUME TypeInv, [Next]_vars PROVE Ledgers' /\ adverse' \in 0..MaxAdverse
  OBVIOUS
<1> DEFINE Goal == Ledgers' /\ adverse' \in 0..MaxAdverse
<1>e. EmptyLedger \in Ledger /\ Loadable(EmptyLedger)
  BY EmptyTyped DEF Loadable
<1>a. adverse \in 0..MaxAdverse /\ Ledgers
  BY DEF TypeInv, Surroundings
<1>m. \A i \in Ifaces : mem[i] \in Ledger
  BY AtWork
<1>1. ASSUME NEW i \in Ifaces, Finish(i), UNCHANGED <<file, synced>>, adverse' \in 0..MaxAdverse
      PROVE  Goal
  <2>1. \A j \in Ifaces : mem'[j] \in Ledger
    BY <1>1, <1>e, <1>m, AtWork DEF Finish, Remember
  <2> QED BY <1>1, <1>a, <2>1 DEF Ledgers
<1>2. ASSUME NEW i \in Ifaces, NEW m \in Ledger, NEW l \in Ledger, NEW ok \in BOOLEAN,
             Persist(i, l, ok), Remember(i, m)
      PROVE  Goal
  <2>1. \A j \in Ifaces : mem'[j] \in Ledger
    BY <1>2, <1>m, AtWork DEF Remember
  <2> QED BY <1>2, <2>1, PersistTyped DEF Ledgers
<1>3. ASSUME NEW i \in Ifaces, NEW l \in Ledger, NEW ok \in BOOLEAN, Persist(i, l, ok), Finish(i)
      PROVE  Goal
  BY <1>2, <1>3, <1>e DEF Finish
<1>4. ASSUME UNCHANGED <<mem, file, synced>>, adverse' \in 0..MaxAdverse PROVE Goal
  BY <1>4, <1>a DEF Ledgers
<1>5. ASSUME NEW i \in Ifaces, Start(i) \/ Recover(i) \/ ReplaceCredential(i) PROVE Goal
  BY <1>4, <1>5, <1>a, ConstantNats DEF Start, Recover, ReplaceCredential, ghosts
<1>6. ASSUME NEW i \in Ifaces, Gate(i) PROVE Goal
  <2>1. CASE GateRefuses(i)
    BY <1>1, <1>a, <2>1 DEF GateRefuses, ghosts
  <2>2. CASE GateHolds(i)
    BY <1>3, <2>2, LoadedTyped DEF GateHolds
  <2>3. CASE GatePasses(i)
    <3>1. \A j \in Ifaces : mem'[j] \in Ledger
      BY <1>m, <2>3, LoadedTyped, AtWork DEF GatePasses, Remember
    <3> QED BY <1>a, <2>3, <3>1 DEF GatePasses, Ledgers, ghosts
  <2> QED BY <1>6, <2>1, <2>2, <2>3 DEF Gate
<1>7. ASSUME NEW i \in Ifaces, Advance(i) PROVE Goal
  <2>1. CASE SelectServer(i) \/ Call(i)
    BY <1>4, <1>a, <2>1 DEF SelectServer, Call, ghosts
  <2>2. CASE PreflightAborts(i) \/ AnswerLost(i)
    BY <1>1, <1>a, <2>2 DEF PreflightAborts, AnswerLost, ghosts
  <2>3. CASE PreflightFails(i)
    <3> DEFINE l == [mem[i] EXCEPT !.class = "transient", !.backoff = Now(i) + FiveMinutes]
    <3>1. l \in Ledger
      <4>1. Now(i) + FiveMinutes \in Nat
        BY AtWork, ConstantNats DEF Now
      <4> QED BY ZenonT(60), <4>1, AtWork DEF Ledger, Outcomes
    <3> HIDE DEF l
    <3>2. Finish(i) /\ \E ok \in BOOLEAN : Persist(i, l, ok)
      BY <2>3 DEF PreflightFails, l
    <3> QED BY <1>3, <3>1, <3>2
  <2>4. CASE Book(i)
    <3> DEFINE new == [slot |-> slots[i] + 1, at |-> Now(i)]
               l == [mem[i] EXCEPT !.attempts = mem[i].attempts \cup {new}]
    <3>1. l \in Ledger
      <4>1. new \in Booking
        BY AtWork DEF Booking, Now
      <4> HIDE DEF new
      <4> QED BY <4>1, AtWork DEF Ledger
    <3> HIDE DEF l
    <3>2. \/ Persist(i, l, TRUE) /\ Remember(i, l)
          \/ Persist(i, l, FALSE) /\ Finish(i)
      BY <2>4 DEF Book, l
    <3> QED BY <1>2, <1>3, <3>1, <3>2
  <2>5. CASE Answer(i)
    <3>1. PICK outcome \in Outcomes, blamed \in BOOLEAN, retryAfter \in RetryAfters, ok \in BOOLEAN :
            /\ outcome \in {"rate", "transient"} => Prune(mem[i], clock).attempts # {}
            /\ \E l \in Recording(Prune(mem[i], clock), outcome, run[i].server, blamed, retryAfter) :
                 Persist(i, l, ok) /\ (Remember(i, l) \/ Finish(i))
      BY <2>5 DEF Answer
    <3>2. PICK l \in Recording(Prune(mem[i], clock), outcome, run[i].server, blamed, retryAfter) :
            Persist(i, l, ok) /\ (Remember(i, l) \/ Finish(i))
      BY <3>1
    <3>3. l \in Ledger
      BY <2>5, <3>1, AnswerRecorded DEF Answer
    <3> QED BY <1>2, <1>3, <3>2, <3>3
  <2> QED BY <1>7, <2>1, <2>2, <2>3, <2>4, <2>5 DEF Advance
<1>8. ASSUME NEW i \in Ifaces, Switch(i) PROVE Goal
  <2>1. ASSUME pc[i] \in {"answered", "trial"}
        PROVE  \A l \in Excluding(mem[i], run[i].server, clock) : l \in Ledger
    BY <2>1, AtWork, ExcludingTyped DEF Chosen
  <2>2. CASE Preexclude(i)
    <3>1. PICK l \in Excluding(mem[i], run[i].server, clock) :
            \/ Persist(i, l, TRUE) /\ Remember(i, l)
            \/ Persist(i, l, FALSE) /\ Finish(i)
      BY <2>2 DEF Preexclude
    <3>2. l \in Ledger
      BY <2>1, <2>2, <3>1 DEF Preexclude
    <3> QED BY <1>2, <1>3, <3>1, <3>2
  <2>3. CASE SwitchRefused(i) \/ SwitchAborts(i)
    BY <1>1, <1>a, <2>3 DEF SwitchRefused, SwitchAborts, ghosts
  <2>4. CASE SwitchCommits(i)
    <3> DEFINE p == Prune(mem[i], clock)
               l == [p EXCEPT !.excluded = [p.excluded EXCEPT ![run[i].server] = 0]]
    <3>1. p \in Ledger
      BY AtWork, PruneTyped
    <3> HIDE DEF p
    <3>2. l \in Ledger
      <4>1. [p.excluded EXCEPT ![run[i].server] = 0] \in [Servers -> Nat]
        BY <3>1 DEF Ledger
      <4> QED BY <3>1, <4>1 DEF Ledger
    <3>3. \/ \E ok \in BOOLEAN : Persist(i, l, ok)
          \/ UNCHANGED <<file, synced, adverse>>
      BY <2>4 DEF SwitchCommits, p
    <3> HIDE DEF l
    <3>4. Finish(i)
      BY <2>4 DEF SwitchCommits
    <3> QED BY <1>1, <1>3, <1>a, <3>2, <3>3, <3>4
  <2>5. CASE SwitchFails(i)
    <3>1. \/ \E l \in Excluding(mem[i], run[i].server, clock), ok \in BOOLEAN : Persist(i, l, ok)
          \/ UNCHANGED <<file, synced, adverse>>
      BY <2>5 DEF SwitchFails
    <3>2. Finish(i) /\ pc[i] = "trial"
      BY <2>5 DEF SwitchFails
    <3> QED BY <1>1, <1>3, <1>a, <2>1, <3>1, <3>2
  <2> QED BY <1>8, <2>2, <2>3, <2>4, <2>5 DEF Switch
<1>9. ASSUME NEW i \in Ifaces, ResetApiState(i) PROVE Goal
  <2>1. /\ UNCHANGED mem /\ file' = [file EXCEPT ![i] = EmptyLedger]
        /\ synced' \in {synced, [synced EXCEPT ![i] = EmptyLedger]}
        /\ adverse' = adverse + 1 /\ adverse < MaxAdverse
    BY <1>9 DEF ResetApiState
  <2>2. \A j \in Ifaces : file'[j] \in {file[j], EmptyLedger} /\ synced'[j] \in {synced[j], EmptyLedger}
    BY <2>1, AtWork
  <2>3. adverse' \in 0..MaxAdverse
    BY <1>a, <2>1, ConstantNats
  <2> QED BY <1>a, <1>e, <2>1, <2>2, <2>3 DEF Ledgers
<1>10. ASSUME NEW i \in Ifaces, Crash(i) PROVE Goal
  BY <1>1, <1>10, <1>a, ConstantNats DEF Crash
<1>11. CASE Tick \/ ClockStepsBack \/ UNCHANGED vars
  BY <1>4, <1>11, <1>a, ConstantNats DEF Tick, ClockStepsBack, vars, ghosts
<1>12. CASE PowerLoss
  <2>1. PICK kept \in SUBSET Ifaces :
          file' = [i \in Ifaces |-> IF i \in kept THEN file[i] ELSE synced[i]]
    BY <1>12 DEF PowerLoss
  <2>2. /\ synced' = file' /\ mem' = [i \in Ifaces |-> EmptyLedger]
        /\ adverse' = adverse + 1 /\ adverse < MaxAdverse
    BY <1>12 DEF PowerLoss
  <2>3. \A j \in Ifaces : /\ mem'[j] = EmptyLedger
                          /\ file'[j] \in {file[j], synced[j]} /\ synced'[j] \in {file[j], synced[j]}
    BY <2>1, <2>2
  <2>4. adverse' \in 0..MaxAdverse
    BY <1>a, <2>2, ConstantNats
  <2> QED BY <1>a, <1>e, <2>3, <2>4 DEF Ledgers
<1> QED BY <1>5, <1>6, <1>7, <1>8, <1>9, <1>10, <1>11, <1>12 DEF Next

\* No step leaves the types of the rest.
LEMMA SurroundingsStep == TypeInv /\ [Next]_vars => Surroundings'
<1> SUFFICES ASSUME TypeInv, [Next]_vars PROVE Surroundings'
  OBVIOUS
<1> DEFINE P == [avoid : [Servers -> Nat], hold : Nat, retryAt : Nat]
<1>0. /\ clock \in 0..MaxEpoch /\ installed \in [Ifaces -> Credentials]
      /\ pending \in [Ifaces -> BOOLEAN] /\ promised \in [Ifaces -> P]
  BY DEF TypeInv, Surroundings
<1>a. adverse' \in 0..MaxAdverse
  BY LedgersStep
<1>1. clock' \in 0..MaxEpoch /\ installed' \in [Ifaces -> Credentials]
  <2>1. UNCHANGED clock \/ Tick \/ ClockStepsBack
    BY ZenonT(60) DEF Next, Start, Gate, GateRefuses, GateHolds, GatePasses, Advance, SelectServer,
       PreflightFails, PreflightAborts, Book, Call, Answer, AnswerLost, Switch, Preexclude,
       SwitchRefused, SwitchCommits, SwitchFails, SwitchAborts, Recover, ResetApiState,
       ReplaceCredential, Crash, Tick, ClockStepsBack, PowerLoss, vars
  <2>2. clock' \in 0..MaxEpoch
    BY <1>0, <2>1, ConstantNats DEF Tick, ClockStepsBack
  <2>3. UNCHANGED installed \/ \E i \in Ifaces : ReplaceCredential(i)
    BY DEF Next, Start, Gate, GateRefuses, GateHolds, GatePasses, Advance, SelectServer,
       PreflightFails, PreflightAborts, Book, Call, Answer, AnswerLost, Switch, Preexclude,
       SwitchRefused, SwitchCommits, SwitchFails, SwitchAborts, Recover, ResetApiState,
       ReplaceCredential, Crash, Tick, ClockStepsBack, PowerLoss, vars
  <2>4. installed' \in [Ifaces -> Credentials]
    BY <1>0, <2>3 DEF ReplaceCredential
  <2> QED BY <2>2, <2>4
<1>2. pending' \in [Ifaces -> BOOLEAN]
  BY ZenonT(60), <1>0 DEF Next, Start, Gate, GateRefuses, GateHolds, GatePasses, Advance, SelectServer,
     PreflightFails, PreflightAborts, Book, Call, Answer, AnswerLost, Switch, Preexclude,
     SwitchRefused, SwitchCommits, SwitchFails, SwitchAborts, Recover, ResetApiState,
     ReplaceCredential, Crash, Tick, ClockStepsBack, PowerLoss, vars
<1>3. promised' \in [Ifaces -> P]
  <2>1. CASE UNCHANGED promised
    BY <1>0, <2>1
  <2>2. ASSUME NEW i \in Ifaces, PreflightFails(i) PROVE promised' \in [Ifaces -> P]
    <3>1. \/ promised' = promised
          \/ promised' = [promised EXCEPT ![i].hold = Now(i) + FiveMinutes]
      <4>1. [mem[i] EXCEPT !.class = "transient", !.backoff = Now(i) + FiveMinutes].backoff
              = Now(i) + FiveMinutes
        BY AtWork DEF Ledger
      <4> QED BY <2>2, <4>1 DEF PreflightFails
    <3>2. Now(i) + FiveMinutes \in Nat
      BY AtWork, ConstantNats DEF Now
    <3> QED BY <1>0, <3>1, <3>2
  <2>3. ASSUME NEW i \in Ifaces, Answer(i) PROVE promised' \in [Ifaces -> P]
    <3>1. PICK outcome \in Outcomes, blamed \in BOOLEAN, retryAfter \in RetryAfters, ok \in BOOLEAN :
            /\ outcome \in {"rate", "transient"} => Prune(mem[i], clock).attempts # {}
            /\ \E l \in Recording(Prune(mem[i], clock), outcome, run[i].server, blamed, retryAfter) :
                 promised' = [promised EXCEPT ![i] =
                     [hold |-> IF ok /\ outcome \in {"rate", "transient"} THEN l.backoff ELSE promised[i].hold,
                      avoid |-> IF ok /\ blamed
                                  THEN [promised[i].avoid EXCEPT ![run[i].server] = clock + SixHours]
                                  ELSE promised[i].avoid,
                      retryAt |-> IF retryAfter # 0 THEN clock + retryAfter ELSE promised[i].retryAt]]
      BY <2>3, ZenonT(60) DEF Answer
    <3>2. PICK l \in Recording(Prune(mem[i], clock), outcome, run[i].server, blamed, retryAfter) :
                 promised' = [promised EXCEPT ![i] =
                     [hold |-> IF ok /\ outcome \in {"rate", "transient"} THEN l.backoff ELSE promised[i].hold,
                      avoid |-> IF ok /\ blamed
                                  THEN [promised[i].avoid EXCEPT ![run[i].server] = clock + SixHours]
                                  ELSE promised[i].avoid,
                      retryAt |-> IF retryAfter # 0 THEN clock + retryAfter ELSE promised[i].retryAt]]
      BY <3>1
    <3>3. l \in Ledger
      BY <2>3, <3>1, AnswerRecorded DEF Answer
    <3>4. l.backoff \in Nat /\ clock + SixHours \in Nat /\ clock + retryAfter \in Nat
      BY <3>3, AtWork, ConstantNats DEF Ledger
    <3>5. promised[i].hold \in Nat /\ promised[i].avoid \in [Servers -> Nat] /\ promised[i].retryAt \in Nat
      BY <1>0
    <3> QED BY <1>0, <3>2, <3>4, <3>5
  <2>4. ASSUME NEW i \in Ifaces, Preexclude(i) \/ SwitchCommits(i) \/ SwitchFails(i)
        PROVE promised' \in [Ifaces -> P]
    <3>1. \/ promised' = promised
          \/ \E t \in {0, clock + SixHours} : promised' = [promised EXCEPT ![i].avoid[run[i].server] = t]
      BY <2>4 DEF Preexclude, SwitchCommits, SwitchFails
    <3>2. {0, clock + SixHours} \subseteq Nat
      BY AtWork, ConstantNats
    <3>3. ASSUME NEW t \in Nat, promised' = [promised EXCEPT ![i].avoid[run[i].server] = t]
          PROVE  promised' \in [Ifaces -> P]
      <4> DEFINE a == [promised[i].avoid EXCEPT ![run[i].server] = t]
      <4>1. a \in [Servers -> Nat]
        BY <3>3, AtWork
      <4>2. promised' = [promised EXCEPT ![i].avoid = a]
        BY <3>3
      <4> HIDE DEF a
      <4> QED BY <1>0, <4>1, <4>2
    <3> QED BY <1>0, <3>1, <3>2, <3>3
  <2>5. ASSUME NEW i \in Ifaces, ResetApiState(i) PROVE promised' \in [Ifaces -> P]
    <3>1. NoPromise \in P
      BY DEF NoPromise
    <3> QED BY <1>0, <2>5, <3>1 DEF ResetApiState
  <2>6. \/ UNCHANGED promised
        \/ \E i \in Ifaces : \/ PreflightFails(i) \/ Answer(i) \/ ResetApiState(i)
                             \/ Preexclude(i) \/ SwitchCommits(i) \/ SwitchFails(i)
    BY DEF Next, Start, Gate, GateRefuses, GateHolds, GatePasses, Advance, SelectServer,
     PreflightAborts, Book, Call, AnswerLost, Switch, SwitchRefused, SwitchAborts, Recover,
     ReplaceCredential, Crash, Tick, ClockStepsBack, PowerLoss, vars, ghosts
  <2> QED BY <2>1, <2>2, <2>3, <2>4, <2>5, <2>6
<1> QED BY <1>a, <1>1, <1>2, <1>3 DEF Surroundings

\* The types hold initially.
LEMMA TypeInit == Init => TypeInv
<1> SUFFICES ASSUME Init PROVE TypeInv
  OBVIOUS
<1>1. IInv
  BY InitInv
<1>2. Processes
  BY ConstantNats DEF Init, Processes, Steps, NoRun, Chosen, Operations
<1>3. Ledgers
  BY EmptyTyped DEF Init, Ledgers, Loadable
<1>4. Surroundings
  BY ConstantNats DEF Init, Surroundings, NoPromise
<1> QED BY <1>1, <1>2, <1>3, <1>4 DEF TypeInv

\* No step leaves the types.
LEMMA TypeStep == TypeInv /\ [Next]_vars => TypeInv'
<1> SUFFICES ASSUME TypeInv, [Next]_vars PROVE TypeInv'
  OBVIOUS
<1>1. IInv'
  BY StepInv DEF TypeInv
<1> QED BY <1>1, ProcessesStep, LedgersStep, SurroundingsStep DEF TypeInv

\* The types, and the account of every request, hold throughout every behaviour.
THEOREM TypeInvariance == Spec => []TypeInv
  BY TypeInit, TypeStep, PTL DEF Spec

\* Every variable has its type, and whatever operations, crashes and failed writes
\* come in a row, no file is written that a process could not load: none blocks
\* its interface for good (managed_api_state_memory_is_valid guards every write).
THEOREM TypeCorrect == Spec => []TypeOK
<1>1. TypeInv => TypeOK
  <2> SUFFICES ASSUME TypeInv PROVE TypeOK
    OBVIOUS
  <2>1. \A i \in Ifaces : calls[i] \subseteq Booking
    BY DEF TypeInv, IInv, AccountOf, Account
  <2>2. \A i \in Ifaces : /\ {mem[i], file[i], synced[i]} \subseteq Ledger
                          /\ \A l \in {file[i], synced[i]} : l = EmptyLedger \/ Valid(l)
    BY DEF TypeInv, Ledgers, Loadable
  <2> QED BY <2>1, <2>2 DEF TypeInv, Processes, Surroundings, TypeOK
<1> QED BY <1>1, TypeInvariance, PTL

(* --------------------------- serialisation ----------------------------- *)

\* The global lock is held by whoever is between the gate and the answer.
LockHeld ==
  /\ \A i \in Ifaces : pc[i] \in Holding <=> lock = i

\* No step breaks the account of the global lock.
LEMMA LockStep == TypeInv /\ LockHeld /\ [Next]_vars => LockHeld'
<1> SUFFICES ASSUME TypeInv, LockHeld, [Next]_vars PROVE LockHeld'
  OBVIOUS
<1> USE DEF LockHeld, Holding
<1>0. DOMAIN pc = Ifaces /\ None \notin Ifaces
  BY LedgerConstants DEF TypeInv, IInv, Shapes
<1>1. ASSUME NEW i \in Ifaces, pc[i] \notin Holding, pc' = [pc EXCEPT ![i] = pc'[i]],
             pc'[i] \notin Holding, UNCHANGED lock
      PROVE  LockHeld'
  BY <1>0, <1>1
<1>2. ASSUME NEW i \in Ifaces, pc[i] \in Holding, pc' = [pc EXCEPT ![i] = pc'[i]],
             pc'[i] \in Holding, UNCHANGED lock
      PROVE  LockHeld'
  BY <1>0, <1>2
<1>3. ASSUME NEW i \in Ifaces, pc' = [pc EXCEPT ![i] = pc'[i]],
             pc'[i] \notin Holding, Release(i)
      PROVE  LockHeld'
  BY <1>0, <1>3 DEF Release
<1>4. ASSUME NEW i \in Ifaces, Start(i) \/ SwitchRefused(i) \/ SwitchCommits(i) \/ SwitchFails(i)
                                \/ SwitchAborts(i) \/ Preexclude(i) \/ GateRefuses(i) \/ GateHolds(i)
      PROVE  LockHeld'
  <2>1. pc[i] \notin Holding /\ UNCHANGED lock
    BY <1>4 DEF Start, SwitchRefused, SwitchCommits, SwitchFails, SwitchAborts, Preexclude,
       GateRefuses, GateHolds
  <2>2. \E s \in {"waiting", "idle", "trial"} : pc' = [pc EXCEPT ![i] = s]
    BY <1>4 DEF Start, SwitchRefused, SwitchCommits, SwitchFails, SwitchAborts, Preexclude,
       GateRefuses, GateHolds, Finish, Goto
  <2> QED BY <1>0, <1>1, <2>1, <2>2
<1>5. ASSUME NEW i \in Ifaces, GatePasses(i) PROVE LockHeld'
  BY <1>0, <1>5 DEF GatePasses, Goto
<1>6. ASSUME NEW i \in Ifaces, SelectServer(i) \/ Call(i) PROVE LockHeld'
  BY <1>0, <1>2, <1>6 DEF SelectServer, Call, Goto
<1>7. ASSUME NEW i \in Ifaces, PreflightFails(i) \/ PreflightAborts(i) \/ AnswerLost(i)
                                \/ Answer(i) \/ Crash(i)
      PROVE  LockHeld'
  <2>1. Release(i)
    BY <1>7 DEF PreflightFails, PreflightAborts, AnswerLost, Answer, Crash
  <2>2. \E s \in {"idle", "answered"} : pc' = [pc EXCEPT ![i] = s]
    <3>1. Answer(i) => Finish(i) \/ Goto(i, "answered")
      BY DEF Answer
    <3>2. Finish(i) \/ Goto(i, "answered")
      BY <1>7, <3>1 DEF PreflightFails, PreflightAborts, AnswerLost, Crash
    <3> QED BY <3>2 DEF Finish, Goto
  <2> QED BY <1>0, <1>3, <2>1, <2>2
<1>8. ASSUME NEW i \in Ifaces, Book(i) PROVE LockHeld'
  <2>1. CASE Goto(i, "booked") /\ UNCHANGED lock
    BY <1>0, <1>2, <1>8, <2>1 DEF Book, Goto
  <2>2. CASE Release(i) /\ Finish(i)
    BY <1>0, <1>3, <2>2 DEF Finish, Goto
  <2> QED BY <1>8, <2>1, <2>2 DEF Book
<1>9. ASSUME NEW i \in Ifaces, Recover(i) \/ ResetApiState(i) \/ ReplaceCredential(i) PROVE LockHeld'
  BY <1>9 DEF Recover, ResetApiState, ReplaceCredential
<1>10. CASE Tick \/ ClockStepsBack \/ UNCHANGED vars
  BY <1>10 DEF Tick, ClockStepsBack, vars
<1>11. CASE PowerLoss
  BY <1>0, <1>11 DEF PowerLoss
<1> QED BY <1>4, <1>5, <1>6, <1>7, <1>8, <1>9, <1>10, <1>11 DEF Next, Gate, Advance, Switch

\* At any moment one process at most, over all interfaces, is between the gate and
\* the answer, and none takes the global lock into Docker or tunnel work.
THEOREM OneGenerator == Spec => []GeneratorSerialised
<1>1. Init => LockHeld
  BY LedgerConstants DEF Init, LockHeld, Holding
<1>2. Spec => []LockHeld
  BY <1>1, LockStep, TypeInvariance, PTL DEF Spec
<1>3. LockHeld => GeneratorSerialised
  BY DEF LockHeld, GeneratorSerialised, Holding
<1> QED BY <1>2, <1>3, PTL

(* ----------------------- the crowd of exclusions ----------------------- *)

\* The servers excluded since x, and the attempts booked since x.
Since(l, x) == {s \in Servers : l.excluded[s] # 0 /\ x + SixHours <= l.excluded[s]}
BookedSince(l, x) == {b \in l.attempts : x <= b.at}

\* Each exclusion was made by a booked attempt of its own, except for k whose
\* attempt may be older than the exclusion: of what a ledger remembers, since any
\* time of the last Day no more than k servers were excluded without a booking.
Spare(l, k) ==
  \A x \in Int : l.observed < x + Day =>
    Cardinality(Since(l, x)) <= Cardinality(BookedSince(l, x)) + k

Crowd(l, k) ==
  /\ l \in Ledger
  /\ IsFiniteSet(l.attempts)
  /\ IsFiniteSet({s \in Servers : l.excluded[s] # 0})
  /\ \A s \in Servers : l.excluded[s] <= l.observed + SixHours
  /\ Spare(l, k)

\* The counted sets are finite.
LEMMA CrowdFinite ==
  ASSUME NEW l, NEW k, Crowd(l, k), NEW x \in Int
  PROVE  /\ IsFiniteSet(Since(l, x)) /\ IsFiniteSet(BookedSince(l, x))
         /\ Cardinality(Since(l, x)) \in Nat /\ Cardinality(BookedSince(l, x)) \in Nat
         /\ Cardinality(l.attempts) \in Nat
         /\ Cardinality(BookedSince(l, x)) <= Cardinality(l.attempts)
<1>1. /\ Since(l, x) \in SUBSET {s \in Servers : l.excluded[s] # 0}
      /\ BookedSince(l, x) \in SUBSET l.attempts
  BY DEF Since, BookedSince
<1> QED BY <1>1, FS_Subset, FS_CardinalityType DEF Crowd

\* m comes from l by the passing of time and the removal of exclusions.
Wanes(l, m) ==
  /\ l.observed <= m.observed
  /\ IsFiniteSet(m.attempts)
  /\ \A b \in l.attempts : m.observed - b.at < Day => b \in m.attempts
  /\ \A s \in Servers : m.excluded[s] \in {0, l.excluded[s]}

\* Time takes an exclusion no later than the booking it came from.
LEMMA CrowdWanes ==
  ASSUME NEW l, NEW k \in Nat, Crowd(l, k), NEW m \in Ledger, Wanes(l, m)
  PROVE  Crowd(m, k)
<1>1. /\ l \in Ledger /\ l.observed \in Nat /\ m.observed \in Nat
      /\ \A s \in Servers : l.excluded[s] \in Nat /\ m.excluded[s] \in Nat
      /\ \A b \in l.attempts \cup m.attempts : b.at \in Nat
  BY DEF Crowd, Ledger, Booking
<1>2. \A s \in Servers : m.excluded[s] <= m.observed + SixHours
  BY <1>1, ConstantNats DEF Crowd, Wanes
<1>3. IsFiniteSet({s \in Servers : m.excluded[s] # 0})
  <2>1. {s \in Servers : m.excluded[s] # 0} \in SUBSET {s \in Servers : l.excluded[s] # 0}
    BY DEF Wanes
  <2> QED BY <2>1, FS_Subset DEF Crowd
<1>4. ASSUME NEW x \in Int, m.observed < x + Day
      PROVE  Cardinality(Since(m, x)) <= Cardinality(BookedSince(m, x)) + k
  <2>1. l.observed < x + Day
    BY <1>1, <1>4, ConstantNats DEF Wanes
  <2>2. Since(m, x) \in SUBSET Since(l, x)
    BY DEF Since, Wanes
  <2>3. BookedSince(l, x) \in SUBSET BookedSince(m, x)
    BY <1>1, <1>4, ConstantNats DEF BookedSince, Wanes
  <2>4. IsFiniteSet(BookedSince(m, x))
    <3>1. BookedSince(m, x) \in SUBSET m.attempts
      BY DEF BookedSince
    <3> QED BY <3>1, FS_Subset DEF Wanes
  <2>5. /\ Cardinality(Since(m, x)) <= Cardinality(Since(l, x))
        /\ Cardinality(BookedSince(l, x)) <= Cardinality(BookedSince(m, x))
    BY <2>2, <2>3, <2>4, CrowdFinite, FS_Subset
  <2>6. /\ Cardinality(Since(m, x)) \in Nat /\ Cardinality(Since(l, x)) \in Nat
        /\ Cardinality(BookedSince(l, x)) \in Nat /\ Cardinality(BookedSince(m, x)) \in Nat
    BY <2>2, <2>4, CrowdFinite, FS_Subset, FS_CardinalityType
  <2>7. Cardinality(Since(l, x)) <= Cardinality(BookedSince(l, x)) + k
    BY <2>1 DEF Crowd, Spare
  <2> QED BY <2>5, <2>6, <2>7
<1> QED BY <1>2, <1>3, <1>4 DEF Crowd, Spare, Wanes

\* Room for one more is room.
LEMMA CrowdWeaker ==
  ASSUME NEW l, Crowd(l, 0) PROVE Crowd(l, 1)
<1>1. ASSUME NEW x \in Int, l.observed < x + Day
      PROVE  Cardinality(Since(l, x)) <= Cardinality(BookedSince(l, x)) + 1
  <2>1. Cardinality(Since(l, x)) <= Cardinality(BookedSince(l, x)) + 0
    BY <1>1 DEF Crowd, Spare
  <2> QED BY <2>1, CrowdFinite
<1> QED BY <1>1 DEF Crowd, Spare

\* A booking makes room for an exclusion.
LEMMA CrowdBooks ==
  ASSUME NEW l, Crowd(l, 1), NEW m \in Ledger, NEW new,
         new \notin l.attempts, new.at = l.observed,
         m.observed = l.observed, m.attempts = l.attempts \cup {new}, m.excluded = l.excluded
  PROVE  Crowd(m, 0)
<1>1. l.observed \in Nat /\ \A s \in Servers : l.excluded[s] \in Nat
  BY DEF Crowd, Ledger
<1>2. IsFiniteSet(m.attempts)
  BY FS_AddElement DEF Crowd
<1>3. ASSUME NEW x \in Int, m.observed < x + Day
      PROVE  Cardinality(Since(m, x)) <= Cardinality(BookedSince(m, x)) + 0
  <2>1. Since(m, x) = Since(l, x)
    BY DEF Since
  <2>2. CASE x <= l.observed
    <3>1. BookedSince(m, x) = BookedSince(l, x) \cup {new} /\ new \notin BookedSince(l, x)
      BY <2>2 DEF BookedSince
    <3>2. Cardinality(BookedSince(m, x)) = Cardinality(BookedSince(l, x)) + 1
      BY <3>1, CrowdFinite, FS_AddElement
    <3>3. Cardinality(Since(l, x)) <= Cardinality(BookedSince(l, x)) + 1
      BY <1>3 DEF Crowd, Spare
    <3> QED BY <2>1, <3>2, <3>3, CrowdFinite
  <2>3. CASE ~(x <= l.observed)
    <3>1. Since(l, x) = {}
      BY <1>1, <2>3, ConstantNats DEF Since, Crowd
    <3>2. BookedSince(m, x) \in SUBSET m.attempts
      BY DEF BookedSince
    <3>3. Cardinality(BookedSince(m, x)) \in Nat
      BY <1>2, <3>2, FS_Subset, FS_CardinalityType
    <3> QED BY <2>1, <3>1, <3>3, FS_EmptySet
  <2> QED BY <2>2, <2>3
<1> QED BY <1>2, <1>3 DEF Crowd, Spare

\* A set with at most one element more.
LEMMA OneMore ==
  ASSUME NEW S, IsFiniteSet(S), NEW s, NEW T, T \subseteq S \cup {s}
  PROVE  Cardinality(T) \in Nat /\ Cardinality(T) <= Cardinality(S) + 1
<1> DEFINE U == S \cup {s}
<1>1. Cardinality(S) \in Nat
  BY FS_CardinalityType
<1>2. IsFiniteSet(U) /\ (Cardinality(U) = Cardinality(S) \/ Cardinality(U) = Cardinality(S) + 1)
  BY FS_AddElement
<1>3. T \in SUBSET U
  OBVIOUS
<1> HIDE DEF U
<1>4. Cardinality(T) \in Nat /\ Cardinality(T) <= Cardinality(U)
  BY <1>2, <1>3, FS_Subset, FS_CardinalityType
<1> QED BY <1>1, <1>2, <1>4

\* m comes from l by the passing of time and the exclusion of s.
Excludes(l, m, s) ==
  /\ l.observed <= m.observed
  /\ IsFiniteSet(m.attempts)
  /\ \A b \in l.attempts : m.observed - b.at < Day => b \in m.attempts
  /\ m.excluded[s] = m.observed + SixHours
  /\ \A t \in Servers \ {s} : m.excluded[t] \in {0, l.excluded[t]}

\* The exclusion takes the booking's room, or that of the earlier exclusion of
\* the same server.
LEMMA CrowdExcludes ==
  ASSUME NEW l, NEW s \in Servers, NEW m \in Ledger, Excludes(l, m, s),
         \/ Crowd(l, 0)
         \/ Crowd(l, 1) /\ l.excluded[s] = l.observed + SixHours
  PROVE  Crowd(m, 1)
<1>1. /\ l \in Ledger /\ l.observed \in Nat /\ m.observed \in Nat
      /\ \A t \in Servers : l.excluded[t] \in Nat /\ m.excluded[t] \in Nat
      /\ \A b \in l.attempts \cup m.attempts : b.at \in Nat
  BY DEF Crowd, Ledger, Booking
<1>2. \A t \in Servers : m.excluded[t] <= m.observed + SixHours
  <2>1. \A t \in Servers : l.excluded[t] <= l.observed + SixHours
    BY DEF Crowd
  <2> QED BY <1>1, <2>1, ConstantNats DEF Excludes
<1>3. IsFiniteSet({t \in Servers : m.excluded[t] # 0})
  <2> DEFINE old == {t \in Servers : l.excluded[t] # 0}
  <2>1. IsFiniteSet(old)
    BY DEF Crowd
  <2>2. {t \in Servers : m.excluded[t] # 0} \in SUBSET (old \cup {s})
    BY DEF Excludes
  <2> HIDE DEF old
  <2> QED BY <2>1, <2>2, FS_AddElement, FS_Subset
<1>4. ASSUME NEW x \in Int, m.observed < x + Day
      PROVE  Cardinality(Since(m, x)) <= Cardinality(BookedSince(m, x)) + 1
  <2>1. l.observed < x + Day
    BY <1>1, <1>4, ConstantNats DEF Excludes
  <2>2. BookedSince(l, x) \in SUBSET BookedSince(m, x)
    BY <1>1, <1>4, ConstantNats DEF BookedSince, Excludes
  <2>3. IsFiniteSet(BookedSince(m, x)) /\ Cardinality(BookedSince(m, x)) \in Nat
    <3>1. BookedSince(m, x) \in SUBSET m.attempts
      BY DEF BookedSince
    <3> QED BY <3>1, FS_Subset, FS_CardinalityType DEF Excludes
  <2>4. /\ IsFiniteSet(Since(l, x)) /\ Cardinality(Since(l, x)) \in Nat
        /\ Cardinality(BookedSince(l, x)) \in Nat
    BY CrowdFinite
  <2>5. Cardinality(BookedSince(l, x)) <= Cardinality(BookedSince(m, x))
    BY <2>2, <2>3, FS_Subset
  <2>6. Since(m, x) \in SUBSET (Since(l, x) \cup {s})
    BY DEF Since, Excludes
  <2>7. CASE Crowd(l, 0)
    <3>1. Cardinality(Since(l, x)) <= Cardinality(BookedSince(l, x)) + 0
      BY <2>1, <2>7 DEF Crowd, Spare
    <3>2. /\ Cardinality(Since(m, x)) <= Cardinality(Since(l, x)) + 1
          /\ Cardinality(Since(m, x)) \in Nat
      BY <2>4, <2>6, OneMore
    <3> QED BY <2>3, <2>4, <2>5, <3>1, <3>2
  <2>8. CASE Crowd(l, 1) /\ l.excluded[s] = l.observed + SixHours /\ x <= l.observed
    <3>1. s \in Since(l, x)
      <4>1. l.observed + SixHours # 0 /\ x + SixHours <= l.observed + SixHours
        BY <1>1, <2>8, LedgerConstants
      <4> QED BY <2>8, <4>1 DEF Since
    <3>2. Since(m, x) \in SUBSET Since(l, x)
      BY <2>6, <3>1
    <3>3. /\ Cardinality(Since(m, x)) <= Cardinality(Since(l, x))
          /\ Cardinality(Since(m, x)) \in Nat
      BY <2>4, <3>2, FS_Subset, FS_CardinalityType
    <3>4. Cardinality(Since(l, x)) <= Cardinality(BookedSince(l, x)) + 1
      BY <2>1, <2>8 DEF Crowd, Spare
    <3> QED BY <2>3, <2>4, <2>5, <3>3, <3>4
  <2>9. CASE Crowd(l, 1) /\ ~(x <= l.observed)
    <3>1. Since(l, x) = {}
      BY <1>1, <2>9, ConstantNats DEF Since, Crowd
    <3>2. Cardinality(Since(m, x)) <= Cardinality({}) + 1 /\ Cardinality(Since(m, x)) \in Nat
      BY <2>6, <3>1, FS_EmptySet, OneMore
    <3> QED BY <2>3, <3>2, FS_EmptySet
  <2> QED BY <2>7, <2>8, <2>9
<1> QED BY <1>2, <1>3, <1>4 DEF Crowd, Spare, Excludes

\* There is room for the server of a booked attempt.
LEMMA RoomForOne ==
  ASSUME NEW l, Crowd(l, 0), Cardinality(l.attempts) <= MaxAttempts
  PROVE  Cardinality(Live(l)) < MaxExclusions
<1> DEFINE x == l.observed + 1 - SixHours
<1>1. l.observed \in Nat /\ \A s \in Servers : l.excluded[s] \in Nat
  BY DEF Crowd, Ledger
<1>2. x \in Int /\ x + SixHours = l.observed + 1 /\ l.observed < x + Day
  BY <1>1, ConstantNats, LedgerConstants
<1>3. Live(l) \in SUBSET Since(l, x)
  BY <1>1, <1>2 DEF Live, Since
<1> HIDE DEF x
<1>4. Cardinality(Live(l)) <= Cardinality(Since(l, x)) /\ Cardinality(Live(l)) \in Nat
  BY <1>2, <1>3, CrowdFinite, FS_Subset, FS_CardinalityType
<1>5. Cardinality(Since(l, x)) <= Cardinality(BookedSince(l, x)) + 0
  BY <1>2 DEF Crowd, Spare
<1> QED BY <1>2, <1>4, <1>5, CrowdFinite, ConstantNats, LedgerConstants

\* There is room to prolong the exclusion of a trial, or it has ended with
\* every earlier one.
LEMMA RoomForTrial ==
  ASSUME NEW l, Crowd(l, 1), NEW s \in Servers, l.excluded[s] = l.observed + SixHours,
         NEW now \in Nat, l.observed <= now
  PROVE  s \in Live(Prune(l, now)) \/ Cardinality(Live(Prune(l, now))) < MaxExclusions
<1>1. l \in Ledger /\ l.observed \in Nat /\ \A t \in Servers : l.excluded[t] \in Nat
  BY DEF Crowd, Ledger
<1>2. /\ Prune(l, now).observed = now
      /\ \A t \in Servers : Prune(l, now).excluded[t] = IF l.excluded[t] > now THEN l.excluded[t] ELSE 0
  BY <1>1, PruneTyped
<1>3. CASE l.excluded[s] > now
  BY <1>2, <1>3 DEF Live
<1>4. CASE ~(l.excluded[s] > now)
  <2>1. \A t \in Servers : ~(l.excluded[t] > now)
    BY <1>1, <1>4, ConstantNats DEF Crowd
  <2>2. Live(Prune(l, now)) = {}
    BY <1>2, <2>1 DEF Live
  <2> QED BY <2>2, FS_EmptySet, LedgerConstants
<1> QED BY <1>3, <1>4

(* ------------------------------ promises ------------------------------- *)

Promises == [avoid : [Servers -> Nat], hold : Nat, retryAt : Nat]

\* A ledger remembers what a promise p demands for as long as it demands it.
Kept(l, p) ==
  /\ p.hold > l.observed => l.class \in {"rate", "transient"} /\ p.hold <= l.backoff
  /\ \A s \in Servers : p.avoid[s] > l.observed => p.avoid[s] <= l.excluded[s]

Good(l, p) == Crowd(l, 1) /\ Kept(l, p)

\* What holds of one interface: its step, its ledgers, its server, its promises.
\* From the gate on no hold runs, from the selection on its server may be used,
\* and from the booking on the exclusion of that server has room.
Promise(step, m, f, s, srv, p) ==
  /\ Good(f, p) /\ Good(s, p)
  /\ step \notin {"idle", "waiting"} => Good(m, p)
  /\ step \in Holding => p.hold <= m.observed
  /\ step \in {"selected", "booked", "calling"} => p.avoid[srv] <= m.observed
  /\ step \in {"booked", "calling", "answered"} => Crowd(m, 0)
  /\ step = "trial" => m.excluded[srv] = m.observed + SixHours

PromiseOf(i) == Promise(pc[i], mem[i], file[i], synced[i], run[i].server, promised[i])

HInv == \A i \in Ifaces : PromiseOf(i)

(* --- what the ledger operations do to a crowd and a promise --- *)

\* The ledger of a missing file promises nothing.
LEMMA EmptyGood == Good(EmptyLedger, NoPromise)
<1> DEFINE e == EmptyLedger
<1>1. /\ e \in Ledger /\ e.observed = 0 /\ e.attempts = {} /\ \A s \in Servers : e.excluded[s] = 0
  BY EmptyTyped DEF EmptyLedger
<1> HIDE DEF e
<1>2. \A x \in Int : Since(e, x) = {} /\ BookedSince(e, x) = {}
  BY <1>1 DEF Since, BookedSince
<1>3. {s \in Servers : e.excluded[s] # 0} = {}
  BY <1>1
<1>4. Crowd(e, 1)
  BY <1>1, <1>2, <1>3, ConstantNats, FS_EmptySet DEF Crowd, Spare
<1>5. Kept(e, NoPromise)
  BY <1>1 DEF Kept, NoPromise
<1> QED BY <1>4, <1>5 DEF Good, e

\* A ledger that loses its promise, or only its hold.
LEMMA KeptNothing ==
  ASSUME NEW l \in Ledger PROVE Kept(l, NoPromise)
  BY DEF Kept, NoPromise, Ledger

\* managed_api_state_prune keeps the crowd within its bookings.
LEMMA PruneCrowd ==
  ASSUME NEW l, NEW k \in Nat, Crowd(l, k), NEW now \in Nat, l.observed <= now
  PROVE  Crowd(Prune(l, now), k)
<1> DEFINE m == Prune(l, now)
<1>0. l \in Ledger
  BY DEF Crowd
<1>a. /\ m \in Ledger /\ m.observed = now
      /\ m.attempts = {b \in l.attempts : now - b.at < Day}
      /\ \A s \in Servers : m.excluded[s] = IF l.excluded[s] > now THEN l.excluded[s] ELSE 0
  BY <1>0, PruneTyped
<1>1. \A s \in Servers : m.excluded[s] \in {0, l.excluded[s]}
  BY <1>a
<1> HIDE DEF m
<1>2. IsFiniteSet(m.attempts)
  <2>1. m.attempts \in SUBSET l.attempts
    BY <1>a
  <2> QED BY <2>1, FS_Subset DEF Crowd
<1>3. Wanes(l, m)
  BY <1>a, <1>1, <1>2 DEF Wanes
<1> QED BY <1>a, <1>3, CrowdWanes DEF m

\* managed_api_state_prune drops only what is no longer promised.
LEMMA PruneKept ==
  ASSUME NEW l \in Ledger, NEW p \in Promises, Kept(l, p), NEW now \in Nat, l.observed <= now
  PROVE  Kept(Prune(l, now), p)
<1> DEFINE m == Prune(l, now)
<1>1. /\ m.observed = now /\ m.class = l.class /\ m.backoff = l.backoff
      /\ \A s \in Servers : m.excluded[s] = IF l.excluded[s] > now THEN l.excluded[s] ELSE 0
  BY PruneTyped
<1> HIDE DEF m
<1>2. l.observed \in Nat /\ p.hold \in Nat
  BY DEF Ledger, Promises
<1>3. ASSUME NEW s \in Servers, p.avoid[s] > now PROVE p.avoid[s] <= m.excluded[s]
  <2>1. p.avoid[s] \in Nat /\ l.excluded[s] \in Nat
    BY DEF Ledger, Promises
  <2>2. p.avoid[s] <= l.excluded[s]
    BY <1>2, <1>3, <2>1 DEF Kept
  <2> QED BY <1>1, <1>3, <2>1, <2>2
<1>4. p.hold > now => m.class \in {"rate", "transient"} /\ p.hold <= m.backoff
  BY <1>1, <1>2 DEF Kept
<1> QED BY <1>1, <1>3, <1>4 DEF Kept, m

\* The crowd is a matter of the bookings and exclusions alone.
LEMMA SameCrowd ==
  ASSUME NEW l, NEW k \in Nat, Crowd(l, k), NEW m \in Ledger,
         m.observed = l.observed, m.attempts = l.attempts, m.excluded = l.excluded
  PROVE  Crowd(m, k)
<1>1. l.observed \in Nat /\ \A b \in l.attempts : b.at \in Nat
  BY DEF Crowd, Ledger, Booking
<1>2. Wanes(l, m)
  BY <1>1 DEF Wanes, Crowd
<1> QED BY <1>2, CrowdWanes

\* An exclusion for which there is room: it stands, and the other promises do.
LEMMA ExclusionGood ==
  ASSUME NEW l, NEW s \in Servers, NEW now \in Nat, l.observed <= now,
         \/ Crowd(l, 0) /\ Cardinality(l.attempts) <= MaxAttempts
         \/ Crowd(l, 1) /\ l.excluded[s] = l.observed + SixHours,
         NEW m \in Excluding(l, s, now)
  PROVE  /\ m \in Ledger /\ m.observed = now /\ m.class = l.class /\ m.backoff = l.backoff
         /\ m.excluded[s] = now + SixHours
         /\ \A t \in Servers \ {s} : m.excluded[t] = Prune(l, now).excluded[t]
         /\ Crowd(m, 1)
<1> DEFINE q == Prune(l, now)
<1>0. l \in Ledger
  BY DEF Crowd
<1>1. /\ q \in Ledger /\ q.observed = now
      /\ q.attempts = {b \in l.attempts : now - b.at < Day}
      /\ \A t \in Servers : q.excluded[t] \in {0, l.excluded[t]}
  BY <1>0, PruneTyped
<1>2. IsFiniteSet(q.attempts)
  <2>1. q.attempts \in SUBSET l.attempts
    BY <1>1
  <2> QED BY <2>1, FS_Subset DEF Crowd
<1>3. s \in Live(q) \/ Cardinality(Live(q)) < MaxExclusions
  <2>1. CASE Crowd(l, 0) /\ Cardinality(l.attempts) <= MaxAttempts
    <3>1. Crowd(q, 0)
      BY <2>1, PruneCrowd
    <3>2. q.attempts \in SUBSET l.attempts
      BY <1>1
    <3>3. /\ Cardinality(q.attempts) <= Cardinality(l.attempts)
          /\ Cardinality(q.attempts) \in Nat /\ Cardinality(l.attempts) \in Nat
      BY <1>2, <3>2, FS_Subset, FS_CardinalityType DEF Crowd
    <3>4. Cardinality(q.attempts) <= MaxAttempts
      BY <2>1, <3>3, ConstantNats
    <3> HIDE DEF q
    <3> QED BY <3>1, <3>4, RoomForOne
  <2>2. CASE Crowd(l, 1) /\ l.excluded[s] = l.observed + SixHours
    BY <2>2, RoomForTrial
  <2> QED BY <2>1, <2>2
<1>4. /\ m \in Ledger /\ m.observed = now /\ m.class = l.class /\ m.backoff = l.backoff
      /\ m.attempts = q.attempts /\ m.excluded[s] = now + SixHours
      /\ \A t \in Servers \ {s} : m.excluded[t] = q.excluded[t]
  BY <1>0, <1>3, ExcludingTyped
<1> HIDE DEF q
<1>5. Excludes(l, m, s)
  BY <1>1, <1>2, <1>4 DEF Excludes
<1>6. Crowd(m, 1)
  BY <1>4, <1>5, CrowdExcludes
<1> QED BY <1>4, <1>6 DEF q

(* --- the steps --- *)

\* Nothing of the other interfaces changes.
Outside(i) ==
  \A j \in Ifaces \ {i} :
    /\ pc'[j] = pc[j] /\ mem'[j] = mem[j] /\ file'[j] = file[j] /\ synced'[j] = synced[j]
    /\ run'[j] = run[j] /\ promised'[j] = promised[j]

\* A step of one interface is judged on that interface.
LEMMA OnePromise ==
  ASSUME HInv, NEW i \in Ifaces, Outside(i), PromiseOf(i)'
  PROVE  HInv'
  BY DEF HInv, Outside, PromiseOf

\* Whatever the step, the promises are numbers and the files keep them.
LEMMA AtPromise ==
  ASSUME TypeInv, HInv, NEW i \in Ifaces
  PROVE  /\ promised[i] \in Promises /\ DOMAIN promised[i].avoid = Servers
         /\ Good(file[i], promised[i]) /\ Good(synced[i], promised[i])
         /\ pc[i] \notin {"idle", "waiting"} => Good(mem[i], promised[i])
         /\ pc[i] \in Holding => promised[i].hold <= mem[i].observed
         /\ pc[i] \in {"selected", "booked", "calling"} =>
              promised[i].avoid[run[i].server] <= mem[i].observed
         /\ pc[i] \in {"booked", "calling", "answered"} => Crowd(mem[i], 0)
         /\ pc[i] = "trial" => mem[i].excluded[run[i].server] = mem[i].observed + SixHours
         /\ Cardinality(mem[i].attempts) <= MaxAttempts
<1>1. promised[i] \in Promises /\ DOMAIN promised[i].avoid = Servers
  BY DEF TypeInv, Surroundings, Promises
<1>2. Cardinality(mem[i].attempts) <= MaxAttempts
  BY AtWork DEF Sound
<1>3. PromiseOf(i)
  BY DEF HInv
<1> QED BY <1>1, <1>2, <1>3 DEF PromiseOf, Promise

\* A write of a ledger that keeps the promises; if it fails they are the old ones.
LEMMA PersistGood ==
  ASSUME TypeInv, NEW i \in Ifaces, NEW l, NEW ok \in BOOLEAN, Persist(i, l, ok),
         NEW p, Good(l, p), ok \/ (Good(file[i], p) /\ Good(synced[i], p))
  PROVE  /\ Good(file'[i], p) /\ Good(synced'[i], p)
         /\ \A j \in Ifaces \ {i} : file'[j] = file[j] /\ synced'[j] = synced[j]
<1>1. Shapes
  BY DEF TypeInv, IInv
<1> QED BY <1>1, PersistWrites

\* A process ends.
LEMMA EndsGood ==
  ASSUME TypeInv, HInv, NEW i \in Ifaces, Finish(i),
         \A j \in Ifaces \ {i} :
           file'[j] = file[j] /\ synced'[j] = synced[j] /\ promised'[j] = promised[j],
         Good(file'[i], promised'[i]), Good(synced'[i], promised'[i])
  PROVE  HInv'
<1>1. Outside(i) /\ pc'[i] = "idle"
  BY AtWork DEF Outside, Finish, Goto, Remember
<1>2. PromiseOf(i)'
  BY <1>1 DEF PromiseOf, Promise, Holding
<1> QED BY <1>1, <1>2, OnePromise

\* A process ends and has written nothing.
LEMMA EndsQuietly ==
  ASSUME TypeInv, HInv, NEW i \in Ifaces, Finish(i), UNCHANGED <<file, synced, promised>>
  PROVE  HInv'
  BY AtPromise, EndsGood

\* A process moves on, with a ledger in memory.
LEMMA MovesGood ==
  ASSUME TypeInv, HInv, NEW i \in Ifaces, NEW next \in Steps, NEW l,
         Goto(i, next), Remember(i, l), UNCHANGED run,
         \A j \in Ifaces \ {i} :
           file'[j] = file[j] /\ synced'[j] = synced[j] /\ promised'[j] = promised[j],
         Promise(next, l, file'[i], synced'[i], run[i].server, promised'[i])
  PROVE  HInv'
<1>1. Outside(i) /\ pc'[i] = next /\ mem'[i] = l
  BY AtWork DEF Outside, Goto, Remember
<1>2. PromiseOf(i)'
  BY <1>1 DEF PromiseOf
<1> QED BY <1>1, <1>2, OnePromise

\* What the gate loads keeps the promises.
LEMMA LoadedGood ==
  ASSUME TypeInv, HInv, NEW i \in Ifaces, clock >= file[i].observed
  PROVE  Good(Loaded(i), promised[i])
<1> DEFINE f == file[i]
           q == Prune(f, clock)
           c == run[i].credential
           p == promised[i]
<1>1. /\ f \in Ledger /\ f.observed <= clock /\ clock \in Nat /\ Good(f, p)
      /\ p \in Promises /\ c \in Credentials \cup {None} /\ f.observed \in Nat
  BY AtWork, AtPromise DEF Ledger
<1>2. q \in Ledger /\ Crowd(q, 1) /\ Kept(q, p)
  <2> HIDE DEF f, c, p
  <2> QED BY <1>1, PruneTyped, PruneCrowd, PruneKept DEF Good
<1> DEFINE l == Identify(q, c)
<1>3. l = Loaded(i)
  BY DEF Loaded
<1> HIDE DEF f, q, c, p
<1>4. /\ l \in Ledger /\ l.observed = q.observed /\ l.attempts = q.attempts
      /\ l.excluded = q.excluded
      /\ q.class \notin Suppressions => l.class = q.class /\ l.backoff = q.backoff
  BY <1>1, <1>2, IdentifyTyped
<1> HIDE DEF l
<1>5. Crowd(l, 1)
  BY <1>2, <1>4, SameCrowd
<1>6. Kept(l, p)
  BY <1>2, <1>4 DEF Kept, Suppressions
<1> QED BY <1>3, <1>5, <1>6 DEF Good, p

\* The gate lets no process pass while a hold runs.
LEMMA GateKeeps ==
  ASSUME TypeInv, HInv, NEW i \in Ifaces, Gate(i)
  PROVE  HInv'
<1>1. CASE GateRefuses(i)
  BY <1>1, EndsQuietly DEF GateRefuses, ghosts
<1>2. CASE GateHolds(i)
  <2>1. /\ clock >= file[i].observed /\ Finish(i) /\ promised' = promised
        /\ \E ok \in BOOLEAN : Persist(i, Loaded(i), ok)
    BY <1>2 DEF GateHolds, ghosts
  <2>2. PICK ok \in BOOLEAN : Persist(i, Loaded(i), ok)
    BY <2>1
  <2>3. Good(Loaded(i), promised[i]) /\ Good(file[i], promised[i]) /\ Good(synced[i], promised[i])
    BY <2>1, LoadedGood, AtPromise
  <2>4. /\ Good(file'[i], promised[i]) /\ Good(synced'[i], promised[i])
        /\ \A j \in Ifaces \ {i} : file'[j] = file[j] /\ synced'[j] = synced[j]
    BY <2>2, <2>3, PersistGood
  <2> QED BY <2>1, <2>4, EndsGood
<1>3. CASE GatePasses(i)
  <2>1. /\ clock >= file[i].observed /\ UNCHANGED <<run, file, synced, promised>>
        /\ Goto(i, "gated") /\ Remember(i, Loaded(i))
        /\ Allowed(Loaded(i), run[i].op = "dry-run")
    BY <1>3 DEF GatePasses, ghosts
  <2>2. Good(Loaded(i), promised[i]) /\ Loaded(i) \in Ledger
    BY <2>1, LoadedGood, LoadedTyped
  <2>3. promised[i].hold <= Loaded(i).observed
    <3> DEFINE l == Loaded(i)
               h == promised[i].hold
    <3>1. /\ l.observed \in Nat /\ l.backoff \in Nat /\ h \in Nat
          /\ h > l.observed => l.class \in {"rate", "transient"} /\ h <= l.backoff
          /\ l.backoff > l.observed => l.class \in Suppressions
      BY <2>1, <2>2, AtWork DEF Ledger, Good, Kept, Allowed
    <3> HIDE DEF l, h
    <3>2. h <= l.observed
      BY <3>1 DEF Suppressions
    <3> QED BY <3>2 DEF l, h
  <2>4. Promise("gated", Loaded(i), file'[i], synced'[i], run[i].server, promised'[i])
    BY <2>1, <2>2, <2>3, AtPromise DEF Promise
  <2> QED BY <2>1, <2>4, MovesGood DEF Steps, Holding
<1> QED BY <1>1, <1>2, <1>3 DEF Gate

\* The selector avoids every server that is to be avoided.
LEMMA SelectKeeps ==
  ASSUME TypeInv, HInv, NEW i \in Ifaces, SelectServer(i)
  PROVE  HInv'
<1>1. /\ pc[i] = "gated" /\ Goto(i, "selected") /\ UNCHANGED <<mem, file, synced, promised>>
  BY DEF SelectServer, ghosts
<1>2. PICK s \in Servers \ Live(mem[i]) : run' = [run EXCEPT ![i].server = s]
  BY DEF SelectServer
<1>3. Outside(i) /\ pc'[i] = "selected" /\ run'[i].server = s
  <2>1. run[i] \in [op : Operations, credential : Credentials \cup {None}, server : Servers \cup {None}]
    BY DEF TypeInv, Processes
  <2> QED BY <1>1, <1>2, <2>1, AtWork DEF Outside, Goto
<1>4. promised[i].avoid[s] <= mem[i].observed
  <2>1. Good(mem[i], promised[i]) /\ promised[i] \in Promises /\ mem[i] \in Ledger
    BY <1>1, AtPromise, AtWork
  <2>2. /\ promised[i].avoid[s] \in Nat /\ mem[i].excluded[s] \in Nat /\ mem[i].observed \in Nat
        /\ promised[i].avoid[s] > mem[i].observed => promised[i].avoid[s] <= mem[i].excluded[s]
        /\ ~(mem[i].excluded[s] > mem[i].observed)
    BY <1>2, <2>1 DEF Good, Kept, Promises, Ledger, Live
  <2> QED BY <2>2
<1>5. Promise("selected", mem[i], file[i], synced[i], s, promised[i])
  BY <1>1, <1>4, AtPromise DEF Promise, Holding
<1>6. PromiseOf(i)'
  BY <1>1, <1>3, <1>5 DEF PromiseOf
<1> QED BY <1>3, <1>6, OnePromise

\* A failed preflight holds the next requests, once that is recorded.
LEMMA PreflightKeeps ==
  ASSUME TypeInv, HInv, NEW i \in Ifaces, PreflightFails(i)
  PROVE  HInv'
<1> DEFINE m == mem[i]
           l == [m EXCEPT !.class = "transient", !.backoff = Now(i) + FiveMinutes]
           p == promised[i]
<1>1. /\ pc[i] = "gated" /\ Finish(i)
      /\ \E ok \in BOOLEAN :
           /\ Persist(i, l, ok)
           /\ promised' = IF ok THEN [promised EXCEPT ![i].hold = l.backoff] ELSE promised
  BY DEF PreflightFails
<1>2. PICK ok \in BOOLEAN :
        /\ Persist(i, l, ok)
        /\ promised' = IF ok THEN [promised EXCEPT ![i].hold = l.backoff] ELSE promised
  BY <1>1
<1>3. /\ m \in Ledger /\ p \in Promises /\ Good(m, p) /\ p.hold <= m.observed
      /\ m.observed \in Nat
  BY <1>1, AtPromise, AtWork DEF Holding
<1>4. /\ l \in Ledger /\ l.observed = m.observed /\ l.attempts = m.attempts
      /\ l.excluded = m.excluded /\ l.class = "transient" /\ l.backoff \in Nat
  <2>1. Now(i) + FiveMinutes \in Nat
    BY <1>3, ConstantNats DEF Now
  <2> HIDE DEF m
  <2> QED BY <1>3, <2>1 DEF Ledger, Outcomes
<1> HIDE DEF l
<1>5. \A j \in Ifaces \ {i} : promised'[j] = promised[j]
  BY <1>2, AtWork
<1>6. /\ ok => promised'[i].hold = l.backoff /\ promised'[i].avoid = p.avoid
      /\ ~ok => promised'[i] = p
  BY <1>2, <1>3, AtWork DEF Promises
<1> HIDE DEF m, p
<1>7. Crowd(l, 1)
  BY <1>3, <1>4, SameCrowd DEF Good
<1>8. Kept(l, promised'[i])
  <2>1. CASE ok
    BY <1>3, <1>4, <1>6, <2>1 DEF Kept, Good, Ledger
  <2>2. CASE ~ok
    BY <1>3, <1>4, <1>6, <2>2 DEF Kept, Good, Ledger, Promises
  <2> QED BY <2>1, <2>2
<1>9. ok \/ (Good(file[i], promised'[i]) /\ Good(synced[i], promised'[i]))
  BY <1>6, AtPromise DEF p
<1>10. /\ Good(file'[i], promised'[i]) /\ Good(synced'[i], promised'[i])
       /\ \A j \in Ifaces \ {i} : file'[j] = file[j] /\ synced'[j] = synced[j]
  BY <1>2, <1>7, <1>8, <1>9, PersistGood DEF Good
<1> QED BY <1>1, <1>5, <1>10, EndsGood

\* A booking makes room for the exclusion of its server.
LEMMA BookKeeps ==
  ASSUME TypeInv, HInv, NEW i \in Ifaces, Book(i)
  PROVE  HInv'
<1> DEFINE m == mem[i]
           new == [slot |-> slots[i] + 1, at |-> Now(i)]
           l == [m EXCEPT !.attempts = m.attempts \cup {new}]
           p == promised[i]
<1>1. /\ pc[i] = "selected" /\ promised' = promised
      /\ \/ Persist(i, l, TRUE) /\ Remember(i, l) /\ Goto(i, "booked") /\ UNCHANGED run
         \/ Persist(i, l, FALSE) /\ Finish(i)
  BY DEF Book
<1>2. /\ m \in Ledger /\ p \in Promises /\ Good(m, p) /\ p.hold <= m.observed
      /\ p.avoid[run[i].server] <= m.observed /\ Sound(m, slots[i]) /\ slots[i] \in Nat
  BY <1>1, AtPromise, AtWork DEF Holding
<1>3. new \in Booking /\ new.at = m.observed /\ new \notin m.attempts
  <2>1. new \in Booking /\ new.at = m.observed /\ new.slot = slots[i] + 1
    BY <1>2, AtWork DEF Booking, Now
  <2>2. \A b \in m.attempts : b.slot \in Nat /\ b.slot <= slots[i]
    BY <1>2 DEF Sound, Booking
  <2> HIDE DEF new, m
  <2> QED BY <1>2, <2>1, <2>2
<1> HIDE DEF new
<1>4. /\ l \in Ledger /\ l.observed = m.observed /\ l.attempts = m.attempts \cup {new}
      /\ l.excluded = m.excluded /\ l.class = m.class /\ l.backoff = m.backoff
  <2> HIDE DEF m
  <2> QED BY <1>2, <1>3 DEF Ledger
<1> HIDE DEF l
<1>5. Crowd(l, 0)
  <2> HIDE DEF m, p
  <2> QED BY <1>2, <1>3, <1>4, CrowdBooks DEF Good
<1>6. Good(l, p)
  BY <1>2, <1>4, <1>5, CrowdWeaker DEF Good, Kept
<1>7. Good(file[i], p) /\ Good(synced[i], p)
  BY AtPromise
<1>8. ASSUME NEW ok \in BOOLEAN, Persist(i, l, ok)
      PROVE  /\ Good(file'[i], p) /\ Good(synced'[i], p)
             /\ \A j \in Ifaces \ {i} : file'[j] = file[j] /\ synced'[j] = synced[j]
  BY <1>6, <1>7, <1>8, PersistGood
<1>9. CASE Persist(i, l, TRUE) /\ Remember(i, l) /\ Goto(i, "booked") /\ UNCHANGED run
  <2>1. Promise("booked", l, file'[i], synced'[i], run[i].server, promised'[i])
    BY <1>1, <1>2, <1>4, <1>5, <1>6, <1>8, <1>9 DEF Promise
  <2> QED BY <1>1, <1>8, <1>9, <2>1, MovesGood DEF Steps, Holding
<1>10. CASE Persist(i, l, FALSE) /\ Finish(i)
  BY <1>1, <1>8, <1>10, EndsGood
<1> QED BY <1>1, <1>9, <1>10

\* The request changes no ledger.
LEMMA CallKeeps ==
  ASSUME TypeInv, HInv, NEW i \in Ifaces, Call(i)
  PROVE  HInv'
<1>1. pc[i] = "booked" /\ Goto(i, "calling") /\ UNCHANGED <<run, mem, file, synced, promised>>
  BY DEF Call
<1>2. Outside(i) /\ pc'[i] = "calling"
  BY <1>1, AtWork DEF Outside, Goto
<1>3. PromiseOf(i)
  BY DEF HInv
<1>4. PromiseOf(i)'
  BY <1>1, <1>2, <1>3 DEF PromiseOf, Promise, Holding
<1> QED BY <1>2, <1>4, OnePromise

\* What an answer leaves: the ledger written, the promises, where the process goes.
AnswerLeaves(i, outcome, blamed, retryAt, ok, l) ==
  /\ blamed => outcome = "transient"
  /\ Answered(i, outcome, blamed, l)
  /\ Persist(i, l, ok)
  /\ promised' = [promised EXCEPT ![i] =
       [hold |-> IF ok /\ outcome \in {"rate", "transient"} THEN l.backoff ELSE promised[i].hold,
        avoid |-> IF ok /\ blamed
                    THEN [promised[i].avoid EXCEPT ![run[i].server] = clock + SixHours]
                    ELSE promised[i].avoid,
        retryAt |-> retryAt]]
  /\ \/ ok /\ outcome = "none" /\ Goto(i, "answered") /\ Remember(i, l) /\ UNCHANGED run
     \/ Finish(i)

\* An answer leaves one of these.
LEMMA AnswerFacts ==
  ASSUME TypeInv, NEW i \in Ifaces, Answer(i)
  PROVE  \E outcome \in Outcomes, blamed \in BOOLEAN, retryAt \in Nat, ok \in BOOLEAN, l \in Ledger :
           AnswerLeaves(i, outcome, blamed, retryAt, ok, l)
<1> DEFINE RetryAt(r) == IF r # 0 THEN clock + r ELSE promised[i].retryAt
           Becomes(outcome, blamed, r, ok, l) ==
             [hold |-> IF ok /\ outcome \in {"rate", "transient"} THEN l.backoff ELSE promised[i].hold,
              avoid |-> IF ok /\ blamed
                          THEN [promised[i].avoid EXCEPT ![run[i].server] = clock + SixHours]
                          ELSE promised[i].avoid,
              retryAt |-> RetryAt(r)]
           Ends(outcome, ok, l) ==
             IF ok /\ outcome = "none" /\ run[i].op = "rotate"
               THEN Goto(i, "answered") /\ Remember(i, l) /\ UNCHANGED run
               ELSE Finish(i)
<1>1. PICK outcome \in Outcomes, blamed \in BOOLEAN, retryAfter \in RetryAfters, ok \in BOOLEAN :
        /\ blamed => outcome = "transient"
        /\ outcome \in {"rate", "transient"} => Prune(mem[i], clock).attempts # {}
        /\ \E l \in Recording(Prune(mem[i], clock), outcome, run[i].server, blamed, retryAfter) :
             /\ Persist(i, l, ok)
             /\ promised' = [promised EXCEPT ![i] = Becomes(outcome, blamed, retryAfter, ok, l)]
             /\ Ends(outcome, ok, l)
  BY ZenonT(60) DEF Answer
<1>2. PICK l \in Recording(Prune(mem[i], clock), outcome, run[i].server, blamed, retryAfter) :
        /\ Persist(i, l, ok)
        /\ promised' = [promised EXCEPT ![i] = Becomes(outcome, blamed, retryAfter, ok, l)]
        /\ Ends(outcome, ok, l)
  BY <1>1
<1>3. Answered(i, outcome, blamed, l) /\ l \in Ledger
  <2>1. pc[i] = "calling" /\ clock >= Now(i)
    BY DEF Answer
  <2> QED BY <1>1, <1>2, <2>1, AnswerRecorded
<1>4. RetryAt(retryAfter) \in Nat
  <2>1. clock \in Nat /\ promised[i].retryAt \in Nat /\ retryAfter \in Nat
    BY AtWork, ConstantNats DEF TypeInv, Surroundings
  <2> QED BY <2>1
<1>5. \/ ok /\ outcome = "none" /\ Goto(i, "answered") /\ Remember(i, l) /\ UNCHANGED run
      \/ Finish(i)
  BY <1>2
<1>6. promised' = [promised EXCEPT ![i] = Becomes(outcome, blamed, retryAfter, ok, l)]
  BY <1>2
<1> HIDE DEF RetryAt, Ends
<1>7. AnswerLeaves(i, outcome, blamed, RetryAt(retryAfter), ok, l)
  BY <1>1, <1>2, <1>3, <1>5, <1>6 DEF AnswerLeaves
<1> QED BY <1>3, <1>4, <1>7

\* A recorded answer holds what it promises: the backoff, and the exclusion of a
\* blamed server, which evicts no other.
LEMMA AnswerKeeps ==
  ASSUME TypeInv, HInv, NEW i \in Ifaces, Answer(i)
  PROVE  HInv'
<1> DEFINE m == mem[i]
           q == Prune(m, clock)
           p == promised[i]
           s == run[i].server
           n == promised'[i]
<1>1. pc[i] = "calling" /\ clock >= m.observed
  BY DEF Answer, Now
<1>2. /\ m \in Ledger /\ p \in Promises /\ Kept(m, p) /\ Crowd(m, 0) /\ p.hold <= m.observed
      /\ p.avoid[s] <= m.observed /\ Cardinality(m.attempts) <= MaxAttempts
      /\ s \in Servers /\ clock \in Nat /\ m.observed \in Nat
      /\ Good(file[i], p) /\ Good(synced[i], p) /\ IsFiniteSet(m.attempts)
  BY <1>1, AtPromise, AtWork DEF Holding, Chosen, Good, Crowd
<1>3. PICK outcome \in Outcomes, blamed \in BOOLEAN, retryAt \in Nat, ok \in BOOLEAN, l \in Ledger :
        AnswerLeaves(i, outcome, blamed, retryAt, ok, l)
  BY AnswerFacts
<1>4. PICK c : /\ Classed(q, outcome, c)
               /\ IF blamed THEN l \in Excluding(c, s, clock) ELSE l = c
  BY <1>3 DEF AnswerLeaves, Answered
<1>5. /\ \A j \in Ifaces \ {i} : promised'[j] = promised[j]
      /\ n.hold = IF ok /\ outcome \in {"rate", "transient"} THEN l.backoff ELSE p.hold
      /\ n.avoid = IF ok /\ blamed THEN [p.avoid EXCEPT ![s] = clock + SixHours] ELSE p.avoid
  BY <1>3, AtWork DEF AnswerLeaves
<1> HIDE DEF m, p, s, n
<1>6. /\ q \in Ledger /\ q.observed = clock /\ Crowd(q, 0) /\ Kept(q, p)
      /\ q.attempts \in SUBSET m.attempts
      /\ \A t \in Servers : q.excluded[t] = IF m.excluded[t] > clock THEN m.excluded[t] ELSE 0
  <2>1. /\ q \in Ledger /\ q.observed = clock /\ q.attempts = {b \in m.attempts : clock - b.at < Day}
        /\ \A t \in Servers : q.excluded[t] = IF m.excluded[t] > clock THEN m.excluded[t] ELSE 0
    BY SMTT(30), <1>2, PruneTyped
  <2>2. Crowd(q, 0) /\ Kept(q, p)
    BY <1>1, <1>2, PruneCrowd, PruneKept DEF m
  <2>3. q.attempts \in SUBSET m.attempts
    BY <2>1
  <2> QED BY <2>1, <2>2, <2>3
<1> HIDE DEF q
<1>7. /\ c \in Ledger /\ c.observed = clock /\ c.attempts = q.attempts
      /\ c.excluded = q.excluded /\ c.class = outcome
  BY <1>4, <1>6 DEF Classed
<1>8. Crowd(c, 0)
  BY <1>6, <1>7, SameCrowd
<1>9. /\ l.observed = clock /\ l.class = outcome /\ Crowd(l, 1)
      /\ ~blamed => l = c
      /\ \A t \in Servers : p.avoid[t] > clock => p.avoid[t] <= l.excluded[t]
      /\ blamed => l.excluded[s] = clock + SixHours
  <2>0. \A t \in Servers : p.avoid[t] > clock => p.avoid[t] <= q.excluded[t]
    BY <1>6 DEF Kept
  <2>1. CASE blamed
    <3>1. Cardinality(c.attempts) <= MaxAttempts
      <4>1. /\ Cardinality(q.attempts) <= Cardinality(m.attempts)
            /\ Cardinality(q.attempts) \in Nat /\ Cardinality(m.attempts) \in Nat
        BY <1>2, <1>6, FS_Subset, FS_CardinalityType
      <4> QED BY <1>2, <1>7, <4>1, ConstantNats
    <3>2. /\ l.observed = clock /\ l.class = c.class /\ Crowd(l, 1)
          /\ l.excluded[s] = clock + SixHours
          /\ \A t \in Servers \ {s} : l.excluded[t] = Prune(c, clock).excluded[t]
      <4>1. l \in Excluding(c, s, clock)
        BY <1>4, <2>1, Zenon
      <4>2. c.observed <= clock
        BY <1>2, <1>7
      <4>3. s \in Servers /\ clock \in Nat
        BY <1>2
      <4> QED BY <1>8, <3>1, <4>1, <4>2, <4>3, ExclusionGood
    <3>3. \A t \in Servers : Prune(c, clock).excluded[t] = q.excluded[t]
      <4>1. \A t \in Servers : Prune(c, clock).excluded[t] =
              IF c.excluded[t] > clock THEN c.excluded[t] ELSE 0
        BY <1>2, <1>7, PruneTyped
      <4> QED BY <1>2, <1>6, <1>7, <4>1
    <3>4. ~(p.avoid[s] > clock)
      BY <1>1, <1>2, <1>7 DEF Promises, m
    <3> QED BY <1>7, <2>0, <2>1, <3>2, <3>3, <3>4
  <2>2. CASE ~blamed
    BY <1>4, <1>7, <1>8, <2>0, <2>2, CrowdWeaker
  <2> QED BY <2>1, <2>2
<1>10. Kept(l, n)
  <2>1. n.hold > clock => l.class \in {"rate", "transient"} /\ n.hold <= l.backoff
    <3>1. CASE ok /\ outcome \in {"rate", "transient"}
      BY <1>3, <1>5, <1>9, <3>1 DEF Ledger
    <3>2. CASE ~(ok /\ outcome \in {"rate", "transient"})
      BY <1>1, <1>2, <1>5, <3>2 DEF Promises, m
    <3> QED BY <3>1, <3>2
  <2>2. ASSUME NEW t \in Servers, n.avoid[t] > clock PROVE n.avoid[t] <= l.excluded[t]
    <3>1. CASE ok /\ blamed /\ t = s
      <4>1. DOMAIN p.avoid = Servers
        BY <1>2 DEF Promises
      <4>2. n.avoid[t] = clock + SixHours /\ l.excluded[t] = clock + SixHours
        BY <1>2, <1>5, <1>9, <3>1, <4>1
      <4>3. clock + SixHours \in Nat
        BY <1>2, ConstantNats
      <4> QED BY <4>2, <4>3
    <3>2. CASE ~(ok /\ blamed /\ t = s)
      <4>1. n.avoid[t] = p.avoid[t]
        BY <1>5, <3>2
      <4> QED BY <1>9, <2>2, <4>1
    <3> QED BY <3>1, <3>2
  <2> QED BY <1>9, <2>1, <2>2 DEF Kept
<1>11. Good(l, n)
  BY <1>9, <1>10 DEF Good
<1>12. ok \/ (Good(file[i], n) /\ Good(synced[i], n))
  BY <1>2, <1>5 DEF Good, Kept
<1>13. Persist(i, l, ok)
  BY <1>3 DEF AnswerLeaves
<1>14. /\ Good(file'[i], n) /\ Good(synced'[i], n)
       /\ \A j \in Ifaces \ {i} : file'[j] = file[j] /\ synced'[j] = synced[j]
  BY <1>11, <1>12, <1>13, PersistGood
<1>15. CASE ok /\ outcome = "none" /\ Goto(i, "answered") /\ Remember(i, l) /\ UNCHANGED run
  <2>1. Crowd(l, 0)
    BY <1>3, <1>8, <1>9, <1>15 DEF AnswerLeaves
  <2>2. Promise("answered", l, file'[i], synced'[i], run[i].server, n)
    BY <1>11, <1>14, <2>1 DEF Promise, Holding
  <2>3. Goto(i, "answered") /\ Remember(i, l) /\ UNCHANGED run /\ "answered" \in Steps
    BY <1>15 DEF Steps
  <2> QED BY <1>5, <1>14, <2>2, <2>3, MovesGood DEF n
<1>16. CASE Finish(i)
  BY <1>5, <1>14, <1>16, EndsGood DEF n
<1> QED BY <1>3, <1>15, <1>16 DEF AnswerLeaves

\* The lock holder's steps keep the promises.
LEMMA AdvanceKeeps ==
  ASSUME TypeInv, HInv, NEW i \in Ifaces, Advance(i)
  PROVE  HInv'
<1>1. CASE PreflightAborts(i) \/ AnswerLost(i)
  BY <1>1, EndsQuietly DEF PreflightAborts, AnswerLost, ghosts
<1> QED BY <1>1, SelectKeeps, PreflightKeeps, BookKeeps, CallKeeps, AnswerKeeps DEF Advance

\* The pre-exclusion of a trial evicts no other exclusion.
LEMMA PreexcludeKeeps ==
  ASSUME TypeInv, HInv, NEW i \in Ifaces, Preexclude(i)
  PROVE  HInv'
<1> DEFINE m == mem[i]
           p == promised[i]
           s == run[i].server
           n == promised'[i]
<1>1. pc[i] = "answered" /\ clock >= m.observed
  BY DEF Preexclude, Now
<1>2. /\ m \in Ledger /\ p \in Promises /\ Kept(m, p) /\ Crowd(m, 0)
      /\ Cardinality(m.attempts) <= MaxAttempts
      /\ s \in Servers /\ clock \in Nat /\ m.observed \in Nat
      /\ Good(file[i], p) /\ Good(synced[i], p)
      /\ DOMAIN p.avoid = Servers
  BY <1>1, AtPromise, AtWork DEF Holding, Chosen, Good
<1>3. PICK l \in Excluding(m, s, clock) :
        \/ /\ Persist(i, l, TRUE) /\ Remember(i, l) /\ Goto(i, "trial") /\ UNCHANGED run
           /\ promised' = [promised EXCEPT ![i].avoid[run[i].server] = clock + SixHours]
        \/ Persist(i, l, FALSE) /\ Finish(i) /\ UNCHANGED promised
  BY DEF Preexclude
<1> HIDE DEF m
<1>4. /\ l \in Ledger /\ l.observed = clock /\ l.class = m.class /\ l.backoff = m.backoff
      /\ l.excluded[s] = clock + SixHours
      /\ \A t \in Servers \ {s} : l.excluded[t] = Prune(m, clock).excluded[t]
      /\ Crowd(l, 1)
  <2>1. m.observed <= clock
    BY <1>1, <1>2
  <2> HIDE DEF s
  <2> QED BY <1>2, <1>3, <2>1, ExclusionGood
<1>5. /\ p.hold > clock => l.class \in {"rate", "transient"} /\ p.hold <= l.backoff
      /\ \A t \in Servers \ {s} : p.avoid[t] > clock => p.avoid[t] <= l.excluded[t]
  <2>1. Kept(Prune(m, clock), p)
    BY <1>1, <1>2, PruneKept
  <2>2. /\ Prune(m, clock).observed = clock /\ Prune(m, clock).class = m.class
        /\ Prune(m, clock).backoff = m.backoff
    BY <1>2, PruneTyped
  <2> QED BY <1>4, <2>1, <2>2 DEF Kept
<1>6. p.avoid[s] > clock => p.avoid[s] <= clock + SixHours
  <2>1. /\ m.excluded[s] <= m.observed + SixHours /\ m.excluded[s] \in Nat /\ p.avoid[s] \in Nat
        /\ p.avoid[s] > m.observed => p.avoid[s] <= m.excluded[s]
    BY <1>2 DEF Crowd, Kept, Ledger, Promises
  <2> QED BY <1>1, <1>2, <2>1, ConstantNats DEF m
<1>7. Good(l, p)
  <2> HIDE DEF s, p
  <2> QED BY <1>4, <1>5, <1>6 DEF Good, Kept
<1>8. CASE /\ Persist(i, l, TRUE) /\ Remember(i, l) /\ Goto(i, "trial") /\ UNCHANGED run
           /\ promised' = [promised EXCEPT ![i].avoid[run[i].server] = clock + SixHours]
  <2>1. /\ n.hold = p.hold /\ n.avoid = [p.avoid EXCEPT ![s] = clock + SixHours]
        /\ \A j \in Ifaces \ {i} : promised'[j] = promised[j]
    BY <1>2, <1>8, AtWork DEF Promises
  <2> HIDE DEF s, p, n
  <2>2. /\ n.avoid[s] = clock + SixHours /\ clock + SixHours \in Nat
        /\ \A t \in Servers \ {s} : n.avoid[t] = p.avoid[t]
    BY <1>2, <2>1, ConstantNats
  <2>3. Good(l, n)
    BY <1>4, <1>5, <2>1, <2>2 DEF Good, Kept
  <2>4. /\ Good(file'[i], n) /\ Good(synced'[i], n)
        /\ \A j \in Ifaces \ {i} : file'[j] = file[j] /\ synced'[j] = synced[j]
    BY <1>8, <2>3, PersistGood
  <2>5. Promise("trial", l, file'[i], synced'[i], s, n)
    BY <1>4, <2>3, <2>4 DEF Promise, Holding
  <2>6. "trial" \in Steps
    BY DEF Steps
  <2> QED BY <1>8, <2>1, <2>4, <2>5, <2>6, MovesGood DEF n, s
<1>9. CASE Persist(i, l, FALSE) /\ Finish(i) /\ UNCHANGED promised
  <2>1. /\ Good(file'[i], p) /\ Good(synced'[i], p)
        /\ \A j \in Ifaces \ {i} : file'[j] = file[j] /\ synced'[j] = synced[j]
    BY <1>2, <1>7, <1>9, PersistGood
  <2> QED BY <1>9, <2>1, EndsGood
<1> QED BY <1>3, <1>8, <1>9

\* A commit takes back its own exclusion only.
LEMMA CommitKeeps ==
  ASSUME TypeInv, HInv, NEW i \in Ifaces, SwitchCommits(i)
  PROVE  HInv'
<1> DEFINE m == mem[i]
           p == promised[i]
           s == run[i].server
           n == promised'[i]
           q == Prune(m, clock)
           l == [q EXCEPT !.excluded = [q.excluded EXCEPT ![s] = 0]]
<1>1. pc[i] = "trial" /\ Finish(i) /\ promised' = [promised EXCEPT ![i].avoid[run[i].server] = 0]
  BY DEF SwitchCommits
<1>2. /\ m \in Ledger /\ p \in Promises /\ Good(m, p)
      /\ s \in Servers /\ clock \in Nat /\ m.observed \in Nat
      /\ Good(file[i], p) /\ Good(synced[i], p)
      /\ DOMAIN p.avoid = Servers
  BY <1>1, AtPromise, AtWork DEF Chosen
<1>3. \/ clock >= m.observed /\ \E ok \in BOOLEAN : Persist(i, l, ok)
      \/ UNCHANGED <<file, synced>>
  BY DEF SwitchCommits, Now
<1>4. /\ n.hold = p.hold /\ n.avoid = [p.avoid EXCEPT ![s] = 0]
      /\ \A j \in Ifaces \ {i} : promised'[j] = promised[j]
  BY <1>1, <1>2, AtWork DEF Promises
<1> HIDE DEF m, s, p, n, l
<1>5. n.avoid[s] = 0 /\ \A t \in Servers \ {s} : n.avoid[t] = p.avoid[t]
  BY <1>2, <1>4
<1>6. ASSUME NEW f, Good(f, p) PROVE Good(f, n)
  <2>1. f.observed \in Nat
    BY <1>6 DEF Good, Crowd, Ledger
  <2> QED BY <1>4, <1>5, <1>6, <2>1 DEF Good, Kept
<1>7. ASSUME clock >= m.observed PROVE Good(l, n)
  <2>1. q \in Ledger /\ q.observed = clock /\ Crowd(q, 1) /\ Kept(q, p)
    <3>1. m.observed <= clock
      BY <1>2, <1>7
    <3> QED BY <1>2, <3>1, PruneTyped, PruneCrowd, PruneKept DEF Good
  <2> HIDE DEF q
  <2>2. [q.excluded EXCEPT ![s] = 0] \in [Servers -> Nat]
    BY <2>1 DEF Ledger
  <2>3. /\ l \in Ledger /\ l.observed = clock /\ l.attempts = q.attempts
        /\ l.class = q.class /\ l.backoff = q.backoff
        /\ l.excluded = [q.excluded EXCEPT ![s] = 0]
    BY <2>1, <2>2 DEF l, Ledger
  <2>4. l.excluded[s] = 0 /\ \A t \in Servers \ {s} : l.excluded[t] = q.excluded[t]
    BY <1>2, <2>1, <2>3 DEF Ledger
  <2>5. Wanes(q, l)
    <3>1. q.observed <= l.observed /\ IsFiniteSet(l.attempts)
      BY <1>2, <2>1, <2>3 DEF Crowd
    <3>2. \A t \in Servers : l.excluded[t] \in {0, q.excluded[t]}
      BY <2>4
    <3> QED BY <2>3, <3>1, <3>2 DEF Wanes
  <2>6. Crowd(l, 1)
    BY <2>1, <2>3, <2>5, CrowdWanes
  <2>7. Kept(l, n)
    <3>1. n.hold > clock => l.class \in {"rate", "transient"} /\ n.hold <= l.backoff
      BY <1>4, <2>1, <2>3 DEF Kept
    <3>2. \A t \in Servers : n.avoid[t] > clock => n.avoid[t] <= l.excluded[t]
      BY <1>2, <1>5, <2>1, <2>4 DEF Kept
    <3> QED BY <2>3, <3>1, <3>2 DEF Kept
  <2> QED BY <2>6, <2>7 DEF Good
<1>8. CASE clock >= m.observed /\ \E ok \in BOOLEAN : Persist(i, l, ok)
  <2>1. PICK ok \in BOOLEAN : Persist(i, l, ok)
    BY <1>8
  <2>2. /\ Good(file'[i], n) /\ Good(synced'[i], n)
        /\ \A j \in Ifaces \ {i} : file'[j] = file[j] /\ synced'[j] = synced[j]
    BY <1>2, <1>6, <1>7, <1>8, <2>1, PersistGood
  <2> QED BY <1>1, <1>4, <2>2, EndsGood DEF n
<1>9. CASE UNCHANGED <<file, synced>>
  BY <1>1, <1>2, <1>4, <1>6, <1>9, EndsGood DEF n
<1> QED BY <1>3, <1>8, <1>9

\* A failed trial prolongs its own exclusion, and evicts no other.
LEMMA FailKeeps ==
  ASSUME TypeInv, HInv, NEW i \in Ifaces, SwitchFails(i)
  PROVE  HInv'
<1> DEFINE m == mem[i]
           p == promised[i]
           s == run[i].server
           n == promised'[i]
<1>1. pc[i] = "trial" /\ Finish(i)
  BY DEF SwitchFails
<1>2. /\ m \in Ledger /\ p \in Promises /\ Good(m, p)
      /\ m.excluded[s] = m.observed + SixHours
      /\ s \in Servers /\ clock \in Nat /\ m.observed \in Nat
      /\ Good(file[i], p) /\ Good(synced[i], p)
      /\ DOMAIN p.avoid = Servers
  BY <1>1, AtPromise, AtWork DEF Chosen
<1>3. CASE ~(clock >= Now(i))
  BY <1>1, <1>3, EndsQuietly DEF SwitchFails
<1>4. CASE clock >= Now(i)
  <2>1. PICK l \in Excluding(m, s, clock), ok \in BOOLEAN :
          /\ Persist(i, l, ok)
          /\ promised' = IF ok THEN [promised EXCEPT ![i].avoid[run[i].server] = clock + SixHours]
                               ELSE promised
    BY <1>4 DEF SwitchFails
  <2>2. m.observed <= clock
    BY <1>2, <1>4 DEF Now
  <2> HIDE DEF m, s
  <2>3. /\ l \in Ledger /\ l.observed = clock /\ l.class = m.class /\ l.backoff = m.backoff
        /\ l.excluded[s] = clock + SixHours
        /\ \A t \in Servers \ {s} : l.excluded[t] = Prune(m, clock).excluded[t]
        /\ Crowd(l, 1)
    BY <1>2, <2>1, <2>2, ExclusionGood DEF Good
  <2>4. /\ p.hold > clock => l.class \in {"rate", "transient"} /\ p.hold <= l.backoff
        /\ \A t \in Servers \ {s} : p.avoid[t] > clock => p.avoid[t] <= l.excluded[t]
    <3>1. Kept(Prune(m, clock), p)
      BY <1>2, <2>2, PruneKept DEF Good
    <3>2. /\ Prune(m, clock).observed = clock /\ Prune(m, clock).class = m.class
          /\ Prune(m, clock).backoff = m.backoff
      BY <1>2, PruneTyped
    <3> QED BY <2>3, <3>1, <3>2 DEF Kept
  <2>5. p.avoid[s] > clock => p.avoid[s] <= clock + SixHours
    <3>1. /\ m.excluded[s] <= m.observed + SixHours /\ m.excluded[s] \in Nat /\ p.avoid[s] \in Nat
          /\ p.avoid[s] > m.observed => p.avoid[s] <= m.excluded[s]
      BY <1>2 DEF Good, Crowd, Kept, Ledger, Promises
    <3> QED BY <1>2, <2>2, <3>1, ConstantNats
  <2>6. /\ n.hold = p.hold /\ \A j \in Ifaces \ {i} : promised'[j] = promised[j]
        /\ n.avoid = IF ok THEN [p.avoid EXCEPT ![s] = clock + SixHours] ELSE p.avoid
        /\ ~ok => n = p
    BY <1>2, <2>1, AtWork DEF Promises, s
  <2> HIDE DEF p, n
  <2>7. /\ \A t \in Servers \ {s} : n.avoid[t] = p.avoid[t]
        /\ n.avoid[s] = clock + SixHours \/ n.avoid[s] = p.avoid[s]
        /\ clock + SixHours \in Nat
    BY <1>2, <2>6, ConstantNats
  <2>8. Good(l, n)
    BY <2>3, <2>4, <2>5, <2>6, <2>7 DEF Good, Kept
  <2>9. /\ Good(file'[i], n) /\ Good(synced'[i], n)
        /\ \A j \in Ifaces \ {i} : file'[j] = file[j] /\ synced'[j] = synced[j]
    BY <1>2, <2>1, <2>6, <2>8, PersistGood
  <2> QED BY <1>1, <2>6, <2>9, EndsGood DEF n
<1> QED BY <1>3, <1>4

\* The steps around a switch.
LEMMA SwitchKeeps ==
  ASSUME TypeInv, HInv, NEW i \in Ifaces, Switch(i)
  PROVE  HInv'
<1>1. CASE SwitchRefused(i) \/ SwitchAborts(i)
  BY <1>1, EndsQuietly DEF SwitchRefused, SwitchAborts, ghosts
<1> QED BY <1>1, PreexcludeKeeps, CommitKeeps, FailKeeps DEF Switch

\* A reset forgets the promises with the ledger.
LEMMA ResetKeeps ==
  ASSUME TypeInv, HInv, NEW i \in Ifaces, ResetApiState(i)
  PROVE  HInv'
<1>1. /\ pc[i] = "idle" /\ UNCHANGED <<pc, mem, run>>
      /\ file' = [file EXCEPT ![i] = EmptyLedger]
      /\ synced' \in {synced, [synced EXCEPT ![i] = EmptyLedger]}
      /\ promised' = [promised EXCEPT ![i] = NoPromise]
  BY DEF ResetApiState
<1>2. /\ Outside(i) /\ file'[i] = EmptyLedger /\ synced'[i] \in {synced[i], EmptyLedger}
      /\ promised'[i] = NoPromise
  BY <1>1, AtWork DEF Outside
<1>3. Good(synced[i], NoPromise)
  BY AtWork, AtPromise, KeptNothing DEF Good
<1>4. PromiseOf(i)'
  BY <1>1, <1>2, <1>3, EmptyGood DEF PromiseOf, Promise, Holding
<1> QED BY <1>2, <1>4, OnePromise

\* A power loss leaves one of two ledgers that both keep the promises.
LEMMA PowerLossKeeps ==
  ASSUME TypeInv, HInv, PowerLoss
  PROVE  HInv'
<1>1. PICK kept \in SUBSET Ifaces :
        file' = [i \in Ifaces |-> IF i \in kept THEN file[i] ELSE synced[i]]
  BY DEF PowerLoss
<1>2. synced' = file' /\ pc' = [i \in Ifaces |-> "idle"] /\ promised' = promised
  BY DEF PowerLoss, ghosts
<1>3. ASSUME NEW i \in Ifaces PROVE PromiseOf(i)'
  <2>1. /\ file'[i] \in {file[i], synced[i]} /\ synced'[i] \in {file[i], synced[i]}
        /\ pc'[i] = "idle"
    BY <1>1, <1>2
  <2> QED BY <1>2, <2>1, AtPromise DEF PromiseOf, Promise, Holding
<1> QED BY <1>3 DEF HInv

\* No step breaks a promise.
LEMMA HoldStep == TypeInv /\ HInv /\ [Next]_vars => HInv'
<1> SUFFICES ASSUME TypeInv, HInv, [Next]_vars PROVE HInv'
  OBVIOUS
<1>1. ASSUME NEW i \in Ifaces, Start(i) PROVE HInv'
  <2>1. Goto(i, "waiting") /\ UNCHANGED <<mem, file, synced, promised>>
        /\ \A j \in Ifaces \ {i} : run'[j] = run[j]
    BY <1>1, AtWork DEF Start, ghosts
  <2>2. Outside(i) /\ pc'[i] = "waiting"
    BY <2>1, AtWork DEF Outside, Goto
  <2>3. PromiseOf(i)'
    BY <2>1, <2>2, AtPromise DEF PromiseOf, Promise, Holding
  <2> QED BY <2>2, <2>3, OnePromise
<1>2. ASSUME NEW i \in Ifaces, Crash(i) PROVE HInv'
  BY <1>2, EndsQuietly DEF Crash, ghosts
<1>3. ASSUME UNCHANGED <<pc, mem, file, synced, run, promised>> PROVE HInv'
  BY <1>3 DEF HInv, PromiseOf
<1>4. ASSUME NEW i \in Ifaces, Recover(i) \/ ReplaceCredential(i) PROVE HInv'
  BY <1>3, <1>4 DEF Recover, ReplaceCredential, ghosts
<1>5. CASE Tick \/ ClockStepsBack \/ UNCHANGED vars
  BY <1>3, <1>5 DEF Tick, ClockStepsBack, vars, ghosts
<1> QED BY <1>1, <1>2, <1>4, <1>5, GateKeeps, AdvanceKeeps, SwitchKeeps, ResetKeeps,
           PowerLossKeeps DEF Next

\* Every ledger an interface can come to work with keeps every promise.
THEOREM PromisesKept == Spec => []HInv
<1>1. Init => HInv
  <2> SUFFICES ASSUME Init, NEW i \in Ifaces PROVE PromiseOf(i)
    BY DEF HInv
  <2> QED BY EmptyGood DEF Init, PromiseOf, Promise, Holding
<1> QED BY <1>1, HoldStep, TypeInvariance, PTL DEF Spec

\* No request is made, by a dry run or a changed credential either, while a rate
\* limit's, a transient failure's or a failed preflight's durable backoff runs,
\* whatever crashes, failed writes, power losses and clock steps happen.
THEOREM HoldsRespected == Spec => []HoldRespected
<1>1. TypeInv /\ HInv => HoldRespected
  BY AtPromise DEF HoldRespected, Holding, Now
<1> QED BY <1>1, TypeInvariance, PromisesKept, PTL

\* A server that a durable record says failed is not selected again before its
\* exclusion expires: the entries never outnumber the attempts of a Day by more
\* than one, so the limit on their number, larger than that on attempts, evicts none.
THEOREM FailedCandidatesHeld == Spec => []FailedCandidateHeld
<1>1. TypeInv /\ HInv => FailedCandidateHeld
  BY AtPromise DEF FailedCandidateHeld, Now
<1> QED BY <1>1, TypeInvariance, PromisesKept, PTL
=============================================================================
