-------------------------- MODULE SetupSound_proof --------------------------
(***************************************************************************)
(* Theorems about SetupApply: what every directory is worth that a failed  *)
(* call, a kill or a power loss may leave, for every set of settings, keys *)
(* and requests and every budget of faults.  The windows are closed, but   *)
(* for the one that is a single step of the environment (Shut): for it a   *)
(* theorem says instead that the step must not have happened.              *)
(*                                                                         *)
(* None of the safety properties is inductive.  They rest on one           *)
(* invariant, SInv, of five parts:                                         *)
(*   TInv     the types and the control of SetupApply_proof;               *)
(*   HostInv  of the images.  Worth: each by itself is one recovery can    *)
(*            roll back or finish.  Stands: where one image shows a static *)
(*            restoration that took place, the profiles show it and the    *)
(*            present directory leads nowhere else.  Alone: beside a       *)
(*            restoration no image would undo an adoption, which moves the *)
(*            same profiles;                                               *)
(*   RunInv   of the invocation: the record in memory is the one on disk   *)
(*            (Recorded), a rollback finds its snapshots (Backed), a       *)
(*            clean-up removes what nobody needs (Cleaning), a request     *)
(*            starts from a clear directory (Starting), and has done what  *)
(*            its step says (Applied, Posted).  A restoration is attempted *)
(*            only with both profiles there (Fits), or is one the runtime  *)
(*            is about to refuse (Refusing);                               *)
(*   Timed    the timer is off inside a transaction;                       *)
(*   and no invocation has ended stuck.                                    *)
(*                                                                         *)
(* A store call that is not completed leaves its images beside those that  *)
(* were there, so the proof of an action has two parts: what it may leave  *)
(* (XLeaves, from the XForms of the call it makes), and where it leads     *)
(* (XSound: it preserves SInv), given the ways it can end (XLands).        *)
(***************************************************************************)
EXTENDS SetupApply_proof

\* The window that may be open here: it is entered by RotatesRestoration alone.
Shut == Windows \subseteq {"moved restore"}

(* ---------------------- what a directory is worth ---------------------- *)

\* The record is that of a transaction that is not closed.
Open(d) == d.journal # None /\ d.journal.phase \notin ClosedPhases

\* What the snapshots of an open transaction hold.
Former(d) == IF d.configPrevious # None THEN d.configPrevious ELSE d.config
FormerKey(d) ==
  IF ~d.journal.keyChanged THEN d.credential
  ELSE IF ~d.journal.hadKey THEN None
  ELSE IF d.credentialPrevious # None THEN d.credentialPrevious ELSE d.credential

KeepsKey(j) == j.keyChanged /\ j.hadKey

\* The runtime may have begun to restore the static profile; it has.
Underway(d) == Open(d) /\ d.journal.operation = "static-restore" /\ d.journal.phase # "prepared"
Settled(d) == Underway(d) /\ (d.journal.phase # "activating" \/ d.configPrevious = None)

\* What any image is worth, given the profiles and whether a restoration stands.
OpenWorth(d, w) ==
  /\ d.configPrevious = None => d.journal.phase = "prepared" \/ Settled(d)
  /\ KeepsKey(d.journal) /\ d.credentialPrevious = None => d.journal.phase = "prepared"
  /\ d.journal.hadKey <=> FormerKey(d) # None
  /\ Former(d).source = "api" => d.journal.hadKey /\ d.credential # None /\ w.profile # None
  /\ d.journal.operation \in {"adopt", "provision"} => Former(d).source = "static"
Worth(d, w, k) ==
  /\ d.journal = None => /\ d.configPrevious = None /\ d.credentialPrevious = None
                         /\ d.staging \subseteq PrivateTargets
  /\ d.journal # None /\ ~d.journal.keyChanged => d.credentialPrevious = None
  /\ d.journal # None /\ d.journal.operation = "api-update" =>
       /\ d.config.source = "api" /\ d.journal.hadKey
       /\ d.configPrevious # None => d.configPrevious.source = "api"
  /\ Open(d) => OpenWorth(d, w)
  /\ Settled(d) => d.config.source = "static"
  /\ k => d.config.source = "static" /\ (Open(d) => Underway(d))
  /\ d.config.source = "api" => d.credential # None /\ w.profile # None

Visible(w) == w.profile # None /\ w.profile = w.preManaged /\ w.switching = {}

\* A restoration that stands: the profiles show it, and Disk leads nowhere else.
Stands(S, D, w, k) ==
  /\ (\E d \in S : Settled(d) \/ (k /\ Open(d))) => Visible(w)
  /\ (\E d \in S : Settled(d)) =>
       /\ D.config.source = "static"
       /\ Open(D) => Underway(D) \/ D.configPrevious = None
\* Nothing else can undo it.
Alone(S) ==
  (\E d \in S : Underway(d)) => \A d \in S : d.journal # None => ~UndoesAdoption(d.journal)
Fits(S, w) == (\E d \in S : Underway(d)) => None \notin {w.profile, w.preManaged}

Hosts(S, D, w, k) ==
  (\A d \in S : Worth(d, w, k)) /\ Stands(S, D, w, k) /\ Alone(S)

(* ---------------------------- the invocation --------------------------- *)

\* What never changes of a record.
Record(j) == [operation |-> j.operation, hadKey |-> j.hadKey,
              hadPreManaged |-> j.hadPreManaged, keyChanged |-> j.keyChanged]
Rolling(p, r) == p \in RollbackSteps \/ (p \in {"reconcile", "unstage"} /\ r.caller # "recovery")
Deciding == {"reconcile", "unstage", "classify"} \cup RollbackSteps
Standing == {"markActivated", "beginProof", "markVerifying", "verify", "markVerified"}

\* The record in memory is the one on disk.
Recorded(p, r, D) ==
  /\ p \in Deciding \cup CleanSteps => D.journal # None /\ Record(r.journal) = Record(D.journal)
  /\ p \in Deciding /\ r.caller # "undo" => r.journal = D.journal
  /\ p \in Standing \ {"markActivated"} => r.journal = D.journal
\* What a rollback finds.
Backed(p, r, D, S, w, k) ==
  /\ Rolling(p, r) =>
       /\ Open(D) /\ ~k /\ ~Settled(D)
       /\ Underway(D) => \A d \in S : ~Settled(d)
       /\ r.journal.phase \notin ClosedPhases
       /\ r.journal.phase # "prepared" =>
            D.configPrevious # None /\ (KeepsKey(r.journal) => D.credentialPrevious # None)
  /\ p \in {"unstage", "classify"} => w.switching = {}
  /\ p \in {"restoreKey", "dropPreManaged", "markRolledBack"} => D.config.source = Former(D).source
  /\ p \in Standing /\ r.caller = "recovery" => ~k /\ r.journal.operation # "static-restore"
\* What a clean-up removes.
Cleaning(p, r, D, w, k) ==
  /\ p \in CleanSteps =>
       /\ \/ D.journal.phase \in ClosedPhases
          \/ Underway(D) /\ D.config.source = "static" /\ Visible(w) /\ r.caller \in {"recovery", "keep"}
       /\ r.caller \in {"rollback", "undo"} => D.journal.phase = "rolled-back"
       /\ r.caller = "finalize" => D.journal.phase = "verified"
  /\ p \in {"cleanKey", "cleanJournal"} => D.configPrevious = None /\ "configPrevious" \notin D.staging
  /\ p = "cleanJournal" => D.credentialPrevious = None /\ "credentialPrevious" \notin D.staging
  /\ r.caller \in {"recovery", "rollback"} => D.staging \subseteq Snapshots
\* What a request starts from.
Starting(p, r, D, w, k) ==
  /\ p \in {"ready", "validate", "prepare"} => SetupArtifactsClear(D)
  /\ p \in {"validate", "prepare"} =>
       /\ ~k
       /\ r.journal.hadKey <=> D.credential # None
       /\ r.journal.operation = "api-update" => D.config.source = "api"
       /\ r.journal.operation \in {"adopt", "provision"} => D.config.source = "static"
       /\ r.journal.hadPreManaged <=> w.preManaged # None
  /\ p = "validate" \/ r.caller = "apply" => (r.journal.keyChanged => r.supplied # None)
\* What it has done.
Applied(p, r, D, one, w, k) ==
  r.caller \in {"apply", "finalize"} /\ p # "prepare" =>
    /\ one /\ D.staging = {}
    /\ k => p \in Standing \cup CleanSteps /\ Visible(w)
    /\ p \notin CleanSteps =>
         /\ D.journal = r.journal
         /\ (p = "snapshotConfig") <=> D.configPrevious = None
         /\ D.credentialPrevious # None <=> KeepsKey(r.journal) /\ p \notin {"snapshotConfig", "snapshotKey"}
         /\ (k <=> r.journal.operation = "static-restore") \/ p \notin Standing
    /\ p \in {"markKey", "revalidate", "activate"} => D.credential # None
    /\ p = "activate" => D.config.source = "static"
    /\ r.request.mode = "static" /\ p \in Standing \cup CleanSteps => D.config.source = "static"
Posted(p, r, D, one) ==
  p \in PostSteps =>
    /\ SetupArtifactsClear(D) /\ one
    /\ r.request.mode = "static" => D.config.source = "static"

\* A restoration the runtime is going to refuse: no fault is possible here.
Refusing(p, r, D, one) ==
  /\ p \in {"restoreStatic", "restoreConfig", "markRolledBack"} /\ one
  /\ r.caller \in {"apply", "undo"}
  /\ r.journal.operation = "static-restore" /\ r.journal = D.journal
  /\ D.journal.phase = "activating"
  /\ D.staging = {} /\ D.configPrevious # None

Runs(p, r, D, S, one, w, k) ==
  /\ Recorded(p, r, D) /\ Backed(p, r, D, S, w, k) /\ Cleaning(p, r, D, w, k)
  /\ Starting(p, r, D, w, k) /\ Applied(p, r, D, one, w, k) /\ Posted(p, r, D, one)
  /\ Fits(S, w) \/ Refusing(p, r, D, one)

Timed == timer => pc \in {"idle", "enter", "stop"} /\ \A d \in Img : SetupArtifactsClear(d)
HostInv == Hosts(Img, Disk, wg, txn.kept)
RunInv == Runs(pc, run, Disk, Img, Len(images) = 1, wg, txn.kept)

SInv == TInv /\ HostInv /\ RunInv /\ Timed /\ verdict # "stuck"

\* Fewer images are as sound,
LEMMA ShrinkHosts ==
  ASSUME NEW S, NEW D, NEW w, NEW k, Hosts(S, D, w, k), NEW T \in SUBSET S
  PROVE  Hosts(T, D, w, k)
BY DEF Hosts, Stands, Alone

\* and so is one of them alone, which a power loss may leave.
LEMMA LoneHosts ==
  ASSUME NEW S, NEW D, NEW w, NEW k, Hosts(S, D, w, k), NEW d \in S
  PROVE  Hosts({d}, d, w, k)
<1>1. Worth(d, w, k) /\ Stands(S, D, w, k) /\ Alone(S)
  BY DEF Hosts
<1>2. Stands({d}, d, w, k)
  BY <1>1 DEF Stands, Worth, Settled
<1>3. Alone({d})
  BY <1>1 DEF Alone
<1>4. QED
  BY <1>1, <1>2, <1>3 DEF Hosts

\* Fewer images fit as well.
LEMMA ShrinkFits ==
  ASSUME NEW S, NEW w, Fits(S, w), NEW T \in SUBSET S
  PROVE  Fits(T, w)
BY DEF Fits

\* Whatever of these a call leaves, the host is sound.
Leaves(leaves, w, k) ==
  /\ leaves \subseteq Directory
  /\ \A e \in leaves : Hosts(Img \cup leaves, e, w, k)
  /\ Fits(Img \cup leaves, w)

\* A call that left more images leaves a sound host,
LEMMA ExtendsSound ==
  ASSUME NEW leaves, Leaves(leaves, wg', txn'.kept), Extends(leaves)
  PROVE  HostInv' /\ Fits(Img', wg')
<1>1. Img' \subseteq Img \cup leaves /\ Disk' \in leaves
  BY DEF Extends
<1>2. Hosts(Img \cup leaves, Disk', wg', txn'.kept)
  BY <1>1 DEF Leaves
<1>3. Hosts(Img', Disk', wg', txn'.kept)
  BY <1>1, <1>2, ShrinkHosts
<1>4. Fits(Img', wg')
  BY <1>1, ShrinkFits DEF Leaves
<1>5. QED
  BY <1>3, <1>4 DEF HostInv

\* A call that completed leaves one image.
LEMMA OneImage ==
  ASSUME NEW d \in Directory, images' = <<d>>
  PROVE  Img' = {d} /\ Disk' = d /\ Len(images') = 1
BY DEF Img, Disk

\* and so does a power loss in it.
LEMMA LostSound ==
  ASSUME Shut, NEW leaves, NEW e \in leaves, Leaves(leaves, wg', txn'.kept), Lost(leaves)
  PROVE  HostInv' /\ Fits(Img', wg')
<1>1. PICK d \in Directory : images' = <<d>> /\ d \in Img \cup leaves
  BY DEF Lost, Shut
<1>2. Img' = {d} /\ Disk' = d
  BY <1>1, OneImage
<1>3. Hosts(Img \cup leaves, e, wg', txn'.kept)
  BY DEF Leaves
<1>4. Hosts({d}, d, wg', txn'.kept)
  BY <1>1, <1>3, LoneHosts
<1>5. Fits({d}, wg')
  BY <1>1, ShrinkFits DEF Leaves
<1>6. QED
  BY <1>2, <1>4, <1>5 DEF HostInv

\* An invocation that has ended holds nothing.
LEMMA IdleRuns ==
  ASSUME pc' = "idle", run' = NoRun, Fits(Img', wg')
  PROVE  RunInv'
BY DEF RunInv, Runs, Recorded, Backed, Cleaning, Starting, Applied, Posted, NoRun, Deciding,
  RollbackSteps, CleanSteps, Standing, PostSteps, Rolling

\* The timer is off inside a transaction.
LEMMA Untimed ==
  ASSUME Timed, timer \in BOOLEAN, pc \notin {"idle", "enter", "stop"}, timer' = timer
  PROVE  timer = FALSE /\ Timed'
BY DEF Timed

\* The invocation is as sound on fewer images.
LEMMA ShrinkRuns ==
  ASSUME NEW p, NEW r, NEW D, NEW S, NEW w, NEW k, Runs(p, r, D, S, FALSE, w, k),
         NEW T \in SUBSET S, NEW one \in BOOLEAN
  PROVE  Runs(p, r, D, T, one, w, k)
<1>1. Backed(p, r, D, T, w, k)
  BY DEF Runs, Backed
<1>2. Applied(p, r, D, one, w, k) /\ Posted(p, r, D, one)
  BY DEF Runs, Applied, Posted
<1>3. Fits(T, w)
  BY ShrinkFits DEF Runs, Refusing
<1>4. QED
  BY <1>1, <1>2, <1>3 DEF Runs

\* Where an error out of the try block leads.
UndoStep(self) == IF self.journal.operation \in ApiOperations THEN "reconcile" ELSE "restoreConfig"
Rises(self, e, S, w, k) ==
  /\ k => Runs("cleanConfig", [self EXCEPT !.caller = "keep"], e, S, FALSE, w, k)
  /\ ~k /\ e.journal # None =>
       Runs(UndoStep(self), [self EXCEPT !.caller = "undo"], e, S, FALSE, w, k)

\* An error leads to a step whose part of the invariant holds.
LEMMA RaiseSound ==
  ASSUME verdict # "stuck", NEW self, self.caller \in Callers, Raise(self),
         NEW S, Img' \subseteq S, Fits(Img', wg'), txn'.kept = txn.kept,
         self.caller = "apply" => Rises(self, Disk', S, wg', txn'.kept)
  PROVE  RunInv' /\ verdict' # "stuck"
<1>1. CASE pc' = "idle" /\ run' = NoRun
           /\ verdict' \in {"refused", "incomplete", "unfinalized", "committed", "failed"}
  BY <1>1, IdleRuns
<1>2. CASE /\ self.caller = "apply" /\ txn.kept
           /\ pc' = "cleanConfig" /\ run' = [self EXCEPT !.caller = "keep"] /\ verdict' = verdict
  <2>1. Runs("cleanConfig", [self EXCEPT !.caller = "keep"], Disk', S, FALSE, wg', txn'.kept)
    BY <1>2 DEF Rises
  <2>2. (Len(images') = 1) \in BOOLEAN
    OBVIOUS
  <2>3. Runs(pc', run', Disk', Img', Len(images') = 1, wg', txn'.kept)
    BY <1>2, <2>1, <2>2, ShrinkRuns
  <2>4. QED
    BY <1>2, <2>3 DEF RunInv
<1>3. CASE /\ self.caller = "apply" /\ ~txn.kept /\ Disk'.journal # None
           /\ pc' = UndoStep(self)
           /\ run' = [self EXCEPT !.caller = "undo"] /\ verdict' = verdict
  <2>1. Runs(pc', run', Disk', S, FALSE, wg', txn'.kept)
    BY <1>3 DEF Rises
  <2>2. (Len(images') = 1) \in BOOLEAN
    OBVIOUS
  <2>3. Runs(pc', run', Disk', Img', Len(images') = 1, wg', txn'.kept)
    BY <2>1, <2>2, ShrinkRuns
  <2>4. QED
    BY <1>3, <2>3 DEF RunInv
<1>4. QED
  BY <1>1, <1>2, <1>3, RaiseLands DEF UndoStep

\* The faults the windows leave out.
LEMMA NoFault ==
  ASSUME Shut, NEW fault, Spend(fault)
  PROVE  ~Exposed /\ ~Unmanaged /\ ~Lingering
BY DEF Spend, Shut

\* A call of the store that is not completed.
LEMMA NotDoneSound ==
  ASSUME SInv, Shut, pc \notin {"idle", "enter", "stop"},
         NEW self, self.caller \in Callers, NEW leaves, NotDone(self, leaves), Disk \in leaves,
         wg' = wg, timer' = timer, txn'.kept = txn.kept,
         Leaves(leaves, wg, txn.kept),
         self.caller = "apply" => \A e \in leaves : Rises(self, e, Img \cup leaves, wg, txn.kept)
  PROVE  HostInv' /\ RunInv' /\ Timed' /\ verdict' # "stuck"
<1>1. Timed'
  BY Untimed DEF SInv, TInv, Typed
<1>2. CASE Fails(self, leaves)
  <2>1. HostInv' /\ Fits(Img', wg')
    BY <1>2, ExtendsSound DEF Fails
  <2>2. Img' \subseteq Img \cup leaves /\ Disk' \in leaves /\ Raise(self)
    BY <1>2 DEF Fails, Extends
  <2>3. QED
    BY <1>1, <2>1, <2>2, RaiseSound DEF SInv
<1>3. CASE Cuts(leaves, status)
  <2>1. HostInv' /\ Fits(Img', wg')
    BY <1>3, ExtendsSound, LostSound DEF Cuts
  <2>2. pc' = "idle" /\ run' = NoRun /\ verdict' = "killed"
    BY <1>3 DEF Cuts, End
  <2>3. QED
    BY <1>1, <2>1, <2>2, IdleRuns
<1>4. CASE Refuses(self)
  <2>1. images' = images /\ Raise(self)
    BY <1>4 DEF Refuses
  <2>2. Img' = Img /\ Disk' = Disk
    BY <2>1 DEF Img, Disk
  <2>3. HostInv'
    BY <2>2 DEF HostInv, SInv
  <2>4. Fits(Img', wg')
    BY <2>2, ShrinkFits DEF Leaves
  <2>5. QED
    BY <1>1, <2>1, <2>2, <2>3, <2>4, RaiseSound DEF SInv
<1>5. QED
  BY <1>2, <1>3, <1>4 DEF NotDone

\* A call that completes.
LEMMA DoneSound ==
  ASSUME SInv, pc \notin {"idle", "enter", "stop"}, timer' = timer, verdict' # "stuck",
         NEW after \in Directory, Completed(after), Hosts({after}, after, wg', txn'.kept),
         \A one \in BOOLEAN : one => Runs(pc', run', after, {after}, one, wg', txn'.kept)
  PROVE  HostInv' /\ RunInv' /\ Timed' /\ verdict' # "stuck"
<1>1. Timed'
  BY Untimed DEF SInv, TInv, Typed
<1>2. Img' = {after} /\ Disk' = after /\ Len(images') = 1
  BY OneImage DEF Completed
<1>3. (Len(images') = 1) \in BOOLEAN /\ Len(images') = 1
  BY <1>2
<1>4. QED
  BY <1>1, <1>2, <1>3 DEF HostInv, RunInv

(* ------------------- what a call may leave behind ---------------------- *)

\* The same files, whatever staging names are there.
SameFiles(e, d) ==
  /\ e.journal = d.journal /\ e.config = d.config /\ e.credential = d.credential
  /\ e.configPrevious = d.configPrevious /\ e.credentialPrevious = d.credentialPrevious

\* Staging names are nothing to what a directory is worth.
LEMMA SameWorth ==
  ASSUME NEW d, NEW e, NEW w, NEW k, SameFiles(e, d), Worth(d, w, k),
         e.journal = None => e.staging \subseteq PrivateTargets
  PROVE  Worth(e, w, k) /\ (Settled(e) <=> Settled(d))
<1>1. /\ Open(e) = Open(d) /\ Former(e) = Former(d) /\ FormerKey(e) = FormerKey(d)
      /\ Underway(e) = Underway(d)
  BY DEF SameFiles, Open, Former, FormerKey, Underway
<1>2. Settled(e) = Settled(d)
  BY <1>1 DEF SameFiles, Settled
<1>3. OpenWorth(d, w) => OpenWorth(e, w)
  BY <1>1, <1>2 DEF SameFiles, OpenWorth
<1>4. QED
  BY <1>1, <1>2, <1>3 DEF SameFiles, Worth

\* The leaves of a call that keeps the record, or removes it.
LEMMA KinLeaves ==
  ASSUME HostInv, Disk \in Img, NEW w, NEW k, NEW leaves \in SUBSET Directory,
         Fits(Img, w), \A d \in Img : Worth(d, w, k), Stands(Img, Disk, w, k),
         \A e \in leaves : e.journal \in {Disk.journal, None} /\ Worth(e, w, k),
         \A e \in leaves : Settled(e) => Visible(w),
         (\E d \in Img \cup leaves : Settled(d)) =>
           \A e \in leaves :
             /\ e.config.source = "static"
             /\ Open(e) => Underway(e) \/ e.configPrevious = None
  PROVE  Leaves(leaves, w, k)
<1>1. \A e \in leaves : (Open(e) => Open(Disk)) /\ (Underway(e) => Underway(Disk))
  BY DEF Open, Underway
<1>2. Alone(Img \cup leaves)
  BY <1>1 DEF HostInv, Hosts, Alone
<1>3. Fits(Img \cup leaves, w)
  BY <1>1 DEF Fits
<1>4. ASSUME NEW e \in leaves PROVE Stands(Img \cup leaves, e, w, k)
  BY <1>1 DEF Stands
<1>5. QED
  BY <1>2, <1>3, <1>4 DEF Leaves, Hosts

\* The leaves of a call that writes the record.
LEMMA MarkLeaves ==
  ASSUME HostInv, Disk \in Img, NEW w, NEW k, NEW leaves \in SUBSET Directory,
         Fits(Img, w), \A d \in Img : Worth(d, w, k), Stands(Img, Disk, w, k),
         NEW j, j # None,
         \A e \in leaves : Worth(e, w, k) /\ e.config = Disk.config
                           /\ e.configPrevious = Disk.configPrevious
                           /\ e.journal \in {Disk.journal, j},
         \A e \in leaves : Settled(e) \/ (k /\ Open(e)) => Visible(w),
         (\E d \in Img \cup leaves : Settled(d)) =>
           /\ Disk.config.source = "static"
           /\ \A e \in leaves : Open(e) => Underway(e) \/ e.configPrevious = None,
         (\E d \in Img \cup leaves : Underway(d)) =>
           /\ ~UndoesAdoption(j)
           /\ None \notin {w.profile, w.preManaged}
           /\ \A d \in Img : d.journal # None => ~UndoesAdoption(d.journal)
  PROVE  Leaves(leaves, w, k)
<1>1. Alone(Img \cup leaves)
  <2>1. SUFFICES ASSUME \E d \in Img \cup leaves : Underway(d), NEW d \in Img \cup leaves,
                        d.journal # None
                 PROVE  ~UndoesAdoption(d.journal)
    BY DEF Alone
  <2>2. CASE d \in Img
    BY <2>1, <2>2
  <2>3. CASE d \in leaves
    BY <2>1, <2>3
  <2>4. QED
    BY <2>1, <2>2, <2>3
<1>2. Fits(Img \cup leaves, w)
  BY DEF Fits
<1>3. ASSUME NEW e \in leaves PROVE Stands(Img \cup leaves, e, w, k)
  <2>1. (\E d \in Img \cup leaves : Settled(d) \/ (k /\ Open(d))) => Visible(w)
    BY DEF Stands
  <2>2. QED
    BY <2>1 DEF Stands
<1>4. QED
  BY <1>1, <1>2, <1>3 DEF Leaves, Hosts

\* The leaves of a call that changes one file.
StagesFrom(e, d, entry) == SameFiles(e, d) /\ e.staging \subseteq d.staging \cup {entry}

\* What writing the record leaves,
LEMMA JournalForms ==
  ASSUME NEW d \in Directory, NEW j, NEW e \in WriteLeaves(d, "journal", j)
  PROVE  \/ StagesFrom(e, d, "journal")
         \/ /\ e = Written(d, "journal", j) /\ e.journal = j /\ e.config = d.config
            /\ e.credential = d.credential /\ e.configPrevious = d.configPrevious
            /\ e.credentialPrevious = d.credentialPrevious /\ e.staging = d.staging
BY DEF WriteLeaves, Written, Staged, Directory, StagesFrom, SameFiles

\* the configuration,
LEMMA ConfigForms ==
  ASSUME NEW d \in Directory, NEW c, NEW e \in WriteLeaves(d, "config", c)
  PROVE  \/ StagesFrom(e, d, "config")
         \/ /\ e = Written(d, "config", c) /\ e.journal = d.journal /\ e.config = c
            /\ e.credential = d.credential /\ e.configPrevious = d.configPrevious
            /\ e.credentialPrevious = d.credentialPrevious /\ e.staging = d.staging
BY DEF WriteLeaves, Written, Staged, Directory, StagesFrom, SameFiles

\* the key,
LEMMA KeyForms ==
  ASSUME NEW d \in Directory, NEW key, NEW e \in WriteLeaves(d, "credential", key)
  PROVE  \/ StagesFrom(e, d, "credential")
         \/ /\ e = Written(d, "credential", key) /\ e.journal = d.journal /\ e.config = d.config
            /\ e.credential = key /\ e.configPrevious = d.configPrevious
            /\ e.credentialPrevious = d.credentialPrevious /\ e.staging = d.staging
BY DEF WriteLeaves, Written, Staged, Directory, StagesFrom, SameFiles

\* taking a snapshot,
LEMMA SnapshotForms ==
  ASSUME NEW d \in Directory
  PROVE  /\ \A e \in SnapshotLeaves(d, "config", "configPrevious") :
              \/ StagesFrom(e, d, "configPrevious")
              \/ /\ e.journal = d.journal /\ e.config = d.config /\ e.credential = d.credential
                 /\ e.configPrevious = d.config /\ e.credentialPrevious = d.credentialPrevious
                 /\ e.staging \subseteq d.staging \cup {"configPrevious"}
         /\ \A e \in SnapshotLeaves(d, "credential", "credentialPrevious") :
              \/ StagesFrom(e, d, "credentialPrevious")
              \/ /\ e.journal = d.journal /\ e.config = d.config /\ e.credential = d.credential
                 /\ e.configPrevious = d.configPrevious /\ e.credentialPrevious = d.credential
                 /\ e.staging \subseteq d.staging \cup {"credentialPrevious"}
         /\ LET e == Snapshotted(d, "config", "configPrevious")
            IN /\ e.journal = d.journal /\ e.config = d.config /\ e.credential = d.credential
               /\ e.configPrevious = d.config /\ e.credentialPrevious = d.credentialPrevious
               /\ e.staging = d.staging \ {"configPrevious"}
         /\ LET e == Snapshotted(d, "credential", "credentialPrevious")
            IN /\ e.journal = d.journal /\ e.config = d.config /\ e.credential = d.credential
               /\ e.configPrevious = d.configPrevious /\ e.credentialPrevious = d.credential
               /\ e.staging = d.staging \ {"credentialPrevious"}
BY DEF SnapshotLeaves, Snapshotted, Staged, Unstaged, Directory, StagesFrom, SameFiles

\* putting one back,
LEMMA RestoreForms ==
  ASSUME NEW d \in Directory
  PROVE  /\ \A e \in RestoreLeaves(d, "configPrevious", "config") :
              \/ StagesFrom(e, d, "config")
              \/ e = Restored(d, "configPrevious", "config")
         /\ \A e \in RestoreLeaves(d, "credentialPrevious", "credential") :
              \/ StagesFrom(e, d, "credential")
              \/ e = Restored(d, "credentialPrevious", "credential")
         /\ LET e == Restored(d, "configPrevious", "config")
            IN /\ e.journal = d.journal /\ e.config = d.configPrevious
               /\ e.credential = d.credential /\ e.configPrevious = d.configPrevious
               /\ e.credentialPrevious = d.credentialPrevious
               /\ e.staging = d.staging \ {"configPrevious"}
         /\ LET e == Restored(d, "credentialPrevious", "credential")
            IN /\ e.journal = d.journal /\ e.config = d.config
               /\ e.credential = d.credentialPrevious /\ e.configPrevious = d.configPrevious
               /\ e.credentialPrevious = d.credentialPrevious
               /\ e.staging = d.staging \ {"credentialPrevious"}
         /\ \A entry : StagesFrom(Unstaged(d, entry), d, entry)
                       /\ Unstaged(d, entry).staging = d.staging \ {entry}
<1>1. LET e == Restored(d, "configPrevious", "config")
      IN /\ e.journal = d.journal /\ e.config = d.configPrevious
         /\ e.credential = d.credential /\ e.configPrevious = d.configPrevious
         /\ e.credentialPrevious = d.credentialPrevious
         /\ e.staging = d.staging \ {"configPrevious"}
  BY DEF Restored, Written, Unstaged, Directory
<1>2. LET e == Restored(d, "credentialPrevious", "credential")
      IN /\ e.journal = d.journal /\ e.config = d.config
         /\ e.credential = d.credentialPrevious /\ e.configPrevious = d.configPrevious
         /\ e.credentialPrevious = d.credentialPrevious
         /\ e.staging = d.staging \ {"credentialPrevious"}
  BY DEF Restored, Written, Unstaged, Directory
<1>3. \A e \in RestoreLeaves(d, "configPrevious", "config") :
        StagesFrom(e, d, "config") \/ e = Restored(d, "configPrevious", "config")
  BY DEF RestoreLeaves, WriteLeaves, Restored, Staged, Unstaged, Directory, StagesFrom, SameFiles
<1>4. \A e \in RestoreLeaves(d, "credentialPrevious", "credential") :
        StagesFrom(e, d, "credential") \/ e = Restored(d, "credentialPrevious", "credential")
  BY DEF RestoreLeaves, WriteLeaves, Restored, Staged, Unstaged, Directory, StagesFrom, SameFiles
<1>5. \A entry : StagesFrom(Unstaged(d, entry), d, entry)
                 /\ Unstaged(d, entry).staging = d.staging \ {entry}
  BY DEF Unstaged, Directory, StagesFrom, SameFiles
<1>6. QED
  BY <1>1, <1>2, <1>3, <1>4, <1>5

\* and removing a file.
LEMMA RemoveForms ==
  ASSUME NEW d \in Directory
  PROVE  /\ \A entry \in {"journal", "credential", "configPrevious", "credentialPrevious"} :
              \A e \in RemoveLeaves(d, entry) :
                \/ SameFiles(e, d) /\ e.staging \subseteq d.staging
                \/ e = Removed(d, entry)
         /\ LET e == Removed(d, "configPrevious")
            IN /\ e.journal = d.journal /\ e.config = d.config /\ e.credential = d.credential
               /\ e.configPrevious = None /\ e.credentialPrevious = d.credentialPrevious
               /\ e.staging = d.staging \ {"configPrevious"}
         /\ LET e == Removed(d, "credentialPrevious")
            IN /\ e.journal = d.journal /\ e.config = d.config /\ e.credential = d.credential
               /\ e.configPrevious = d.configPrevious /\ e.credentialPrevious = None
               /\ e.staging = d.staging \ {"credentialPrevious"}
         /\ LET e == Removed(d, "journal")
            IN /\ e.journal = None /\ e.config = d.config /\ e.credential = d.credential
               /\ e.configPrevious = d.configPrevious
               /\ e.credentialPrevious = d.credentialPrevious /\ e.staging = d.staging
         /\ LET e == Removed(d, "credential")
            IN /\ e.journal = d.journal /\ e.config = d.config /\ e.credential = None
               /\ e.configPrevious = d.configPrevious
               /\ e.credentialPrevious = d.credentialPrevious /\ e.staging = d.staging
<1>1. \A entry \in {"journal", "credential", "configPrevious", "credentialPrevious"} :
        \A e \in RemoveLeaves(d, entry) :
          \/ SameFiles(e, d) /\ e.staging \subseteq d.staging
          \/ e = Removed(d, entry)
  BY DEF RemoveLeaves, Cleaned, Unstaged, Directory, SameFiles
<1>2. LET e == Removed(d, "configPrevious")
      IN /\ e.journal = d.journal /\ e.config = d.config /\ e.credential = d.credential
         /\ e.configPrevious = None /\ e.credentialPrevious = d.credentialPrevious
         /\ e.staging = d.staging \ {"configPrevious"}
  BY DEF Removed, Cleaned, Snapshots, Unstaged, Directory
<1>3. LET e == Removed(d, "credentialPrevious")
      IN /\ e.journal = d.journal /\ e.config = d.config /\ e.credential = d.credential
         /\ e.configPrevious = d.configPrevious /\ e.credentialPrevious = None
         /\ e.staging = d.staging \ {"credentialPrevious"}
  BY DEF Removed, Cleaned, Snapshots, Unstaged, Directory
<1>4. LET e == Removed(d, "journal")
      IN /\ e.journal = None /\ e.config = d.config /\ e.credential = d.credential
         /\ e.configPrevious = d.configPrevious
         /\ e.credentialPrevious = d.credentialPrevious /\ e.staging = d.staging
  BY DEF Removed, Cleaned, Snapshots, Unstaged, Directory
<1>5. LET e == Removed(d, "credential")
      IN /\ e.journal = d.journal /\ e.config = d.config /\ e.credential = None
         /\ e.configPrevious = d.configPrevious
         /\ e.credentialPrevious = d.credentialPrevious /\ e.staging = d.staging
  BY DEF Removed, Cleaned, Snapshots, Unstaged, Directory
<1>6. QED
  BY <1>1, <1>2, <1>3, <1>4, <1>5

(* --------------------- the shapes a step can have ----------------------- *)

\* Images that fit do so together,
LEMMA FitsOr ==
  ASSUME SInv
  PROVE  \/ Fits(Img, wg)
         \/ /\ Refusing(pc, run, Disk, Len(images) = 1) /\ Unmanaged
            /\ None \in {wg.profile, wg.preManaged}
<1>1. ASSUME ~Fits(Img, wg) PROVE None \in {wg.profile, wg.preManaged}
  BY <1>1 DEF Fits
<1>2. QED
  BY <1>1 DEF SInv, RunInv, Runs, Refusing, Unmanaged

\* and without a restoration any do.
LEMMA FitsElse ==
  ASSUME SInv, pc \notin {"restoreStatic", "restoreConfig", "markRolledBack"}
  PROVE  Fits(Img, wg)
BY FitsOr DEF Refusing

\* What the invariant says of each image.
LEMMA HostFacts ==
  ASSUME SInv
  PROVE  /\ TInv /\ Typed /\ HostInv /\ Disk \in Directory /\ Disk \in Img
         /\ \A d \in Img : d \in Directory /\ Worth(d, wg, txn.kept)
         /\ Worth(Disk, wg, txn.kept) /\ Stands(Img, Disk, wg, txn.kept) /\ Alone(Img)
         /\ timer \in BOOLEAN /\ txn.kept \in BOOLEAN
<1>1. TInv /\ Typed /\ HostInv
  BY DEF SInv, TInv
<1>2. txn.kept \in BOOLEAN /\ timer \in BOOLEAN
  BY <1>1 DEF Typed, TxnType
<1>3. QED
  BY <1>1, <1>2, TypedFacts DEF HostInv, Hosts

\* What is left is as sound alone.
LEMMA LeavesAfter ==
  ASSUME NEW leaves, NEW w, NEW k, Leaves(leaves, w, k), NEW after \in leaves
  PROVE  after \in Directory /\ Hosts({after}, after, w, k) /\ Fits({after}, w)
<1>1. Hosts(Img \cup leaves, after, w, k) /\ Fits(Img \cup leaves, w)
  BY DEF Leaves
<1>2. QED
  BY <1>1, LoneHosts, ShrinkFits DEF Leaves

\* A step that makes no call.
LEMMA SkipSound ==
  ASSUME SInv, pc \notin {"idle", "enter", "stop"}, images' = images, timer' = timer,
         verdict' # "stuck", Hosts(Img, Disk, wg', txn'.kept),
         Runs(pc', run', Disk, Img, Len(images) = 1, wg', txn'.kept)
  PROVE  HostInv' /\ RunInv' /\ Timed' /\ verdict' # "stuck"
<1>1. Timed'
  BY Untimed DEF SInv, TInv, Typed
<1>2. Img' = Img /\ Disk' = Disk
  BY DEF Img, Disk
<1>3. QED
  BY <1>1, <1>2 DEF HostInv, RunInv

\* An invocation that ends where it is.
LEMMA EndSound ==
  ASSUME SInv, pc \notin {"idle", "enter", "stop"}, images' = images, timer' = timer,
         pc' = "idle", run' = NoRun, verdict' # "stuck",
         Hosts(Img, Disk, wg', txn'.kept), Fits(Img, wg')
  PROVE  HostInv' /\ RunInv' /\ Timed' /\ verdict' # "stuck"
<1>1. Timed'
  BY Untimed DEF SInv, TInv, Typed
<1>2. Img' = Img /\ Disk' = Disk
  BY DEF Img, Disk
<1>3. QED
  BY <1>1, <1>2, IdleRuns DEF HostInv

\* A rollback can begin from what a failed call left.
LEMMA RisesOpen ==
  ASSUME NEW self \in RunType, NEW e, NEW S, NEW w, NEW k \in BOOLEAN, ~k,
         Fits(S, w), self.journal # None,
         self.journal.phase \notin ClosedPhases,
         e.journal # None => /\ Record(self.journal) = Record(e.journal)
                             /\ Open(e) /\ ~Settled(e)
                             /\ Underway(e) => \A d \in S : ~Settled(d),
         e.journal # None /\ self.journal.phase # "prepared" =>
           e.configPrevious # None /\ (KeepsKey(self.journal) => e.credentialPrevious # None)
  PROVE  Rises(self, e, S, w, k)
<1> DEFINE r == [self EXCEPT !.caller = "undo"]
<1>1. UndoStep(self) \in {"reconcile", "restoreConfig"}
  BY DEF UndoStep
<1>2. SUFFICES ASSUME e.journal # None
               PROVE  Runs(UndoStep(self), r, e, S, FALSE, w, k)
  BY DEF Rises
<1>3. r.caller = "undo" /\ r.journal = self.journal
  BY DEF RunType
<1> HIDE DEF r
<1>4. Recorded(UndoStep(self), r, e) /\ Backed(UndoStep(self), r, e, S, w, k)
  BY <1>1, <1>2, <1>3 DEF Recorded, Backed, Deciding, RollbackSteps, CleanSteps, Standing, Rolling
<1>5. QED
  BY <1>1, <1>2, <1>3, <1>4 DEF Runs, Cleaning, Starting, Applied, Posted, CleanSteps, PostSteps

(* ---------------------------- the rollback ------------------------------ *)

\* Some of the leaves are as sound as all.
LEMMA LeavesShrink ==
  ASSUME NEW leaves, NEW w, NEW k, Leaves(leaves, w, k), NEW fewer \in SUBSET leaves
  PROVE  Leaves(fewer, w, k)
<1>1. \A e \in fewer : Hosts(Img \cup fewer, e, w, k)
  BY ShrinkHosts DEF Leaves
<1>2. Fits(Img \cup fewer, w)
  BY ShrinkFits DEF Leaves
<1>3. QED
  BY <1>1, <1>2 DEF Leaves

\* What the invariant says during a rollback.
LEMMA RollingFacts ==
  ASSUME SInv, Rolling(pc, run)
  PROVE  /\ txn.kept = FALSE /\ Open(Disk) /\ ~Settled(Disk) /\ Disk.journal # None
         /\ (\E d \in Img : Settled(d)) =>
              /\ ~Underway(Disk) /\ Disk.config.source = "static" /\ Disk.configPrevious = None
         /\ Record(run.journal) = Record(Disk.journal) /\ run.journal.phase \notin ClosedPhases
         /\ run.caller \in {"rollback", "undo"} /\ run.journal # None
         /\ run.caller # "undo" => run.journal = Disk.journal
         /\ run.journal.phase # "prepared" =>
              /\ Disk.configPrevious # None
              /\ KeepsKey(run.journal) => Disk.credentialPrevious # None
         /\ run.caller = "rollback" => Disk.staging \subseteq Snapshots
<1>1. Backed(pc, run, Disk, Img, wg, txn.kept) /\ Recorded(pc, run, Disk)
  BY DEF SInv, RunInv, Runs
<1>2. Stands(Img, Disk, wg, txn.kept) /\ txn.kept \in BOOLEAN
  BY HostFacts
<1>3. pc \in Deciding
  BY DEF Rolling, Deciding
<1>4. run.caller \in {"rollback", "undo"} /\ run.journal # None
  BY DEF SInv, TInv, Control, CallerAt, Rolling, RollbackSteps
<1>5. QED
  <2>1. run.caller = "rollback" => Disk.staging \subseteq Snapshots
    BY DEF SInv, RunInv, Runs, Cleaning
  <2>2. QED
    BY <1>1, <1>2, <1>3, <1>4, <2>1 DEF Backed, Recorded, Stands, Open

\* A restoration that stands is not rolled back.
LEMMA UndoneKept ==
  ASSUME SInv, txn' = [txn EXCEPT !.undone = TRUE]
  PROVE  txn'.kept = txn.kept
BY DEF SInv, TInv, Typed, TxnType

\* A fault is out of the question while the runtime refuses.
LEMMA CallDone ==
  ASSUME Shut, Unmanaged, NEW self, NEW after, NEW leaves, NEW ACTION Done,
         StoreCall(self, after, leaves, Done)
  PROVE  Completed(after) /\ Done
<1>1. \A fault : ~Spend(fault)
  BY NoFault
<1>2. images' = <<after>> /\ Done /\ UNCHANGED <<status, faults>>
  BY <1>1 DEF StoreCall
<1>3. QED
  BY <1>2 DEF Completed

\* Putting the configuration back.
LEMMA RestoredWorth ==
  ASSUME NEW d, NEW e, NEW w, NEW k, ~k, Open(d), ~Settled(d), Worth(d, w, k),
         d.configPrevious # None,
         e.journal = d.journal, e.config = d.configPrevious, e.credential = d.credential,
         e.configPrevious = d.configPrevious, e.credentialPrevious = d.credentialPrevious
  PROVE  Worth(e, w, k) /\ ~Settled(e) /\ e.config.source = Former(e).source
<1>1. Open(e) /\ ~Settled(e) /\ Former(e) = Former(d) /\ FormerKey(e) = FormerKey(d)
      /\ Former(d) = d.configPrevious
  BY DEF Open, Settled, Underway, Former, FormerKey
<1>2. OpenWorth(d, w)
  BY DEF Worth
<1>3. OpenWorth(e, w)
  BY <1>1, <1>2 DEF OpenWorth
<1>4. e.config.source = "api" => e.credential # None /\ w.profile # None
  BY <1>1, <1>2 DEF OpenWorth
<1>5. e.journal # None
  BY DEF Open
<1>6. QED
  BY <1>1, <1>3, <1>4, <1>5 DEF Worth

\* What putting the configuration back may leave.
LEMMA RestoreConfigLeaves ==
  ASSUME SInv, pc = "restoreConfig", Disk.configPrevious # None, Fits(Img, wg)
  PROVE  Leaves(RestoreLeaves(Disk, "configPrevious", "config"), wg, txn.kept)
<1> DEFINE leaves == RestoreLeaves(Disk, "configPrevious", "config")
<1>1. Disk \in Directory /\ leaves \subseteq Directory
  BY HostFacts, RestoreTypes
<1>2. Rolling(pc, run)
  BY DEF Rolling, RollbackSteps
<1>3. /\ txn.kept = FALSE /\ Open(Disk) /\ ~Settled(Disk)
      /\ ~\E d \in Img : Settled(d)
  BY <1>2, RollingFacts
<1>4. ASSUME NEW e \in leaves
      PROVE  e.journal = Disk.journal /\ Worth(e, wg, txn.kept) /\ ~Settled(e)
  <2>1. CASE StagesFrom(e, Disk, "config")
    BY <1>3, <2>1, SameWorth, HostFacts DEF StagesFrom, SameFiles, Open
  <2>2. CASE e = Restored(Disk, "configPrevious", "config")
    <3>1. /\ e.journal = Disk.journal /\ e.config = Disk.configPrevious
          /\ e.credential = Disk.credential /\ e.configPrevious = Disk.configPrevious
          /\ e.credentialPrevious = Disk.credentialPrevious
      BY <1>1, <2>2, RestoreForms
    <3>2. Worth(Disk, wg, txn.kept) /\ ~txn.kept
      BY <1>3, HostFacts
    <3>3. QED
      BY <1>3, <3>1, <3>2, RestoredWorth
  <2>3. QED
    BY <1>1, <2>1, <2>2, RestoreForms
<1>5. HostInv /\ Disk \in Img /\ Stands(Img, Disk, wg, txn.kept)
      /\ \A d \in Img : Worth(d, wg, txn.kept)
  BY HostFacts
<1> HIDE DEF leaves
<1>6. QED
  BY <1>1, <1>3, <1>4, <1>5, KinLeaves DEF leaves

\* A restoration that fails.
LEMMA RestoreFailsSound ==
  ASSUME SInv, Shut, pc \in RollbackSteps, NEW backup, NEW target,
         RestoreFails(backup, target),
         Leaves(RestoreLeaves(Disk, backup, target), wg, txn.kept),
         wg' = wg, timer' = timer, txn'.kept = txn.kept
  PROVE  HostInv' /\ RunInv' /\ Timed' /\ verdict' # "stuck"
<1> DEFINE leaves == RestoreLeaves(Disk, backup, target)
<1>1. Disk \in leaves /\ Unstaged(Disk, backup) \in leaves
  BY DEF RestoreLeaves, WriteLeaves
<1>2. pc \notin {"idle", "enter", "stop"}
  BY DEF RollbackSteps
<1>3. run.caller \in {"rollback", "undo"} /\ run.caller \in Callers /\ run.caller # "apply"
  BY DEF SInv, TInv, Control, CallerAt, RollbackSteps, Callers
<1> HIDE DEF leaves
<1>4. CASE NotDone(run, leaves)
  BY <1>1, <1>2, <1>3, <1>4, NotDoneSound DEF leaves
<1>5. CASE NotDone(run, {Disk, Unstaged(Disk, backup)})
  <2>1. Leaves({Disk, Unstaged(Disk, backup)}, wg, txn.kept)
    BY <1>1, LeavesShrink DEF leaves
  <2>2. QED
    BY <1>2, <1>3, <1>5, <2>1, NotDoneSound
<1>6. CASE Completed(Unstaged(Disk, backup)) /\ Raise(run)
  <2> DEFINE after == Unstaged(Disk, backup)
  <2>1. after \in Directory /\ Hosts({after}, after, wg, txn.kept) /\ Fits({after}, wg)
    BY <1>1, LeavesAfter DEF leaves
  <2>2. Img' = {after} /\ Disk' = after
    BY <1>6, <2>1, OneImage DEF Completed
  <2>3. HostInv' /\ Fits(Img', wg')
    BY <2>1, <2>2 DEF HostInv
  <2>4. RunInv' /\ verdict' # "stuck"
    BY <1>3, <1>6, <2>3, RaiseSound DEF SInv
  <2>5. Timed'
    BY <1>2, Untimed DEF SInv, TInv, Typed
  <2>6. QED
    BY <2>3, <2>4, <2>5
<1>7. QED
  BY <1>4, <1>5, <1>6 DEF RestoreFails, leaves

\* The invocation stays in its rollback.
LEMMA RollbackRuns ==
  ASSUME NEW p \in RollbackSteps, NEW r, NEW D, NEW S, NEW one \in BOOLEAN, NEW w, NEW k \in BOOLEAN, ~k,
         r.caller \in {"rollback", "undo"},
         D.journal # None, Record(r.journal) = Record(D.journal),
         r.caller # "undo" => r.journal = D.journal,
         Open(D), ~Settled(D), Underway(D) => \A d \in S : ~Settled(d),
         r.journal.phase \notin ClosedPhases,
         r.journal.phase # "prepared" =>
           D.configPrevious # None /\ (KeepsKey(r.journal) => D.credentialPrevious # None),
         p \in {"restoreKey", "dropPreManaged", "markRolledBack"} =>
           D.config.source = Former(D).source,
         r.caller = "rollback" => D.staging \subseteq Snapshots,
         Fits(S, w) \/ Refusing(p, r, D, one)
  PROVE  Runs(p, r, D, S, one, w, k)
<1>1. Recorded(p, r, D) /\ Backed(p, r, D, S, w, k)
  BY DEF Recorded, Backed, Deciding, RollbackSteps, CleanSteps, Standing, Rolling
<1>2. Cleaning(p, r, D, w, k) /\ Starting(p, r, D, w, k) /\ Applied(p, r, D, one, w, k)
      /\ Posted(p, r, D, one)
  BY DEF Cleaning, Starting, Applied, Posted, CleanSteps, RollbackSteps, PostSteps
<1>3. QED
  BY <1>1, <1>2 DEF Runs

\* RestoreConfig keeps SInv.
LEMMA RestoreConfigSound ==
  ASSUME SInv, Shut, RestoreConfig
  PROVE  HostInv' /\ RunInv' /\ Timed' /\ verdict' # "stuck"
<1> DEFINE next == IF run.journal.operation \in ApiOperations THEN "restoreKey" ELSE "markRolledBack"
<1>1. /\ pc = "restoreConfig" /\ txn' = [txn EXCEPT !.undone = TRUE] /\ wg' = wg /\ timer' = timer
      /\ \/ /\ \/ RestoresWith("configPrevious", "config")
               \/ /\ Disk.configPrevious = None /\ run.journal.phase = "prepared"
                  /\ UNCHANGED <<images, status, faults>>
            /\ pc' = next /\ run' = run /\ verdict' = verdict
         \/ RestoreFails("configPrevious", "config")
         \/ /\ Disk.configPrevious = None /\ run.journal.phase # "prepared"
            /\ UNCHANGED <<images, status, faults>> /\ End("stuck")
  BY HostFacts, RestoreConfigLands
<1>2. Rolling(pc, run)
  BY <1>1 DEF Rolling, RollbackSteps
<1>3. txn'.kept = txn.kept /\ ~txn.kept
  BY <1>1, <1>2, UndoneKept, RollingFacts
<1>4. next \in RollbackSteps /\ verdict # "stuck"
  BY DEF RollbackSteps, SInv
<1>5. ASSUME RestoresWith("configPrevious", "config"), pc' = next, run' = run, verdict' = verdict
      PROVE  HostInv' /\ RunInv' /\ Timed' /\ verdict' # "stuck"
  <2> DEFINE after == Restored(Disk, "configPrevious", "config")
  <2>1. /\ Completed(after) /\ Disk.configPrevious # None
        /\ after \in Directory /\ after.journal = Disk.journal /\ after.config = Disk.configPrevious
        /\ after.credential = Disk.credential /\ after.configPrevious = Disk.configPrevious
        /\ after.credentialPrevious = Disk.credentialPrevious
        /\ after.staging = Disk.staging \ {"configPrevious"}
    BY <1>5, HostFacts, RestoreForms, RestoreTypes DEF RestoresWith
  <2> HIDE DEF after
  <2>2. Worth(after, wg, txn.kept) /\ ~Settled(after) /\ after.config.source = Former(after).source
    <3>1. Worth(Disk, wg, txn.kept)
      BY <1>3, HostFacts
    <3>2. QED
      BY <1>2, <1>3, <2>1, <3>1, RollingFacts, RestoredWorth
  <2>3. Open(after) /\ (Underway(after) <=> Underway(Disk))
    BY <1>2, <2>1, RollingFacts DEF Open, Underway
  <2>4. Hosts({after}, after, wg, txn.kept)
    BY <1>3, <2>2, <2>3 DEF Hosts, Stands, Alone, Underway, UndoesAdoption
  <2>5. ASSUME NEW one \in BOOLEAN, one
        PROVE  Fits({after}, wg) \/ Refusing(next, run, after, one)
    <3>1. CASE Fits(Img, wg)
      BY <2>3, <3>1, HostFacts DEF Fits
    <3>2. CASE Refusing(pc, run, Disk, Len(images) = 1)
      BY <2>1, <2>5, <3>2 DEF Refusing, ApiOperations
    <3>3. QED
      BY <3>1, <3>2, FitsOr
  <2>6. ASSUME NEW one \in BOOLEAN, one
        PROVE  Runs(next, run, after, {after}, one, wg, txn.kept)
    <3>1. /\ run.caller \in {"rollback", "undo"} /\ after.journal # None
          /\ Record(run.journal) = Record(after.journal)
          /\ run.caller # "undo" => run.journal = after.journal
          /\ Open(after) /\ ~Settled(after)
          /\ Underway(after) => \A d \in {after} : ~Settled(d)
          /\ run.journal.phase \notin ClosedPhases
          /\ run.journal.phase # "prepared" =>
               /\ after.configPrevious # None
               /\ KeepsKey(run.journal) => after.credentialPrevious # None
          /\ after.config.source = Former(after).source
          /\ run.caller = "rollback" => after.staging \subseteq Snapshots
      BY <1>2, <2>1, <2>2, <2>3, RollingFacts
    <3>2. txn.kept \in BOOLEAN
      BY HostFacts
    <3>3. Fits({after}, wg) \/ Refusing(next, run, after, one)
      BY <2>5, <2>6
    <3>4. QED
      BY <1>3, <1>4, <2>6, <3>1, <3>2, <3>3, RollbackRuns
  <2>7. QED
    BY <1>1, <1>3, <1>4, <1>5, <2>1, <2>4, <2>6, DoneSound
<1>6. ASSUME Disk.configPrevious = None, run.journal.phase = "prepared", images' = images,
             pc' = next, run' = run, verdict' = verdict
      PROVE  HostInv' /\ RunInv' /\ Timed' /\ verdict' # "stuck"
  <2>1. Hosts(Img, Disk, wg, txn.kept)
    BY <1>3, HostFacts DEF HostInv
  <2>2. Fits(Img, wg)
    BY <1>6, FitsOr DEF Refusing
  <2>3. Disk.config.source = Former(Disk).source
    BY <1>6 DEF Former
  <2>4. Runs(next, run, Disk, Img, Len(images) = 1, wg, txn.kept)
    <3>1. (Len(images) = 1) \in BOOLEAN /\ txn.kept \in BOOLEAN
      BY HostFacts
    <3>2. QED
      BY ZenonT(60), <1>2, <1>3, <1>4, <1>6, <2>2, <2>3, <3>1, RollingFacts, RollbackRuns
  <2>5. QED
    BY <1>1, <1>3, <1>4, <1>6, <2>1, <2>4, SkipSound
<1>7. ASSUME RestoreFails("configPrevious", "config"), Fits(Img, wg)
      PROVE  HostInv' /\ RunInv' /\ Timed' /\ verdict' # "stuck"
  <2>1. Disk.configPrevious # None
    BY <1>7 DEF RestoreFails
  <2>2. Leaves(RestoreLeaves(Disk, "configPrevious", "config"), wg, txn.kept)
    BY <1>1, <1>7, <2>1, RestoreConfigLeaves
  <2>3. pc \in RollbackSteps
    BY <1>1 DEF RollbackSteps
  <2>4. QED
    BY <1>1, <1>3, <1>7, <2>2, <2>3, RestoreFailsSound
<1>8. ASSUME Refusing(pc, run, Disk, Len(images) = 1), Unmanaged
      PROVE  RestoresWith("configPrevious", "config") /\ pc' = next /\ run' = run /\ verdict' = verdict
  <2>1. Disk.configPrevious # None /\ "config" \notin Disk.staging
    BY <1>8 DEF Refusing
  <2>2. StoreCall(run, Restored(Disk, "configPrevious", "config"),
                  RestoreLeaves(Disk, "configPrevious", "config"), Go(next, run))
    BY <2>1 DEF RestoreConfig, RestoreSnapshot
  <2>3. Completed(Restored(Disk, "configPrevious", "config")) /\ Go(next, run)
    BY <1>8, <2>2, CallDone
  <2>4. QED
    BY <2>1, <2>3 DEF RestoresWith, Go
<1>9. run.journal.phase # "prepared" => Disk.configPrevious # None
  BY <1>2, RollingFacts
<1> HIDE DEF next
<1>10. CASE Fits(Img, wg)
  BY <1>1, <1>5, <1>6, <1>7, <1>9, <1>10
<1>11. QED
  BY <1>5, <1>8, <1>10, FitsOr

\* Putting the key back keeps what a directory is worth.
LEMMA RekeyedWorth ==
  ASSUME NEW d, NEW e, NEW w, NEW k, ~k, Open(d), ~Settled(d), Worth(d, w, k),
         d.config.source = Former(d).source, d.journal.keyChanged,
         e.journal = d.journal, e.config = d.config, e.configPrevious = d.configPrevious,
         e.credentialPrevious = d.credentialPrevious,
         \/ ~d.journal.hadKey /\ e.credential = None
         \/ /\ d.journal.hadKey /\ d.credentialPrevious # None
            /\ e.credential = d.credentialPrevious
  PROVE  Worth(e, w, k) /\ ~Settled(e) /\ e.config.source = Former(e).source
<1>1. Open(e) /\ ~Settled(e) /\ Former(e) = Former(d)
  BY DEF Open, Settled, Underway, Former
<1>2. FormerKey(e) = FormerKey(d)
  BY DEF FormerKey
<1>3. OpenWorth(d, w)
  BY DEF Worth
<1>4. Former(d).source = "api" => e.credential # None /\ w.profile # None
  BY <1>3 DEF OpenWorth
<1>5. OpenWorth(e, w)
  BY <1>1, <1>2, <1>3, <1>4 DEF OpenWorth
<1>6. e.journal # None
  BY DEF Open
<1>7. QED
  BY <1>1, <1>4, <1>5, <1>6 DEF Worth

\* The leaves of a call of the rollback,
LEMMA RollbackLeaves ==
  ASSUME SInv, Rolling(pc, run), Fits(Img, wg), NEW leaves \in SUBSET Directory,
         \A e \in leaves : /\ e.journal = Disk.journal /\ e.config = Disk.config
                           /\ e.configPrevious = Disk.configPrevious
                           /\ Worth(e, wg, txn.kept) /\ ~Settled(e)
  PROVE  Leaves(leaves, wg, txn.kept)
<1>1. (\E d \in Img : Settled(d)) => Disk.config.source = "static" /\ Disk.configPrevious = None
  BY RollingFacts
<1>2. HostInv /\ Disk \in Img /\ Stands(Img, Disk, wg, txn.kept)
      /\ \A d \in Img : Worth(d, wg, txn.kept)
  BY HostFacts
<1>3. QED
  BY <1>1, <1>2, KinLeaves

\* of which the record stays.
LEMMA RollbackKin ==
  ASSUME SInv, Rolling(pc, run), NEW p \in RollbackSteps, NEW D, NEW S, NEW one \in BOOLEAN,
         NEW w, NEW k \in BOOLEAN, ~k,
         D.journal = Disk.journal, D.configPrevious = Disk.configPrevious,
         D.credentialPrevious = Disk.credentialPrevious, D.staging \subseteq Disk.staging,
         Underway(D) => \A d \in S : ~Settled(d),
         p \in {"restoreKey", "dropPreManaged", "markRolledBack"} =>
           D.config.source = Former(D).source,
         Fits(S, w) \/ Refusing(p, run, D, one)
  PROVE  Runs(p, run, D, S, one, w, k)
<1>1. Open(D) /\ ~Settled(D)
  BY RollingFacts DEF Open, Settled, Underway
<1>2. /\ run.caller \in {"rollback", "undo"} /\ D.journal # None
      /\ Record(run.journal) = Record(D.journal)
      /\ run.caller # "undo" => run.journal = D.journal
      /\ run.journal.phase \notin ClosedPhases
      /\ run.journal.phase # "prepared" =>
           D.configPrevious # None /\ (KeepsKey(run.journal) => D.credentialPrevious # None)
      /\ run.caller = "rollback" => D.staging \subseteq Snapshots
  BY RollingFacts
<1>3. QED
  BY <1>1, <1>2, RollbackRuns

\* The record in memory says of the key what the one on disk does.
LEMMA RecordsAgree ==
  ASSUME NEW i, NEW j, Record(i) = Record(j)
  PROVE  /\ i.operation = j.operation /\ i.hadKey = j.hadKey
         /\ i.hadPreManaged = j.hadPreManaged /\ i.keyChanged = j.keyChanged
         /\ UndoesAdoption(i) = UndoesAdoption(j) /\ KeepsKey(i) = KeepsKey(j)
<1>1. Record(i).operation = Record(j).operation /\ Record(i).hadKey = Record(j).hadKey
      /\ Record(i).hadPreManaged = Record(j).hadPreManaged
      /\ Record(i).keyChanged = Record(j).keyChanged
  OBVIOUS
<1>2. QED
  BY <1>1 DEF Record, UndoesAdoption, KeepsKey

\* The key that is put back is the former one.
LEMMA KeyAgain ==
  ASSUME SInv, pc = "restoreKey"
  PROVE  /\ Rolling(pc, run) /\ Fits(Img, wg) /\ Disk.config.source = Former(Disk).source
         /\ run.journal.keyChanged = Disk.journal.keyChanged
         /\ run.journal.hadKey = Disk.journal.hadKey
         /\ KeepsKey(run.journal) = KeepsKey(Disk.journal)
<1>1. Rolling(pc, run)
  BY DEF Rolling, RollbackSteps
<1>2. Disk.config.source = Former(Disk).source
  BY DEF SInv, RunInv, Runs, Backed
<1>3. Fits(Img, wg)
  BY FitsElse
<1>4. QED
  BY <1>1, <1>2, <1>3, RollingFacts, RecordsAgree

\* What putting the key back may leave.
LEMMA RestoreKeyLeaves ==
  ASSUME SInv, pc = "restoreKey", NEW leaves \in SUBSET Directory, run.journal.keyChanged,
         \A e \in leaves :
           \/ SameFiles(e, Disk)
           \/ /\ e.journal = Disk.journal /\ e.config = Disk.config
              /\ e.configPrevious = Disk.configPrevious
              /\ e.credentialPrevious = Disk.credentialPrevious
              /\ \/ ~run.journal.hadKey /\ e.credential = None
                 \/ /\ run.journal.hadKey /\ Disk.credentialPrevious # None
                    /\ e.credential = Disk.credentialPrevious
  PROVE  /\ Leaves(leaves, wg, txn.kept)
         /\ \A e \in leaves : Worth(e, wg, txn.kept) /\ ~Settled(e)
                              /\ e.config.source = Former(e).source
<1>1. /\ Rolling(pc, run) /\ Fits(Img, wg) /\ Disk.config.source = Former(Disk).source
      /\ Disk.journal.keyChanged = run.journal.keyChanged
      /\ Disk.journal.hadKey = run.journal.hadKey
  BY KeyAgain
<1>2. ~txn.kept /\ Open(Disk) /\ ~Settled(Disk) /\ Disk.journal # None
  BY <1>1, RollingFacts
<1>3. Worth(Disk, wg, txn.kept)
  BY HostFacts
<1>4. ASSUME NEW e \in leaves
      PROVE  /\ e.journal = Disk.journal /\ e.config = Disk.config
             /\ e.configPrevious = Disk.configPrevious
             /\ Worth(e, wg, txn.kept) /\ ~Settled(e) /\ e.config.source = Former(e).source
  <2>1. CASE SameFiles(e, Disk)
    <3>1. Worth(e, wg, txn.kept) /\ ~Settled(e)
      BY <1>2, <1>3, <2>1, SameWorth DEF SameFiles
    <3>2. QED
      BY <1>1, <2>1, <3>1 DEF SameFiles, Former
  <2>2. CASE ~SameFiles(e, Disk)
    <3>1. /\ e.journal = Disk.journal /\ e.config = Disk.config
          /\ e.configPrevious = Disk.configPrevious
          /\ e.credentialPrevious = Disk.credentialPrevious
      BY <2>2
    <3>2. \/ ~Disk.journal.hadKey /\ e.credential = None
          \/ /\ Disk.journal.hadKey /\ Disk.credentialPrevious # None
             /\ e.credential = Disk.credentialPrevious
      BY <1>1, <2>2
    <3>3. Disk.journal.keyChanged
      BY <1>1
    <3>4. Worth(e, wg, txn.kept) /\ ~Settled(e) /\ e.config.source = Former(e).source
      BY <1>1, <1>2, <1>3, <3>1, <3>2, <3>3, RekeyedWorth
    <3>5. QED
      BY <3>1, <3>4
  <2>3. QED
    BY <2>1, <2>2
<1>5. QED
  BY <1>1, <1>4, RollbackLeaves

\* RestoreKey keeps SInv.
LEMMA RestoreKeySound ==
  ASSUME SInv, Shut, RestoreKey
  PROVE  HostInv' /\ RunInv' /\ Timed' /\ verdict' # "stuck"
<1> DEFINE j == run.journal
<1> DEFINE Proceeds == /\ pc' = "dropPreManaged" /\ run' = run /\ verdict' = verdict
<1>1. /\ pc = "restoreKey" /\ UNCHANGED <<wg, timer, txn>>
      /\ \/ /\ \/ /\ j.keyChanged /\ ~j.hadKey
                  /\ \/ Completed(Removed(Disk, "credential"))
                     \/ /\ Removed(Disk, "credential") = Disk
                        /\ UNCHANGED <<images, status, faults>>
               \/ j.keyChanged /\ j.hadKey /\ RestoresWith("credentialPrevious", "credential")
               \/ /\ Disk.credentialPrevious = None
                  /\ \/ j.keyChanged /\ j.hadKey /\ j.phase = "prepared"
                     \/ ~j.keyChanged
                  /\ UNCHANGED <<images, status, faults>>
            /\ Proceeds
         \/ j.keyChanged /\ ~j.hadKey /\ NotDone(run, RemoveLeaves(Disk, "credential"))
         \/ j.keyChanged /\ j.hadKey /\ RestoreFails("credentialPrevious", "credential")
         \/ /\ UNCHANGED <<images, status, faults>> /\ End("stuck")
            /\ \/ j.keyChanged /\ j.hadKey /\ Disk.credentialPrevious = None
                  /\ j.phase # "prepared"
               \/ ~j.keyChanged /\ Disk.credentialPrevious # None
  BY HostFacts, RestoreKeyLands
<1>2. /\ Rolling(pc, run) /\ Fits(Img, wg) /\ Disk.config.source = Former(Disk).source
      /\ Disk.journal.keyChanged = j.keyChanged /\ Disk.journal.hadKey = j.hadKey
      /\ KeepsKey(j) = KeepsKey(Disk.journal)
  BY <1>1, KeyAgain
<1>3. /\ ~txn.kept /\ Open(Disk) /\ ~Settled(Disk) /\ Disk.journal # None
      /\ j.phase # "prepared" /\ KeepsKey(j) => Disk.credentialPrevious # None
      /\ run.caller \in {"rollback", "undo"}
      /\ Underway(Disk) => \A d \in Img : ~Settled(d)
  BY <1>2, RollingFacts
<1>4. Disk \in Directory /\ Worth(Disk, wg, txn.kept) /\ txn.kept \in BOOLEAN
      /\ Hosts(Img, Disk, wg, txn.kept)
  BY HostFacts DEF HostInv
<1>5. pc \notin {"idle", "enter", "stop"} /\ pc \in RollbackSteps /\ verdict # "stuck"
      /\ run.caller \in Callers /\ run.caller # "apply" /\ "dropPreManaged" \in RollbackSteps
  BY <1>1, <1>3 DEF RollbackSteps, Callers, SInv
<1> DEFINE gone == Removed(Disk, "credential")
<1> DEFINE back == Restored(Disk, "credentialPrevious", "credential")
<1>6. /\ gone.journal = Disk.journal /\ gone.config = Disk.config /\ gone.credential = None
      /\ gone.configPrevious = Disk.configPrevious
      /\ gone.credentialPrevious = Disk.credentialPrevious /\ gone.staging = Disk.staging
  BY <1>4, RemoveForms
<1>7. /\ back.journal = Disk.journal /\ back.config = Disk.config
      /\ back.credential = Disk.credentialPrevious
      /\ back.configPrevious = Disk.configPrevious
      /\ back.credentialPrevious = Disk.credentialPrevious
      /\ back.staging = Disk.staging \ {"credentialPrevious"}
  BY <1>4, RestoreForms
<1> DEFINE removing == RemoveLeaves(Disk, "credential")
<1> DEFINE restoring == RestoreLeaves(Disk, "credentialPrevious", "credential")
<1>8. ASSUME j.keyChanged, ~j.hadKey
      PROVE  /\ removing \subseteq Directory /\ Disk \in removing /\ gone \in removing
             /\ Leaves(removing, wg, txn.kept)
             /\ \A e \in removing : e.config.source = Former(e).source
  <2>1. removing \subseteq Directory /\ Disk \in removing /\ gone \in removing
    BY <1>4, RemoveTypes DEF RemoveLeaves
  <2>2. \A e \in removing : SameFiles(e, Disk) \/ e = gone
    BY <1>4, RemoveForms
  <2> HIDE DEF removing, gone
  <2>3. QED
    BY <1>1, <1>6, <1>8, <2>1, <2>2, RestoreKeyLeaves
<1>9. ASSUME j.keyChanged, j.hadKey, Disk.credentialPrevious # None
      PROVE  /\ restoring \subseteq Directory /\ back \in restoring
             /\ Leaves(restoring, wg, txn.kept)
             /\ \A e \in restoring : e.config.source = Former(e).source
  <2>1. restoring \subseteq Directory /\ back \in restoring
    BY <1>4, <1>9, RestoreTypes DEF RestoreLeaves, WriteLeaves, Restored
  <2>2. \A e \in restoring : SameFiles(e, Disk) \/ e = back
    BY <1>4, RestoreForms DEF StagesFrom
  <2> HIDE DEF restoring, back
  <2>3. QED
    BY <1>1, <1>7, <1>9, <2>1, <2>2, RestoreKeyLeaves
<1>10. ASSUME NEW after, NEW leaves, Leaves(leaves, wg, txn.kept), after \in leaves,
              after.journal = Disk.journal, after.configPrevious = Disk.configPrevious,
              after.credentialPrevious = Disk.credentialPrevious,
              after.staging \subseteq Disk.staging, after.config.source = Former(after).source,
              Completed(after), Proceeds
       PROVE  HostInv' /\ RunInv' /\ Timed' /\ verdict' # "stuck"
  <2>1. after \in Directory /\ Hosts({after}, after, wg, txn.kept) /\ Fits({after}, wg)
    BY <1>10, LeavesAfter
  <2>2. ~Settled(after)
    BY <1>3, <1>10 DEF Settled, Underway, Open
  <2>3. \A one \in BOOLEAN : Runs("dropPreManaged", run, after, {after}, one, wg, txn.kept)
    <3>1. \A d \in {after} : ~Settled(d)
      BY <2>2
    <3>2. QED
      BY <1>2, <1>3, <1>4, <1>5, <1>10, <2>1, <3>1, RollbackKin
  <2>4. QED
    BY <1>1, <1>5, <1>10, <2>1, <2>3, DoneSound
<1>11. ASSUME images' = images, Proceeds
       PROVE  HostInv' /\ RunInv' /\ Timed' /\ verdict' # "stuck"
  <2>1. (Len(images) = 1) \in BOOLEAN /\ Disk.staging \subseteq Disk.staging
    OBVIOUS
  <2>2. Runs("dropPreManaged", run, Disk, Img, Len(images) = 1, wg, txn.kept)
    BY <1>2, <1>3, <1>4, <1>5, <2>1, RollbackKin
  <2>3. QED
    BY <1>1, <1>4, <1>5, <1>11, <2>2, SkipSound
<1>12. ASSUME j.keyChanged, ~j.hadKey, Completed(gone), Proceeds
       PROVE  HostInv' /\ RunInv' /\ Timed' /\ verdict' # "stuck"
  <2> HIDE DEF gone, removing, Proceeds
  <2>1. QED
    BY <1>6, <1>8, <1>10, <1>12
<1>13. ASSUME j.keyChanged, j.hadKey, RestoresWith("credentialPrevious", "credential"), Proceeds
       PROVE  HostInv' /\ RunInv' /\ Timed' /\ verdict' # "stuck"
  <2>1. Disk.credentialPrevious # None /\ Completed(back)
    BY <1>13 DEF RestoresWith
  <2>2. back.staging \subseteq Disk.staging
    BY <1>7
  <2> HIDE DEF back, restoring, Proceeds
  <2>3. QED
    BY <1>7, <1>9, <1>10, <1>13, <2>1, <2>2
<1>14. ASSUME j.keyChanged, ~j.hadKey, NotDone(run, removing)
       PROVE  HostInv' /\ RunInv' /\ Timed' /\ verdict' # "stuck"
  <2> HIDE DEF removing
  <2>1. QED
    BY <1>1, <1>5, <1>8, <1>14, NotDoneSound
<1>15. ASSUME j.keyChanged, j.hadKey, RestoreFails("credentialPrevious", "credential")
       PROVE  HostInv' /\ RunInv' /\ Timed' /\ verdict' # "stuck"
  <2>1. Disk.credentialPrevious # None
    BY <1>15 DEF RestoreFails
  <2>2. QED
    BY <1>1, <1>5, <1>9, <1>15, <2>1, RestoreFailsSound
<1>16. ~(j.keyChanged /\ j.hadKey /\ Disk.credentialPrevious = None /\ j.phase # "prepared")
       /\ ~(~j.keyChanged /\ Disk.credentialPrevious # None)
  BY <1>2, <1>3, <1>4 DEF KeepsKey, Worth
<1> HIDE DEF gone, back, removing, restoring, Proceeds, j
<1>17. QED
  BY <1>1, <1>11, <1>12, <1>13, <1>14, <1>15, <1>16 DEF gone, removing

\* A step that touches no file, and ends the invocation or loses the machine.
LEMMA EndOrLost ==
  ASSUME SInv, Shut, pc \notin {"idle", "enter", "stop"}, timer' = timer,
         pc' = "idle", run' = NoRun, verdict' # "stuck",
         images' = images \/ Lost({}) \/ Lost({Disk}),
         Hosts(Img, Disk, wg', txn'.kept), Fits(Img, wg')
  PROVE  HostInv' /\ RunInv' /\ Timed' /\ verdict' # "stuck"
<1>1. CASE images' = images
  BY <1>1, EndSound
<1>2. CASE Lost({}) \/ Lost({Disk})
  <2>1. Disk \in Directory /\ Disk \in Img
    BY HostFacts
  <2>2. Img \cup {Disk} = Img
    BY <2>1
  <2>3. Leaves({Disk}, wg', txn'.kept)
    BY <2>1, <2>2 DEF Leaves
  <2>4. Lost({Disk})
    BY <1>2 DEF Lost, Shut
  <2>5. HostInv' /\ Fits(Img', wg')
    BY <2>3, <2>4, LostSound
  <2>6. Timed'
    BY Untimed DEF SInv, TInv, Typed
  <2>7. QED
    BY <2>5, <2>6, IdleRuns
<1>3. QED
  BY <1>1, <1>2

\* Profiles that stay as visible keep the host sound.
LEMMA HostsMoved ==
  ASSUME NEW S, NEW D, NEW w, NEW k, NEW v, Hosts(S, D, w, k),
         w.profile # None => v.profile # None,
         (\E d \in S : Settled(d) \/ (k /\ Open(d))) => Visible(v)
  PROVE  Hosts(S, D, v, k)
<1>1. \A d \in S : OpenWorth(d, w) => OpenWorth(d, v)
  BY DEF OpenWorth
<1>2. \A d \in S : Worth(d, v, k)
  BY <1>1 DEF Hosts, Worth
<1>3. QED
  BY <1>2 DEF Hosts, Stands

\* The clean-up can begin.
LEMMA CleanRuns ==
  ASSUME NEW p \in CleanSteps, NEW r, NEW D, NEW S, NEW one \in BOOLEAN, NEW w, NEW k \in BOOLEAN,
         r.caller \in {"recovery", "rollback", "undo", "keep", "finalize"},
         r.caller = "finalize" => D.journal.phase = "verified" /\ Applied(p, r, D, one, w, k),
         D.journal # None, Record(r.journal) = Record(D.journal),
         \/ D.journal.phase \in ClosedPhases
         \/ /\ Underway(D) /\ D.config.source = "static" /\ Visible(w)
            /\ r.caller \in {"recovery", "keep"},
         r.caller \in {"rollback", "undo"} => D.journal.phase = "rolled-back",
         p \in {"cleanKey", "cleanJournal"} =>
           D.configPrevious = None /\ "configPrevious" \notin D.staging,
         p = "cleanJournal" =>
           D.credentialPrevious = None /\ "credentialPrevious" \notin D.staging,
         r.caller \in {"recovery", "rollback"} => D.staging \subseteq Snapshots,
         Fits(S, w)
  PROVE  Runs(p, r, D, S, one, w, k)
<1>1. Recorded(p, r, D)
  BY DEF Recorded, CleanSteps, Deciding, RollbackSteps, Standing
<1>2. Backed(p, r, D, S, w, k)
  BY DEF Backed, Rolling, CleanSteps, RollbackSteps, Standing
<1>3. Cleaning(p, r, D, w, k)
  BY DEF Cleaning
<1>4. Starting(p, r, D, w, k) /\ Applied(p, r, D, one, w, k) /\ Posted(p, r, D, one)
  BY DEF Starting, Applied, Posted, CleanSteps, PostSteps
<1>5. QED
  BY <1>1, <1>2, <1>3, <1>4 DEF Runs

\* A closed record promises nothing more.
LEMMA ClosedWorth ==
  ASSUME NEW d, NEW e, NEW w, NEW k, Worth(d, w, k), d.journal # None,
         e.journal # None, Record(e.journal) = Record(d.journal), e.journal.phase \in ClosedPhases,
         e.config = d.config, e.credential = d.credential,
         e.configPrevious = d.configPrevious, e.credentialPrevious = d.credentialPrevious
  PROVE  Worth(e, w, k) /\ ~Open(e) /\ ~Settled(e) /\ ~Underway(e)
<1>1. ~Open(e) /\ ~Settled(e) /\ ~Underway(e)
  BY DEF Open, Settled, Underway
<1>2. QED
  BY <1>1, RecordsAgree DEF Worth

\* MarkRolledBack keeps SInv.
LEMMA MarkRolledBackSound ==
  ASSUME SInv, Shut, MarkRolledBack
  PROVE  HostInv' /\ RunInv' /\ Timed' /\ verdict' # "stuck"
<1> DEFINE j == RolledBack(run.journal)
<1> DEFINE after == Written(Disk, "journal", j)
<1> DEFINE leaves == WriteLeaves(Disk, "journal", j)
<1>1. /\ pc = "markRolledBack" /\ UNCHANGED <<wg, timer, txn>>
      /\ run.journal \in Journal /\ j \in Journal
      /\ \/ /\ Completed(after) /\ pc' = "cleanConfig" /\ run' = run /\ verdict' = verdict
         \/ NotDone(run, leaves)
  BY HostFacts, MarkRolledBackLands
<1>2. Rolling(pc, run)
  BY <1>1 DEF Rolling, RollbackSteps
<1>3. /\ ~txn.kept /\ Open(Disk) /\ ~Settled(Disk) /\ Disk.journal # None
      /\ (\E d \in Img : Settled(d)) => Disk.config.source = "static" /\ Disk.configPrevious = None
      /\ Record(run.journal) = Record(Disk.journal)
      /\ run.caller \in {"rollback", "undo"}
      /\ run.caller = "rollback" => Disk.staging \subseteq Snapshots
  BY <1>2, RollingFacts
<1>4. Disk \in Directory /\ Disk \in Img /\ Worth(Disk, wg, txn.kept) /\ txn.kept \in BOOLEAN
      /\ HostInv /\ Stands(Img, Disk, wg, txn.kept) /\ Alone(Img)
      /\ \A d \in Img : Worth(d, wg, txn.kept)
  BY HostFacts
<1>5. j # None /\ Record(j) = Record(Disk.journal) /\ j.phase = "rolled-back"
      /\ UndoesAdoption(j) = UndoesAdoption(Disk.journal)
  <2>1. j.operation = run.journal.operation /\ j.hadKey = run.journal.hadKey
        /\ j.hadPreManaged = run.journal.hadPreManaged /\ j.keyChanged = run.journal.keyChanged
        /\ j.phase = "rolled-back"
    BY <1>1, JournalRecords DEF RolledBack
  <2>2. Record(j) = Record(run.journal)
    BY <2>1 DEF Record
  <2>3. j # None
    BY <1>1, NoneApart
  <2> HIDE DEF j
  <2>4. QED
    BY <1>3, <2>1, <2>2, <2>3, RecordsAgree
<1>6. /\ after \in Directory /\ leaves \subseteq Directory /\ Disk \in leaves /\ after \in leaves
  BY <1>1, <1>4, WriteTypes DEF WriteLeaves, Entry
<1> HIDE DEF j
<1>7. /\ after.journal = j /\ after.config = Disk.config /\ after.credential = Disk.credential
      /\ after.configPrevious = Disk.configPrevious
      /\ after.credentialPrevious = Disk.credentialPrevious /\ after.staging = Disk.staging
  BY <1>4 DEF Written, Directory
<1> HIDE DEF after
<1>8. Worth(after, wg, txn.kept) /\ ~Open(after) /\ ~Settled(after) /\ ~Underway(after)
  <2>1. j.phase \in ClosedPhases
    BY <1>5 DEF ClosedPhases
  <2>2. QED
    BY <1>3, <1>4, <1>5, <1>7, <2>1, ClosedWorth
<1>9. ASSUME NEW e \in leaves
      PROVE  /\ Worth(e, wg, txn.kept) /\ e.config = Disk.config
             /\ e.configPrevious = Disk.configPrevious /\ e.journal \in {Disk.journal, j}
             /\ ~Settled(e) /\ (Underway(e) => Underway(Disk))
  <2>1. CASE StagesFrom(e, Disk, "journal")
    <3>1. SameFiles(e, Disk)
      BY <2>1 DEF StagesFrom
    <3>2. Worth(e, wg, txn.kept) /\ ~Settled(e)
      BY <1>3, <1>4, <3>1, SameWorth DEF SameFiles
    <3>3. QED
      BY <3>1, <3>2 DEF SameFiles, Underway, Open
  <2>2. CASE e = after
    BY <1>7, <1>8, <2>2
  <2>3. QED
    BY <1>4, <2>1, <2>2, JournalForms DEF leaves, after
<1> HIDE DEF leaves
<1>10. ASSUME Fits(Img, wg) PROVE Leaves(leaves, wg, txn.kept)
  <2>1. (\E d \in Img \cup leaves : Underway(d)) => \E d \in Img : Underway(d)
    BY <1>4, <1>9
  <2>2. (\E d \in Img \cup leaves : Underway(d)) =>
           /\ ~UndoesAdoption(j)
           /\ None \notin {wg.profile, wg.preManaged}
           /\ \A d \in Img : d.journal # None => ~UndoesAdoption(d.journal)
    BY <1>3, <1>4, <1>5, <1>10, <2>1 DEF Fits, Alone
  <2>3. (\E d \in Img \cup leaves : Settled(d)) =>
           /\ Disk.config.source = "static"
           /\ \A e \in leaves : Open(e) => Underway(e) \/ e.configPrevious = None
    BY <1>3, <1>9
  <2>4. \A e \in leaves : Settled(e) \/ (txn.kept /\ Open(e)) => Visible(wg)
    BY <1>3, <1>9
  <2>5. \A e \in leaves : Worth(e, wg, txn.kept) /\ e.config = Disk.config
                           /\ e.configPrevious = Disk.configPrevious
                           /\ e.journal \in {Disk.journal, j}
    BY <1>9
  <2>6. QED
    BY <1>4, <1>5, <1>6, <1>10, <2>2, <2>3, <2>4, <2>5, MarkLeaves
<1>11. pc \notin {"idle", "enter", "stop"} /\ run.caller \in Callers /\ run.caller # "apply"
       /\ verdict # "stuck"
  BY <1>1, <1>3 DEF Callers, SInv
<1>12. ASSUME Completed(after), pc' = "cleanConfig", run' = run, verdict' = verdict
       PROVE  HostInv' /\ RunInv' /\ Timed' /\ verdict' # "stuck"
  <2>1. Hosts({after}, after, wg, txn.kept) /\ Fits({after}, wg)
    BY <1>3, <1>8 DEF Hosts, Stands, Alone, Fits
  <2>2. \A one \in BOOLEAN : Runs("cleanConfig", run, after, {after}, one, wg, txn.kept)
    <3>1. after.journal # None /\ Record(run.journal) = Record(after.journal)
          /\ after.journal.phase = "rolled-back" /\ after.journal.phase \in ClosedPhases
      BY <1>3, <1>5, <1>7 DEF ClosedPhases
    <3>2. "cleanConfig" \in CleanSteps
          /\ run.caller \in {"recovery", "rollback", "undo", "keep", "finalize"}
          /\ run.caller # "finalize"
      BY <1>3 DEF CleanSteps
    <3>3. run.caller \in {"recovery", "rollback"} => after.staging \subseteq Snapshots
      BY <1>3, <1>7
    <3>4. QED
      BY <1>4, <2>1, <3>1, <3>2, <3>3, CleanRuns
  <2>3. QED
    BY <1>1, <1>6, <1>11, <1>12, <2>1, <2>2, DoneSound
<1>13. ASSUME NotDone(run, leaves), Fits(Img, wg)
       PROVE  HostInv' /\ RunInv' /\ Timed' /\ verdict' # "stuck"
  BY <1>1, <1>6, <1>10, <1>11, <1>13, NotDoneSound
<1>14. ASSUME Refusing(pc, run, Disk, Len(images) = 1), Unmanaged
       PROVE  Completed(after) /\ pc' = "cleanConfig" /\ run' = run /\ verdict' = verdict
  <2>1. "journal" \notin Disk.staging
    BY <1>14 DEF Refusing
  <2>2. StoreCall(run, after, leaves, Go("cleanConfig", run))
    BY <2>1 DEF MarkRolledBack, PersistJournal, AtomicWrite, after, leaves, j
  <2>3. Completed(after) /\ Go("cleanConfig", run)
    BY <1>14, <2>2, CallDone
  <2>4. QED
    BY <2>3 DEF Go
<1>15. QED
  BY <1>1, <1>12, <1>13, <1>14, FitsOr

\* Drop keeps SInv.
LEMMA DropSound ==
  ASSUME SInv, Shut, DropPreManaged
  PROVE  HostInv' /\ RunInv' /\ Timed' /\ verdict' # "stuck"
<1> DEFINE dropped == [wg EXCEPT !.preManaged = None]
<1>1. pc = "dropPreManaged" /\ UNCHANGED <<timer, txn>>
  BY DEF DropPreManaged
<1>2. \/ /\ wg' = IF UndoesAdoption(run.journal) THEN dropped ELSE wg
         /\ images' = images /\ pc' = "markRolledBack" /\ run' = run /\ verdict' = verdict
      \/ /\ UndoesAdoption(run.journal) /\ wg' \in {wg, dropped}
         /\ \/ images' = images /\ Raise(run)
            \/ Killed(images, status)
  BY DEF DropPreManaged, Skip, Go
<1>3. Rolling(pc, run) /\ pc \notin {"idle", "enter", "stop"}
  BY <1>1 DEF Rolling, RollbackSteps
<1>4. /\ ~txn.kept /\ Disk.journal # None /\ Record(run.journal) = Record(Disk.journal)
      /\ run.caller \in {"rollback", "undo"}
      /\ Underway(Disk) => \A d \in Img : ~Settled(d)
  BY <1>3, RollingFacts
<1>5. UndoesAdoption(run.journal) = UndoesAdoption(Disk.journal)
  BY <1>4, RecordsAgree
<1>6. Hosts(Img, Disk, wg, txn.kept) /\ Alone(Img) /\ Disk \in Img /\ Fits(Img, wg)
      /\ txn.kept \in BOOLEAN
  BY <1>1, HostFacts, FitsElse DEF HostInv
<1>7. wg \in Host /\ dropped.profile = wg.profile
  BY HostFacts, Hosted DEF Host
<1>8. ASSUME UndoesAdoption(run.journal)
      PROVE  Hosts(Img, Disk, dropped, txn.kept) /\ Fits(Img, dropped)
  <2>1. \A d \in Img : ~Underway(d) /\ ~Settled(d)
    BY <1>4, <1>5, <1>6, <1>8 DEF Alone, Settled
  <2>2. Fits(Img, dropped)
    BY <2>1 DEF Fits
  <2>3. Hosts(Img, Disk, dropped, txn.kept)
    BY <1>4, <1>6, <1>7, <2>1, HostsMoved
  <2>4. QED
    BY <2>2, <2>3
<1> HIDE DEF dropped
<1>9. Hosts(Img, Disk, wg', txn'.kept) /\ Fits(Img, wg') /\ txn'.kept = txn.kept
  BY <1>1, <1>2, <1>6, <1>8
<1>10. CASE /\ images' = images /\ pc' = "markRolledBack" /\ run' = run /\ verdict' = verdict
  <2>1. Disk.config.source = Former(Disk).source
    BY <1>1 DEF SInv, RunInv, Runs, Backed
  <2>2. (Len(images) = 1) \in BOOLEAN /\ "markRolledBack" \in RollbackSteps
        /\ Disk.staging \subseteq Disk.staging
    BY DEF RollbackSteps
  <2>3. Runs("markRolledBack", run, Disk, Img, Len(images) = 1, wg', txn.kept)
    BY <1>3, <1>4, <1>6, <1>9, <2>1, <2>2, RollbackKin
  <2>4. QED
    BY <1>1, <1>3, <1>9, <1>10, <2>3, SkipSound DEF SInv
<1>11. CASE images' = images /\ Raise(run)
  <2>1. run.caller \in Callers /\ run.caller # "apply"
    BY <1>4 DEF Callers
  <2>2. Img' = Img /\ Disk' = Disk
    BY <1>11 DEF Img, Disk
  <2>3. RunInv' /\ verdict' # "stuck"
    BY <1>9, <1>11, <2>1, <2>2, RaiseSound DEF SInv
  <2>4. HostInv' /\ Timed'
    BY <1>1, <1>3, <1>9, <2>2, Untimed DEF HostInv, SInv, TInv, Typed
  <2>5. QED
    BY <2>3, <2>4
<1>12. CASE Killed(images, status)
  <2>1. images \in Seq(Directory) /\ Len(images) >= 1
    BY HostFacts, TypedFacts DEF Typed
  <2>2. End("killed") /\ (images' = images \/ Lost({}))
    BY <1>12, <2>1, KilledImages
  <2>3. QED
    BY <1>1, <1>3, <1>9, <2>2, EndOrLost DEF End
<1>13. QED
  BY <1>2, <1>10, <1>11, <1>12

(* ---------------------------- the clean-up ------------------------------ *)

\* What the invariant says during a clean-up.
LEMMA CleaningFacts ==
  ASSUME SInv, pc \in CleanSteps
  PROVE  /\ Disk.journal # None /\ run.journal # None /\ Record(run.journal) = Record(Disk.journal)
         /\ run.caller \in {"recovery", "rollback", "undo", "keep", "finalize"}
         /\ run.caller \in Callers /\ run.caller # "apply"
         /\ \/ Disk.journal.phase \in ClosedPhases /\ ~Open(Disk) /\ ~Underway(Disk)
            \/ /\ Underway(Disk) /\ Disk.config.source = "static" /\ Visible(wg)
               /\ run.caller \in {"recovery", "keep"}
         /\ run.caller \in {"rollback", "undo"} => Disk.journal.phase = "rolled-back"
         /\ run.caller = "finalize" =>
              /\ Disk.journal.phase = "verified" /\ Len(images) = 1 /\ Disk.staging = {}
              /\ Applied(pc, run, Disk, Len(images) = 1, wg, txn.kept)
         /\ pc \in {"cleanKey", "cleanJournal"} =>
              Disk.configPrevious = None /\ "configPrevious" \notin Disk.staging
         /\ pc = "cleanJournal" =>
              Disk.credentialPrevious = None /\ "credentialPrevious" \notin Disk.staging
         /\ run.caller \in {"recovery", "rollback"} => Disk.staging \subseteq Snapshots
         /\ Fits(Img, wg) /\ pc \notin {"idle", "enter", "stop"}
<1>1. /\ Recorded(pc, run, Disk) /\ Cleaning(pc, run, Disk, wg, txn.kept)
      /\ Applied(pc, run, Disk, Len(images) = 1, wg, txn.kept)
  BY DEF SInv, RunInv, Runs
<1>2. pc \notin {"idle", "enter", "stop", "discard", "ready", "prepare"} /\ Fits(Img, wg)
  BY FitsElse DEF CleanSteps
<1>3. run.caller \in {"recovery", "rollback", "undo", "keep", "finalize"} /\ run.journal # None
  BY <1>2 DEF SInv, TInv, Control, CallerAt
<1>4. run.caller \in Callers /\ run.caller # "apply"
  BY <1>3 DEF Callers
<1>5. Disk.journal # None /\ Record(run.journal) = Record(Disk.journal)
  BY <1>1 DEF Recorded
<1>6. \/ Disk.journal.phase \in ClosedPhases /\ ~Open(Disk) /\ ~Underway(Disk)
      \/ /\ Underway(Disk) /\ Disk.config.source = "static" /\ Visible(wg)
         /\ run.caller \in {"recovery", "keep"}
  BY <1>1 DEF Cleaning, Open, Underway
<1>7. run.caller = "finalize" =>
        Disk.journal.phase = "verified" /\ Len(images) = 1 /\ Disk.staging = {}
  BY <1>1, <1>2 DEF Cleaning, Applied
<1>8. QED
  BY <1>1, <1>2, <1>3, <1>4, <1>5, <1>6, <1>7 DEF Cleaning

\* What a clean-up removes is not needed any more.
LEMMA CleanedWorth ==
  ASSUME NEW d \in Directory, NEW e, NEW w, NEW k, Worth(d, w, k), d.journal # None,
         \/ d.journal.phase \in ClosedPhases
         \/ Underway(d) /\ d.config.source = "static",
         e.journal = d.journal, e.config = d.config, e.credential = d.credential,
         \/ e.configPrevious = None /\ e.credentialPrevious = d.credentialPrevious
         \/ e.configPrevious = d.configPrevious /\ e.credentialPrevious = None
  PROVE  Worth(e, w, k)
<1>1. Open(e) = Open(d) /\ Underway(e) = Underway(d)
  BY DEF Open, Underway
<1>2. CASE d.journal.phase \in ClosedPhases
  <2>1. ~Open(e) /\ ~Settled(e)
    BY <1>1, <1>2 DEF Open, Settled, Underway
  <2>2. QED
    BY <1>1, <1>2, <2>1 DEF Worth, Open, Settled, Underway
<1>3. CASE Underway(d) /\ d.config.source = "static"
  <2>1. ~d.journal.keyChanged /\ d.journal.operation = "static-restore"
    BY <1>3, JournalRecords DEF Underway, Directory, ValidateSemantics, StaticOperations
  <2>2. d.credentialPrevious = None /\ e.credentialPrevious = None
    BY <2>1 DEF Worth
  <2>3. FormerKey(e) = FormerKey(d)
    BY <2>1 DEF FormerKey
  <2>4. Former(e).source = "static" \/ e.configPrevious = d.configPrevious
    BY <1>3 DEF Former
  <2>5. e.configPrevious = None => Settled(e) \/ e.journal.phase = "activating"
    BY <1>1, <1>3 DEF Settled
  <2>6. e.configPrevious = d.configPrevious => Former(e) = Former(d) /\ Settled(e) = Settled(d)
    BY <1>1 DEF Former, Settled
  <2>7. e.configPrevious = None => Former(e).source = "static" /\ Settled(e)
    BY <1>1, <1>3 DEF Settled, Former
  <2>8. OpenWorth(d, w)
    BY <1>3 DEF Worth, Underway
  <2>9. OpenWorth(e, w)
    BY <2>1, <2>3, <2>6, <2>7, <2>8 DEF OpenWorth, KeepsKey
  <2>10. QED
    BY <1>1, <1>3, <2>1, <2>2, <2>9 DEF Worth
<1>4. QED
  BY <1>2, <1>3

\* What removing a snapshot may leave.
LEMMA CleanLeaves ==
  ASSUME SInv, pc \in CleanSteps, NEW leaves \in SUBSET Directory,
         \A e \in leaves :
           /\ e.journal \in {Disk.journal, None} /\ e.config = Disk.config
           /\ Worth(e, wg, txn.kept)
  PROVE  Leaves(leaves, wg, txn.kept)
<1>1. Fits(Img, wg)
      /\ \/ ~Open(Disk) /\ ~Underway(Disk)
         \/ Underway(Disk) /\ Disk.config.source = "static" /\ Visible(wg)
  BY CleaningFacts
<1>2. HostInv /\ Disk \in Img /\ Stands(Img, Disk, wg, txn.kept)
      /\ \A d \in Img : Worth(d, wg, txn.kept)
  BY HostFacts
<1>3. \A e \in leaves : /\ Open(e) => Open(Disk) /\ Underway(e)
                        /\ Underway(e) => Underway(Disk)
                        /\ Settled(e) => Visible(wg) /\ Disk.config.source = "static"
  BY <1>1 DEF Open, Underway, Settled
<1>4. (\E d \in Img \cup leaves : Settled(d)) =>
           \A e \in leaves :
             /\ e.config.source = "static"
             /\ Open(e) => Underway(e) \/ e.configPrevious = None
  BY <1>2, <1>3 DEF Stands
<1>5. QED
  BY <1>1, <1>2, <1>3, <1>4, KinLeaves

\* Removing a snapshot.
LEMMA CleanSound ==
  ASSUME SInv, Shut,
         NEW backup \in {"configPrevious", "credentialPrevious"}, NEW next \in {"cleanKey", "cleanJournal"},
         \/ pc = "cleanConfig" /\ backup = "configPrevious" /\ next = "cleanKey"
         \/ pc = "cleanKey" /\ backup = "credentialPrevious" /\ next = "cleanJournal",
         UNCHANGED <<wg, timer, txn>>,
         \/ Gone(backup) /\ pc' = next /\ run' = run /\ verdict' = verdict
         \/ NotDone(run, RemoveLeaves(Disk, backup))
  PROVE  HostInv' /\ RunInv' /\ Timed' /\ verdict' # "stuck"
<1> DEFINE after == Removed(Disk, backup)
<1> DEFINE leaves == RemoveLeaves(Disk, backup)
<1>1. pc \in CleanSteps /\ next \in CleanSteps
  BY DEF CleanSteps
<1>2. Disk \in Directory /\ Worth(Disk, wg, txn.kept) /\ txn.kept \in BOOLEAN
      /\ Hosts(Img, Disk, wg, txn.kept)
  BY HostFacts DEF HostInv
<1>3. /\ Disk.journal # None /\ Record(run.journal) = Record(Disk.journal)
      /\ run.caller \in {"recovery", "rollback", "undo", "keep", "finalize"}
      /\ run.caller \in Callers /\ run.caller # "apply"
      /\ \/ Disk.journal.phase \in ClosedPhases
         \/ /\ Underway(Disk) /\ Disk.config.source = "static" /\ Visible(wg)
            /\ run.caller \in {"recovery", "keep"}
      /\ run.caller \in {"rollback", "undo"} => Disk.journal.phase = "rolled-back"
      /\ run.caller = "finalize" =>
           /\ Disk.journal.phase = "verified" /\ Len(images) = 1 /\ Disk.staging = {}
           /\ Applied(pc, run, Disk, Len(images) = 1, wg, txn.kept)
      /\ pc = "cleanKey" => Disk.configPrevious = None /\ "configPrevious" \notin Disk.staging
      /\ run.caller \in {"recovery", "rollback"} => Disk.staging \subseteq Snapshots
      /\ Fits(Img, wg) /\ pc \notin {"idle", "enter", "stop"}
  BY <1>1, CleaningFacts
<1>4. /\ leaves \subseteq Directory /\ Disk \in leaves /\ after \in leaves
  BY <1>2, RemoveTypes DEF RemoveLeaves
<1>5. /\ after.journal = Disk.journal /\ after.config = Disk.config
      /\ after.credential = Disk.credential /\ after.staging = Disk.staging \ {backup}
      /\ after.configPrevious = IF backup = "configPrevious" THEN None ELSE Disk.configPrevious
      /\ after.credentialPrevious =
           IF backup = "credentialPrevious" THEN None ELSE Disk.credentialPrevious
  BY <1>2, RemoveForms
<1>6. \A e \in leaves : (SameFiles(e, Disk) /\ e.staging \subseteq Disk.staging) \/ e = after
  BY <1>2, RemoveForms
<1> HIDE DEF after, leaves
<1>7. ASSUME NEW e \in leaves
      PROVE  e.journal = Disk.journal /\ e.config = Disk.config /\ Worth(e, wg, txn.kept)
  <2>1. CASE SameFiles(e, Disk)
    BY <1>2, <1>3, <2>1, SameWorth DEF SameFiles
  <2>2. CASE e = after
    <3>1. \/ e.configPrevious = None /\ e.credentialPrevious = Disk.credentialPrevious
          \/ e.configPrevious = Disk.configPrevious /\ e.credentialPrevious = None
      BY <1>5, <2>2
    <3>2. QED
      BY <1>2, <1>3, <1>5, <2>2, <3>1, CleanedWorth
  <2>3. QED
    BY <1>6, <2>1, <2>2
<1>8. Leaves(leaves, wg, txn.kept)
  BY <1>1, <1>4, <1>7, CleanLeaves
<1>9. ASSUME NEW D, NEW S, NEW one \in BOOLEAN, Fits(S, wg),
             D.journal = Disk.journal, D.config = Disk.config,
             D.configPrevious = after.configPrevious,
             D.credentialPrevious = after.credentialPrevious,
             D.staging = Disk.staging \ {backup}, Len(images) = 1 => one
      PROVE  Runs(next, run, D, S, one, wg, txn.kept)
  <2>1. Underway(D) = Underway(Disk)
    BY <1>9 DEF Underway, Open
  <2>2. next \in {"cleanKey", "cleanJournal"} =>
          D.configPrevious = None /\ "configPrevious" \notin D.staging
    BY <1>3, <1>5, <1>9
  <2>3. next = "cleanJournal" =>
          D.credentialPrevious = None /\ "credentialPrevious" \notin D.staging
    BY <1>5, <1>9
  <2>4. run.caller = "finalize" =>
          D.journal.phase = "verified" /\ Applied(next, run, D, one, wg, txn.kept)
    <3>1. SUFFICES ASSUME run.caller = "finalize"
                   PROVE  D.journal.phase = "verified" /\ Applied(next, run, D, one, wg, txn.kept)
      OBVIOUS
    <3>2. D.journal.phase = "verified" /\ one /\ D.staging = {}
      BY <1>3, <1>9, <3>1
    <3>3. pc # "prepare" /\ pc \notin Standing
      BY <1>1 DEF CleanSteps, Standing
    <3>4. /\ txn.kept => Visible(wg)
          /\ run.request.mode = "static" => Disk.config.source = "static"
      BY <1>1, <1>3, <3>1, <3>3 DEF Applied
    <3>5. QED
      BY <1>1, <1>9, <3>2, <3>4 DEF Applied, CleanSteps
  <2>5. run.caller \in {"recovery", "rollback"} => D.staging \subseteq Snapshots
    BY <1>3, <1>9
  <2>6. D.journal # None /\ Record(run.journal) = Record(D.journal)
        /\ \/ D.journal.phase \in ClosedPhases
           \/ /\ Underway(D) /\ D.config.source = "static" /\ Visible(wg)
              /\ run.caller \in {"recovery", "keep"}
        /\ (run.caller \in {"rollback", "undo"} => D.journal.phase = "rolled-back")
    BY <1>3, <1>9, <2>1
  <2>7. QED
    BY <1>1, <1>2, <1>3, <1>9, <2>2, <2>3, <2>4, <2>5, <2>6, CleanRuns
<1>10. ASSUME Completed(after), pc' = next, run' = run, verdict' = verdict
       PROVE  HostInv' /\ RunInv' /\ Timed' /\ verdict' # "stuck"
  <2>1. after \in Directory /\ Hosts({after}, after, wg, txn.kept) /\ Fits({after}, wg)
    BY <1>4, <1>8, LeavesAfter
  <2>2. \A one \in BOOLEAN : one => Runs(next, run, after, {after}, one, wg, txn.kept)
    BY <1>5, <1>9, <2>1
  <2>3. QED
    BY <1>3, <1>10, <2>1, <2>2, DoneSound DEF SInv
<1>11. ASSUME after = Disk, images' = images, pc' = next, run' = run, verdict' = verdict
       PROVE  HostInv' /\ RunInv' /\ Timed' /\ verdict' # "stuck"
  <2>1. (Len(images) = 1) \in BOOLEAN
    OBVIOUS
  <2>2. Runs(next, run, Disk, Img, Len(images) = 1, wg, txn.kept)
    BY <1>3, <1>5, <1>9, <1>11, <2>1
  <2>3. QED
    BY <1>2, <1>3, <1>11, <2>2, SkipSound DEF SInv
<1>12. ASSUME NotDone(run, leaves)
       PROVE  HostInv' /\ RunInv' /\ Timed' /\ verdict' # "stuck"
  BY <1>3, <1>4, <1>8, <1>12, NotDoneSound
<1>13. QED
  BY <1>10, <1>11, <1>12 DEF Gone, after, leaves

\* CleanJournal keeps SInv.
LEMMA CleanJournalSound ==
  ASSUME SInv, Shut, CleanJournal
  PROVE  HostInv' /\ RunInv' /\ Timed' /\ verdict' # "stuck"
<1> DEFINE after == Removed(Disk, "journal")
<1> DEFINE leaves == RemoveLeaves(Disk, "journal")
<1> DEFINE Closes ==
      \/ /\ run.caller \in {"recovery", "rollback"} /\ pc' = "ready" /\ verdict' = verdict
         /\ run' = [run EXCEPT !.caller = "none", !.journal = None]
      \/ run.caller = "undo" /\ End("failed")
      \/ run.caller = "keep" /\ End("kept")
      \/ /\ run.caller = "finalize" /\ pc' = "reset" /\ verdict' = verdict
         /\ run' = [run EXCEPT !.caller = "post"]
<1>1. /\ pc = "cleanJournal" /\ UNCHANGED <<wg, timer, txn>>
      /\ (Gone("journal") /\ Closes) \/ NotDone(run, leaves)
  BY HostFacts, CleanJournalLands
<1>2. Disk \in Directory /\ Worth(Disk, wg, txn.kept) /\ txn.kept \in BOOLEAN /\ TInv
  BY HostFacts
<1>3. pc \in CleanSteps
  BY <1>1 DEF CleanSteps
<1>4. /\ Disk.journal # None /\ Disk.configPrevious = None /\ Disk.credentialPrevious = None
      /\ "configPrevious" \notin Disk.staging /\ "credentialPrevious" \notin Disk.staging
      /\ run.caller \in Callers /\ run.caller # "apply"
      /\ run.caller \in {"recovery", "rollback"} => Disk.staging \subseteq Snapshots
      /\ run.caller = "finalize" =>
           Disk.staging = {} /\ Applied(pc, run, Disk, Len(images) = 1, wg, txn.kept)
      /\ pc \notin {"idle", "enter", "stop"}
  BY <1>1, <1>3, CleaningFacts
<1>5. /\ leaves \subseteq Directory /\ Disk \in leaves /\ after \in leaves
  BY <1>2, RemoveTypes DEF RemoveLeaves
<1>6. /\ after.journal = None /\ after.config = Disk.config /\ after.credential = Disk.credential
      /\ after.configPrevious = None /\ after.credentialPrevious = None
      /\ after.staging = Disk.staging
  BY <1>2, <1>4, RemoveForms
<1>7. \A e \in leaves : (SameFiles(e, Disk) /\ e.staging \subseteq Disk.staging) \/ e = after
  BY <1>2, RemoveForms
<1>8. Disk.staging \subseteq PrivateTargets
  BY <1>2, <1>4 DEF Directory, PrivateTargets, Entry
<1> HIDE DEF after, leaves
<1>9. ASSUME NEW e \in leaves
      PROVE  e.journal \in {Disk.journal, None} /\ e.config = Disk.config /\ Worth(e, wg, txn.kept)
  <2>1. CASE SameFiles(e, Disk)
    BY <1>2, <1>4, <2>1, SameWorth DEF SameFiles
  <2>2. CASE e = after
    BY <1>2, <1>6, <1>8, <2>2 DEF Worth, Open, Settled, Underway
  <2>3. QED
    BY <1>7, <2>1, <2>2
<1>10. Leaves(leaves, wg, txn.kept)
  BY <1>3, <1>5, <1>9, CleanLeaves
<1>11. CASE NotDone(run, leaves)
  BY <1>1, <1>4, <1>5, <1>10, <1>11, NotDoneSound
<1>12. CASE Gone("journal") /\ Closes
  <2>1. Completed(after)
    BY <1>4, <1>6, <1>12 DEF Gone, after
  <2>2. after \in Directory /\ Hosts({after}, after, wg, txn.kept) /\ Fits({after}, wg)
    BY <1>5, <1>10, LeavesAfter
  <2>3. Img' = {after} /\ Disk' = after /\ Len(images') = 1
    BY <2>1, <2>2, OneImage DEF Completed
  <2>4. CASE /\ run.caller \in {"recovery", "rollback"} /\ pc' = "ready" /\ verdict' = verdict
             /\ run' = [run EXCEPT !.caller = "none", !.journal = None]
    <3>1. run'.caller = "none"
      BY <1>2, <2>4, RunFacts DEF RunType
    <3>2. SetupArtifactsClear(after)
      BY <1>4, <1>6, <1>8, <2>4 DEF SetupArtifactsClear, Snapshots, PrivateTargets
    <3>3. \A one \in BOOLEAN : Runs("ready", run', after, {after}, one, wg, txn.kept)
      BY <2>2, <3>1, <3>2 DEF Runs, Recorded, Backed, Cleaning, Starting, Applied, Posted,
        Rolling, Deciding, RollbackSteps, CleanSteps, Standing, PostSteps
    <3>4. QED
      BY <1>1, <1>4, <2>1, <2>2, <2>4, <3>3, DoneSound DEF SInv
  <2>5. CASE /\ run.caller = "finalize" /\ pc' = "reset" /\ verdict' = verdict
             /\ run' = [run EXCEPT !.caller = "post"]
    <3>1. run'.caller = "post" /\ run'.request = run.request
      BY <1>2, <2>5, RunFacts DEF RunType
    <3>2. SetupArtifactsClear(after)
      BY <1>4, <1>6, <2>5 DEF SetupArtifactsClear
    <3>3. run.request.mode = "static" => after.config.source = "static"
      BY <1>1, <1>3, <1>4, <1>6, <2>5 DEF Applied
    <3>4. \A one \in BOOLEAN : one => Runs("reset", run', after, {after}, one, wg, txn.kept)
      BY <2>2, <3>1, <3>2, <3>3 DEF Runs, Recorded, Backed, Cleaning, Starting, Applied, Posted,
        Rolling, Deciding, RollbackSteps, CleanSteps, Standing, PostSteps
    <3>5. QED
      BY <1>1, <1>4, <2>1, <2>2, <2>5, <3>4, DoneSound DEF SInv
  <2>6. CASE End("failed") \/ End("kept")
    <3>1. pc' = "idle" /\ run' = NoRun /\ verdict' # "stuck"
      BY <2>6 DEF End
    <3>2. RunInv'
      BY <1>1, <2>2, <2>3, <3>1, IdleRuns
    <3>3. HostInv' /\ Timed'
      BY <1>1, <1>2, <1>4, <2>2, <2>3, Untimed, HostFacts DEF HostInv, SInv
    <3>4. QED
      BY <3>1, <3>2, <3>3
  <2>7. QED
    BY <1>12, <2>4, <2>5, <2>6
<1>13. QED
  BY <1>1, <1>11, <1>12

\* CleanUp keeps SInv.
LEMMA CleanUpSound ==
  ASSUME SInv, Shut, CleanUp
  PROVE  HostInv' /\ RunInv' /\ Timed' /\ verdict' # "stuck"
<1>1. CASE CleanConfig
  BY <1>1, HostFacts, CleanConfigLands, CleanSound
<1>2. CASE CleanKey
  BY <1>2, HostFacts, CleanKeyLands, CleanSound
<1>3. CASE CleanJournal
  BY <1>3, CleanJournalSound
<1>4. QED
  BY <1>1, <1>2, <1>3 DEF CleanUp

(* ---------------------------- the recovery ------------------------------ *)

\* What discarding the staging names may leave.
LEMMA StagingLeaves ==
  ASSUME SInv, Fits(Img, wg), NEW leaves \in SUBSET Directory,
         \A e \in leaves : SameFiles(e, Disk) /\ e.staging \subseteq Disk.staging
  PROVE  Leaves(leaves, wg, txn.kept)
<1>1. HostInv /\ Disk \in Img /\ Stands(Img, Disk, wg, txn.kept) /\ Worth(Disk, wg, txn.kept)
      /\ \A d \in Img : Worth(d, wg, txn.kept)
  BY HostFacts
<1>2. ASSUME NEW e \in leaves
      PROVE  /\ e.journal \in {Disk.journal, None} /\ Worth(e, wg, txn.kept)
             /\ (Settled(e) <=> Settled(Disk)) /\ (Open(e) <=> Open(Disk))
             /\ (Underway(e) <=> Underway(Disk))
             /\ e.config = Disk.config /\ e.configPrevious = Disk.configPrevious
  <2>1. SameFiles(e, Disk) /\ e.staging \subseteq Disk.staging
    OBVIOUS
  <2>2. e.journal = None => e.staging \subseteq PrivateTargets
    BY <1>1, <2>1 DEF SameFiles, Worth
  <2>3. Worth(e, wg, txn.kept) /\ (Settled(e) <=> Settled(Disk))
    BY <1>1, <2>1, <2>2, SameWorth
  <2>4. QED
    BY <2>1, <2>3 DEF SameFiles, Open, Underway
<1>3. \A e \in leaves : Settled(e) => Visible(wg)
  BY <1>1, <1>2 DEF Stands
<1>4. (\E d \in Img \cup leaves : Settled(d)) => \E d \in Img : Settled(d)
  BY <1>1, <1>2
<1>5. (\E d \in Img \cup leaves : Settled(d)) =>
        \A e \in leaves :
          /\ e.config.source = "static"
          /\ Open(e) => Underway(e) \/ e.configPrevious = None
  BY <1>1, <1>2, <1>4 DEF Stands
<1>6. \A e \in leaves : e.journal \in {Disk.journal, None} /\ Worth(e, wg, txn.kept)
  BY <1>2
<1>7. QED
  BY <1>1, <1>3, <1>5, <1>6, KinLeaves

\* Discard keeps SInv.
LEMMA DiscardSound ==
  ASSUME SInv, Shut, DiscardStaging
  PROVE  HostInv' /\ RunInv' /\ Timed' /\ verdict' # "stuck"
<1> DEFINE after == [Disk EXCEPT !.staging = @ \ PrivateTargets]
<1> DEFINE leaves == {[Disk EXCEPT !.staging = @ \ gone] : gone \in SUBSET PrivateTargets}
<1> DEFINE Reads ==
      \/ /\ Disk.journal # None /\ pc' = "reconcile" /\ verdict' = verdict
         /\ run' = [run EXCEPT !.caller = "recovery", !.journal = Disk.journal]
      \/ /\ SetupArtifactsClear(after) /\ Disk.journal = None
         /\ pc' = "ready" /\ run' = run /\ verdict' = verdict
      \/ /\ Disk.journal = None /\ ~SetupArtifactsClear(after) /\ End("stuck")
<1>1. /\ pc = "discard" /\ UNCHANGED <<wg, timer, txn>>
      /\ \/ /\ Completed(after) \/ (after = Disk /\ UNCHANGED <<images, status, faults>>)
            /\ Reads
         \/ NotDone(run, leaves)
  BY HostFacts, DiscardLands
<1>2. Disk \in Directory /\ Worth(Disk, wg, txn.kept) /\ txn.kept \in BOOLEAN /\ TInv
      /\ Hosts(Img, Disk, wg, txn.kept)
  BY HostFacts DEF HostInv
<1>3. Fits(Img, wg) /\ pc \notin {"idle", "enter", "stop"} /\ verdict # "stuck"
  BY <1>1, FitsElse DEF SInv
<1>4. run.caller = "none" /\ run.caller \in Callers
  BY <1>1, <1>2 DEF TInv, Control, CallerAt, Callers
<1>5. \A e \in leaves : e \in Directory /\ SameFiles(e, Disk) /\ e.staging \subseteq Disk.staging
  BY <1>2 DEF Directory, SameFiles
<1>6. after \in leaves /\ Disk \in leaves
  <2>1. PrivateTargets \in SUBSET PrivateTargets /\ {} \in SUBSET PrivateTargets
    OBVIOUS
  <2>2. Disk = [Disk EXCEPT !.staging = @ \ {}]
    BY <1>2 DEF Directory
  <2>3. QED
    BY <2>1, <2>2
<1>7. SameFiles(after, Disk) /\ after.staging = Disk.staging \ PrivateTargets
      /\ Disk.staging \subseteq Entry
  BY <1>2 DEF Directory, SameFiles
<1> HIDE DEF after, leaves
<1>8. Leaves(leaves, wg, txn.kept)
  BY <1>3, <1>5, StagingLeaves
<1>9. CASE NotDone(run, leaves)
  BY <1>1, <1>3, <1>4, <1>6, <1>8, <1>9, NotDoneSound
<1>10. after.staging \subseteq Snapshots
  BY <1>7 DEF Entry, PrivateTargets, Snapshots
<1>11. ~(Disk.journal = None /\ ~SetupArtifactsClear(after))
  BY <1>2, <1>7 DEF Worth, SetupArtifactsClear, SameFiles
<1>12. ASSUME Reads, NEW D, NEW S, NEW one \in BOOLEAN, SameFiles(D, Disk),
              D.staging = after.staging, Fits(S, wg)
       PROVE  Runs(pc', run', D, S, one, wg, txn.kept)
  <2>1. CASE /\ Disk.journal # None /\ pc' = "reconcile" /\ verdict' = verdict
             /\ run' = [run EXCEPT !.caller = "recovery", !.journal = Disk.journal]
    <3>1. run'.caller = "recovery" /\ run'.journal = Disk.journal
      BY <1>2, <2>1, RunFacts DEF RunType
    <3>2. D.journal = Disk.journal /\ D.journal # None
      BY <1>12, <2>1 DEF SameFiles
    <3>3. QED
      BY <1>10, <1>12, <2>1, <3>1, <3>2 DEF Runs, Recorded, Backed, Cleaning, Starting, Applied,
        Posted, Rolling, Deciding, RollbackSteps, CleanSteps, Standing, PostSteps
  <2>2. CASE /\ SetupArtifactsClear(after) /\ Disk.journal = None
             /\ pc' = "ready" /\ run' = run /\ verdict' = verdict
    <3>1. SetupArtifactsClear(D)
      BY <1>7, <1>12, <2>2 DEF SetupArtifactsClear, SameFiles
    <3>2. QED
      BY <1>4, <1>12, <2>2, <3>1 DEF Runs, Recorded, Backed, Cleaning, Starting, Applied,
        Posted, Rolling, Deciding, RollbackSteps, CleanSteps, Standing, PostSteps
  <2>3. QED
    BY <1>11, <1>12, <2>1, <2>2
<1>13. Reads => verdict' # "stuck"
  BY <1>3, <1>11
<1>14. CASE Completed(after) /\ Reads
  <2>1. after \in Directory /\ Hosts({after}, after, wg, txn.kept) /\ Fits({after}, wg)
    BY <1>6, <1>8, LeavesAfter
  <2>2. \A one \in BOOLEAN : one => Runs(pc', run', after, {after}, one, wg, txn.kept)
    BY <1>7, <1>12, <1>14, <2>1
  <2>3. QED
    BY <1>1, <1>3, <1>13, <1>14, <2>1, <2>2, DoneSound
<1>15. CASE after = Disk /\ images' = images /\ Reads
  <2>1. (Len(images) = 1) \in BOOLEAN
    OBVIOUS
  <2>2. Runs(pc', run', Disk, Img, Len(images) = 1, wg, txn.kept)
    BY <1>3, <1>7, <1>12, <1>15, <2>1
  <2>3. QED
    BY <1>1, <1>2, <1>3, <1>13, <1>15, <2>2, SkipSound
<1>16. QED
  BY <1>1, <1>9, <1>14, <1>15

\* An error here.
LEMMA RaiseHere ==
  ASSUME SInv, pc \notin {"idle", "enter", "stop"}, images' = images, timer' = timer,
         txn'.kept = txn.kept, Hosts(Img, Disk, wg', txn.kept), Fits(Img, wg'), Raise(run),
         run.caller = "apply" => Rises(run, Disk, Img, wg', txn.kept)
  PROVE  HostInv' /\ RunInv' /\ Timed' /\ verdict' # "stuck"
<1>1. Img' = Img /\ Disk' = Disk
  BY DEF Img, Disk
<1>2. run.caller \in Callers
  BY RunFacts, HostFacts
<1>3. RunInv' /\ verdict' # "stuck"
  BY <1>1, <1>2, RaiseSound DEF SInv
<1>4. HostInv' /\ Timed'
  BY <1>1, Untimed, HostFacts DEF HostInv, SInv
<1>5. QED
  BY <1>3, <1>4

\* A command that leaves the source alone.
LEMMA SourceKept ==
  ASSUME SInv, NEW r \in ResultType, r.source = Disk.config.source
  PROVE  /\ CallEnds(r) => images' = images /\ wg' = r.wg /\ status' = r.status
         /\ CallCut(r) => /\ wg' = r.wg /\ pc' = "idle" /\ run' = NoRun /\ verdict' = "killed"
                          /\ (images' = images \/ Lost({Disk}))
<1>1. Typed /\ Sourced(r.source) = Disk
  BY HostFacts, SourcedTypes
<1>2. LeftOf(r) = images
  BY <1>1 DEF LeftOf, Dirty
<1>3. QED
  BY <1>1, <1>2 DEF CallEnds, CallCut, End

\* A check that leaves the profiles of a restoration alone, as it must while the record
\* is there: no rotation, complete or cut.
SparesRestored(w) ==
  RecordsRestoration /\ Disk.config.source = "static" /\ wg.switching = {} =>
    w.profile = wg.profile /\ w.switching = {}

LEMMA SparesRestoredHere ==
  ASSUME ~RotatesRestoration, pc \in {"idle", "enter", "verify"}
  PROVE  SparesRestored(wg')
BY DEF RotatesRestoration, SparesRestored

\* What a check may do to the profiles.
LEMMA CheckKeeps ==
  ASSUME SInv, NEW r \in CheckResults, SparesRestored(r.wg)
  PROVE  /\ Hosts(Img, Disk, r.wg, txn.kept)
         /\ Fits(Img, wg) => Fits(Img, r.wg)
         /\ r.ok => r.wg.switching = {}
         /\ r.wg.preManaged = wg.preManaged
         /\ txn.kept /\ Open(Disk) => Visible(r.wg)
         /\ r \in ResultType /\ r.source = Disk.config.source
<1>1. /\ Hosts(Img, Disk, wg, txn.kept) /\ Stands(Img, Disk, wg, txn.kept) /\ Disk \in Img
      /\ \A d \in Img : Worth(d, wg, txn.kept)
      /\ txn.kept \in BOOLEAN /\ Typed /\ TInv
  BY HostFacts DEF HostInv
<1>2. wg \in Host /\ wg.switching \in SUBSET Profiles /\ None \notin Profiles
  BY <1>1, NoneApart, HostTypes DEF Typed
<1> DEFINE Stood == \E d \in Img : Settled(d) \/ (txn.kept /\ Open(d))
<1>3. Stood => wg.switching = {} /\ Visible(wg) /\ r.wg.profile = wg.profile /\ r.wg.switching = {}
  <2>1. SUFFICES ASSUME Stood
                 PROVE  /\ wg.switching = {} /\ Visible(wg)
                        /\ r.wg.profile = wg.profile /\ r.wg.switching = {}
    OBVIOUS
  <2>2. Visible(wg) /\ wg.switching = {}
    BY <1>1, <2>1 DEF Stands, Visible
  <2>3. PICK d \in Img : Settled(d) \/ (txn.kept /\ Open(d))
    BY <2>1
  <2>4. Underway(d) /\ Disk.config.source = "static"
    BY <1>1, <2>3 DEF Worth, Stands, Settled
  <2>5. PICK i \in 1..Len(images) : d = images[i]
    BY DEF Img
  <2>6. RecordsRestoration
    BY <2>4, <2>5 DEF RecordsRestoration, Underway, Open
  <2>7. QED
    BY <2>2, <2>4, <2>6 DEF SparesRestored
<1>4. Moves \subseteq Profiles
  BY <1>1, MovesTypes
<1>5. r \in ResultType /\ r.source = Disk.config.source
  BY <1>1, CheckTypes
<1>6. /\ wg.profile # None => r.wg.profile # None
      /\ r.wg.preManaged = wg.preManaged
      /\ r.ok => r.wg.switching = {}
  <2>1. PICK h, f, ok :
           /\ ok \in BOOLEAN /\ f \in {"stale", "good", status} /\ Checked(h, ok)
           /\ r = Result(h, Disk.config.source, f, ok, ~ok /\ wg.profile # None)
    BY CheckShapes
  <2>2. r.wg = h /\ r.ok = ok
    BY <2>1 DEF Result
  <2>3. CASE h = wg /\ (wg.switching = {} \/ ~ok)
    BY <2>2, <2>3
  <2>4. CASE \E p \in Moves : h = [wg EXCEPT !.profile = p]
    BY <1>2, <1>4, <2>1, <2>2, <2>4 DEF Checked, Host
  <2>5. CASE ~ok /\ \E p \in Moves : h = [wg EXCEPT !.switching = {wg.profile, p}]
    BY <1>2, <2>2, <2>5 DEF Host
  <2>6. CASE ~ok /\ h = [wg EXCEPT !.candidate = TRUE]
    BY <1>2, <2>2, <2>6 DEF Host
  <2>7. CASE \E p \in wg.switching :
               h = [wg EXCEPT !.profile = p, !.switching = {}, !.candidate = FALSE]
    BY <1>2, <2>2, <2>7 DEF Host
  <2>8. QED
    BY <2>1, <2>3, <2>4, <2>5, <2>6, <2>7 DEF Checked
<1>7. Stood => Visible(r.wg)
  BY <1>3, <1>6 DEF Visible
<1>8. Hosts(Img, Disk, r.wg, txn.kept)
  BY <1>1, <1>6, <1>7, HostsMoved
<1>9. Fits(Img, wg) => Fits(Img, r.wg)
  BY <1>6 DEF Fits
<1>10. QED
  BY <1>1, <1>5, <1>6, <1>7, <1>8, <1>9

\* The transaction is rolled back from here.
LEMMA UndoRuns ==
  ASSUME NEW p \in {"reconcile", "unstage"}, NEW r, NEW D, NEW S, NEW one \in BOOLEAN,
         NEW w, NEW k \in BOOLEAN, ~k,
         r.caller \in {"rollback", "undo"},
         D.journal # None, Record(r.journal) = Record(D.journal),
         r.caller # "undo" => r.journal = D.journal,
         Open(D), ~Settled(D), Underway(D) => \A d \in S : ~Settled(d),
         r.journal.phase \notin ClosedPhases,
         r.journal.phase # "prepared" =>
           D.configPrevious # None /\ (KeepsKey(r.journal) => D.credentialPrevious # None),
         p = "unstage" => w.switching = {},
         r.caller = "rollback" => D.staging \subseteq Snapshots,
         Fits(S, w)
  PROVE  Runs(p, r, D, S, one, w, k)
<1>1. Recorded(p, r, D) /\ Backed(p, r, D, S, w, k)
  BY DEF Recorded, Backed, Deciding, RollbackSteps, CleanSteps, Standing, Rolling
<1>2. Cleaning(p, r, D, w, k) /\ Starting(p, r, D, w, k) /\ Applied(p, r, D, one, w, k)
      /\ Posted(p, r, D, one)
  BY DEF Cleaning, Starting, Applied, Posted, CleanSteps, RollbackSteps, PostSteps
<1>3. QED
  BY <1>1, <1>2 DEF Runs

\* What the invariant says during a recovery.
LEMMA RecoveringFacts ==
  ASSUME SInv, pc \in {"reconcile", "unstage", "classify"}
  PROVE  /\ run.caller \in {"recovery", "rollback", "undo"} /\ run.caller # "apply"
         /\ (run.caller # "recovery" => Rolling(pc, run)) /\ Fits(Img, wg)
         /\ (pc = "classify" => run.caller = "recovery")
         /\ pc \notin {"idle", "enter", "stop"} /\ txn.kept \in BOOLEAN
         /\ Disk.journal # None /\ Hosts(Img, Disk, wg, txn.kept)
         /\ Runs(pc, run, Disk, Img, Len(images) = 1, wg, txn.kept)
<1>1. run.caller \in {"recovery", "rollback", "undo"} /\ (pc = "classify" => run.caller = "recovery")
  BY DEF SInv, TInv, Control, CallerAt
<1>2. Disk.journal # None
  BY DEF SInv, RunInv, Runs, Recorded, Deciding
<1>3. QED
  BY <1>1, <1>2, FitsElse, HostFacts DEF Rolling, SInv, RunInv, HostInv

\* From one step of the recovery to the next.
LEMMA NextRuns ==
  ASSUME SInv, pc \in {"reconcile", "unstage"}, NEW v, Fits(Img, v), v.switching = {},
         NEW next \in {"unstage", "classify", "unadopt"},
         next = "classify" => run.caller = "recovery",
         next = "unadopt" => run.caller # "recovery"
  PROVE  Runs(next, run, Disk, Img, Len(images) = 1, v, txn.kept)
<1> DEFINE one == Len(images) = 1
<1>1. /\ Recorded(pc, run, Disk) /\ Backed(pc, run, Disk, Img, wg, txn.kept)
      /\ Cleaning(pc, run, Disk, wg, txn.kept)
      /\ run.caller \in {"recovery", "rollback", "undo"}
      /\ (run.caller # "recovery" => Rolling(pc, run))
  BY RecoveringFacts DEF Runs
<1> HIDE DEF one
<1>2. Recorded(next, run, Disk)
  BY <1>1 DEF Recorded, Deciding, RollbackSteps, CleanSteps, Standing
<1>3. Backed(next, run, Disk, Img, v, txn.kept)
  BY <1>1 DEF Backed, Rolling, RollbackSteps, Standing
<1>4. Cleaning(next, run, Disk, v, txn.kept)
  BY <1>1 DEF Cleaning, CleanSteps
<1>5. Starting(next, run, Disk, v, txn.kept) /\ Applied(next, run, Disk, one, v, txn.kept)
      /\ Posted(next, run, Disk, one)
  BY <1>1 DEF Starting, Applied, Posted, PostSteps
<1>6. QED
  BY <1>2, <1>3, <1>4, <1>5 DEF Runs, one

\* A command of the recovery: it leaves the source alone, then goes on or raises.
LEMMA RecoverySound ==
  ASSUME SInv, Shut, pc \in {"reconcile", "unstage"}, UNCHANGED <<timer, txn>>,
         NEW next \in {"unstage", "classify", "unadopt"},
         next = "classify" => run.caller = "recovery",
         next = "unadopt" => run.caller # "recovery",
         NEW results,
         \A r \in results : /\ r \in ResultType /\ r.source = Disk.config.source
                            /\ Hosts(Img, Disk, r.wg, txn.kept) /\ Fits(Img, r.wg)
                            /\ r.ok => r.wg.switching = {},
         \/ Calls(results, Go(next, run), Raise(run))
         \/ /\ wg.switching = {} /\ UNCHANGED <<images, status, faults, wg>> /\ Go(next, run)
  PROVE  HostInv' /\ RunInv' /\ Timed' /\ verdict' # "stuck"
<1>1. /\ run.caller \in {"recovery", "rollback", "undo"} /\ run.caller # "apply"
      /\ (run.caller # "recovery" => Rolling(pc, run)) /\ Fits(Img, wg)
      /\ pc \notin {"idle", "enter", "stop"} /\ txn.kept \in BOOLEAN
      /\ Hosts(Img, Disk, wg, txn.kept) /\ (Len(images) = 1) \in BOOLEAN
      /\ Runs(pc, run, Disk, Img, Len(images) = 1, wg, txn.kept)
  BY RecoveringFacts
<1>2. ASSUME images' = images, Go(next, run), Hosts(Img, Disk, wg', txn.kept), Fits(Img, wg'),
             wg'.switching = {}
      PROVE  HostInv' /\ RunInv' /\ Timed' /\ verdict' # "stuck"
  <2>4. Runs(next, run, Disk, Img, Len(images) = 1, wg', txn.kept)
    BY <1>2, NextRuns
  <2>5. pc' = next /\ run' = run /\ verdict' = verdict /\ verdict # "stuck"
    BY <1>2 DEF Go, SInv
  <2>6. QED
    BY <1>1, <1>2, <2>4, <2>5, SkipSound
<1>3. ASSUME NEW r \in results, CallEnds(r), IF r.ok THEN Go(next, run) ELSE Raise(run)
      PROVE  HostInv' /\ RunInv' /\ Timed' /\ verdict' # "stuck"
  <2>1. images' = images /\ wg' = r.wg
    BY <1>3, SourceKept
  <2>2. Hosts(Img, Disk, wg', txn.kept) /\ Fits(Img, wg') /\ (r.ok => wg'.switching = {})
    BY <2>1
  <2>3. CASE r.ok
    BY <1>2, <1>3, <2>1, <2>2, <2>3
  <2>4. CASE ~r.ok
    BY <1>1, <1>3, <2>1, <2>2, <2>4, RaiseHere
  <2>5. QED
    BY <2>3, <2>4
<1>4. ASSUME NEW r \in results, CallCut(r)
      PROVE  HostInv' /\ RunInv' /\ Timed' /\ verdict' # "stuck"
  <2>1. /\ wg' = r.wg /\ pc' = "idle" /\ run' = NoRun /\ verdict' = "killed"
        /\ images' = images \/ Lost({Disk})
    BY <1>4, SourceKept
  <2>2. Hosts(Img, Disk, wg', txn'.kept) /\ Fits(Img, wg')
    BY <2>1
  <2>3. QED
    BY <1>1, <2>1, <2>2, EndOrLost
<1>5. CASE Calls(results, Go(next, run), Raise(run))
  BY <1>3, <1>4, <1>5 DEF Calls
<1>6. CASE wg.switching = {} /\ UNCHANGED <<images, status, faults, wg>> /\ Go(next, run)
  BY <1>1, <1>2, <1>6
<1>7. QED
  BY <1>5, <1>6

\* Reconcile keeps SInv.
LEMMA ReconcileSound ==
  ASSUME SInv, Shut, Reconcile
  PROVE  HostInv' /\ RunInv' /\ Timed' /\ verdict' # "stuck"
<1>1. /\ pc = "reconcile" /\ UNCHANGED <<timer, txn>>
      /\ \/ /\ wg.switching = {} /\ UNCHANGED <<images, status, faults, wg>>
            /\ Go("unstage", run)
         \/ wg.switching # {} /\ Calls(CheckResults, Go("unstage", run), Raise(run))
  BY HostFacts, ReconcileLands
<1>2. Fits(Img, wg)
  BY <1>1, RecoveringFacts
<1>3. wg.switching # {} =>
        \A r \in CheckResults : /\ r \in ResultType /\ r.source = Disk.config.source
                                /\ Hosts(Img, Disk, r.wg, txn.kept) /\ Fits(Img, r.wg)
                                /\ r.ok => r.wg.switching = {}
  BY <1>2, CheckKeeps DEF SparesRestored
<1>4. QED
  BY <1>1, <1>3, RecoverySound

\* What a result is made of.
LEMMA ResultParts ==
  ASSUME NEW h, NEW s, NEW f, NEW ok, NEW fault
  PROVE  LET r == Result(h, s, f, ok, fault)
         IN r.wg = h /\ r.source = s /\ r.status = f /\ r.ok = ok /\ r.fault = fault
BY DEF Result

\* A command that fails leaves the source alone.
LEMMA FailureParts ==
  ASSUME NEW hosts, NEW sources, NEW r \in Failures(hosts, sources)
  PROVE  r.wg \in hosts /\ r.source \in sources /\ ~r.ok
<1>1. PICK h \in hosts, s \in sources : r = Result(h, s, status, FALSE, TRUE)
  BY SMT DEF Failures, Result
<1>2. QED
  BY <1>1 DEF Result

\* A candidate more or less is nothing to the records.
LEMMA CandidateKeeps ==
  ASSUME SInv, NEW w, NEW b, w = [wg EXCEPT !.candidate = b]
  PROVE  /\ Hosts(Img, Disk, w, txn.kept) /\ (Fits(Img, wg) => Fits(Img, w))
         /\ w.switching = wg.switching /\ w.profile = wg.profile /\ w.preManaged = wg.preManaged
         /\ Visible(w) = Visible(wg)
<1>1. w.switching = wg.switching /\ w.profile = wg.profile /\ w.preManaged = wg.preManaged
  BY HostFacts, Hosted DEF Host
<1>2. Hosts(Img, Disk, wg, txn.kept) /\ Stands(Img, Disk, wg, txn.kept)
  BY HostFacts DEF HostInv
<1>3. Visible(w) = Visible(wg)
  BY <1>1 DEF Visible
<1>4. Hosts(Img, Disk, w, txn.kept)
  BY <1>1, <1>2, <1>3, HostsMoved DEF Stands
<1>5. QED
  BY <1>1, <1>3, <1>4 DEF Fits

\* CleanupCandidate keeps SInv.
LEMMA CleanupCandidateSound ==
  ASSUME SInv, Shut, CleanupCandidate
  PROVE  HostInv' /\ RunInv' /\ Timed' /\ verdict' # "stuck"
<1> DEFINE next == IF run.caller = "recovery" THEN "classify" ELSE "unadopt"
<1>1. /\ pc = "unstage" /\ UNCHANGED <<timer, txn>>
      /\ \/ /\ ~wg.candidate /\ UNCHANGED <<images, status, faults, wg>>
            /\ Go(next, run)
         \/ wg.candidate /\ Calls(CandidateResults, Go(next, run), Raise(run))
  BY HostFacts, CleanupCandidateLands
<1>2. Fits(Img, wg) /\ wg.switching = {} /\ Typed
  BY <1>1, RecoveringFacts, HostFacts DEF Runs, Backed
<1>3. ASSUME NEW r \in CandidateResults
      PROVE  /\ r \in ResultType /\ r.source = Disk.config.source
             /\ Hosts(Img, Disk, r.wg, txn.kept) /\ Fits(Img, r.wg)
             /\ r.ok => r.wg.switching = {}
  <2>1. r.source = Disk.config.source
        /\ (r.wg = wg \/ r.wg = [wg EXCEPT !.candidate = FALSE])
    <3> DEFINE cleaned == [wg EXCEPT !.candidate = FALSE]
    <3>1. \/ r = Result(cleaned, Disk.config.source, status, TRUE, FALSE)
          \/ r \in Failures({wg, cleaned}, {Disk.config.source})
      BY <1>3 DEF CandidateResults
    <3> HIDE DEF cleaned
    <3>2. CASE r = Result(cleaned, Disk.config.source, status, TRUE, FALSE)
      BY <3>2 DEF Result, cleaned
    <3>3. CASE r \in Failures({wg, cleaned}, {Disk.config.source})
      <4>1. r.wg \in {wg, cleaned} /\ r.source \in {Disk.config.source}
        BY <3>3, FailureParts
      <4>2. QED
        BY <4>1 DEF cleaned
    <3>4. QED
      BY <3>1, <3>2, <3>3
  <2>2. wg \in Host /\ wg = [wg EXCEPT !.candidate = wg.candidate]
    BY <1>2 DEF Typed, Host
  <2>3. Hosts(Img, Disk, r.wg, txn.kept) /\ Fits(Img, r.wg) /\ r.wg.switching = {}
    BY <1>2, <2>1, <2>2, CandidateKeeps
  <2>4. QED
    BY <1>2, <2>1, <2>3, CandidateTypes
<1>4. next \in {"unstage", "classify", "unadopt"}
      /\ (next = "classify" => run.caller = "recovery")
      /\ (next = "unadopt" => run.caller # "recovery")
  OBVIOUS
<1> HIDE DEF next
<1>5. QED
  BY <1>1, <1>2, <1>3, <1>4, RecoverySound

(* ---------------------------- the decision ------------------------------ *)

\* What the invariant says when recovery decides.
LEMMA ClassifyingFacts ==
  ASSUME SInv, pc = "classify"
  PROVE  /\ run.caller = "recovery" /\ run.journal = Disk.journal /\ run.journal \in Journal
         /\ Disk.journal # None /\ wg.switching = {} /\ Disk.staging \subseteq Snapshots
         /\ Fits(Img, wg) /\ run \in RunType
<1>1. run.caller = "recovery" /\ Fits(Img, wg) /\ Disk.journal # None
      /\ Runs(pc, run, Disk, Img, Len(images) = 1, wg, txn.kept)
  BY RecoveringFacts
<1>2. run.journal = Disk.journal /\ wg.switching = {} /\ Disk.staging \subseteq Snapshots
  BY <1>1 DEF Runs, Recorded, Backed, Cleaning, Deciding
<1>3. Disk \in Directory /\ run \in RunType
  BY HostFacts, RunFacts
<1>4. QED
  BY <1>1, <1>2, <1>3 DEF Directory

\* The decision as recovery reads it off the record and the profiles.
Restoring(j) == j.operation = "static-restore" /\ j.phase \in {"activating", "activated", "verifying"}

\* A record of a restoration past its first phase is one that is underway.
LEMMA RestoringUnderway ==
  ASSUME NEW d, d.journal \in Journal, d.journal # None
  PROVE  Restoring(d.journal) <=> Underway(d)
<1>1. d.journal.phase \in OperationPhases(d.journal.operation)
  BY DEF Journal, ValidateSemantics
<1>2. QED
  BY <1>1 DEF Restoring, Underway, Open, OperationPhases, ApiOperations, ProofPhases, ClosedPhases

\* A restoration that stands, on disk or in another image, is one recovery sees.
LEMMA StandingSeen ==
  ASSUME SInv, pc = "classify"
  PROVE  /\ Settled(Disk) \/ (txn.kept /\ Open(Disk)) => Underway(Disk) /\ StaticRestoreIsVisible
         /\ Underway(Disk) /\ (\E d \in Img : Settled(d)) => StaticRestoreIsVisible
         /\ Underway(Disk) => ~StaticRestoreIsUnreadable
<1>1. /\ Worth(Disk, wg, txn.kept) /\ Stands(Img, Disk, wg, txn.kept) /\ Disk \in Img
      /\ Fits(Img, wg)
  BY HostFacts, ClassifyingFacts
<1>2. Settled(Disk) \/ (txn.kept /\ Open(Disk)) => Underway(Disk) /\ StaticRestoreIsVisible
  BY <1>1 DEF Worth, Stands, Settled, Visible, StaticRestoreIsVisible
<1>3. Underway(Disk) /\ (\E d \in Img : Settled(d)) => StaticRestoreIsVisible
  BY <1>1 DEF Stands, Visible, StaticRestoreIsVisible
<1>4. Underway(Disk) => ~StaticRestoreIsUnreadable
  BY <1>1 DEF Fits, StaticRestoreIsUnreadable
<1>5. QED
  BY <1>2, <1>3, <1>4

\* The decisions recovery may take, each with its condition.
LEMMA ClassifyLands ==
  ASSUME SInv, Classify
  PROVE  LET j == run.journal
             keeps == Underway(Disk) /\ StaticRestoreIsVisible
         IN /\ pc = "classify" /\ UNCHANGED <<images, wg, status, timer, faults>>
            /\ txn'.kept = (txn.kept \/ (keeps /\ Len(images) = 1)) /\ verdict' = verdict
            /\ \/ /\ j.phase \in ClosedPhases \/ keeps
                  /\ pc' = "cleanConfig" /\ run' = run
               \/ /\ ~keeps /\ j.phase \notin ClosedPhases /\ j.phase \in {"activated", "verifying"}
                  /\ j.operation # "static-restore"
                  /\ pc' \in {"markVerified", "beginProof"} /\ run' = run
               \/ /\ ~keeps /\ j.phase \notin ClosedPhases
                  /\ pc' = UndoStep(run) /\ run' = [run EXCEPT !.caller = "rollback"]
<1> DEFINE j == run.journal
<1> DEFINE restoring == /\ j.operation = "static-restore"
                        /\ j.phase \in {"activating", "activated", "verifying"}
<1> DEFINE keeps == restoring /\ StaticRestoreIsVisible
<1> DEFINE unreadable == restoring /\ StaticRestoreIsUnreadable
<1>1. pc = "classify"
  BY DEF Classify
<1>2. restoring <=> Underway(Disk)
  BY <1>1, ClassifyingFacts, RestoringUnderway DEF Restoring
<1>3. ~unreadable
  BY <1>1, <1>2, StandingSeen
<1>4. /\ UNCHANGED <<images, wg, status, timer, faults>>
      /\ txn' = [txn EXCEPT !.kept = @ \/ (keeps /\ Len(images) = 1)]
  BY DEF Classify
<1>5. txn'.kept = (txn.kept \/ (keeps /\ Len(images) = 1))
  <2>1. txn \in TxnType
    BY HostFacts DEF Typed
  <2> HIDE DEF keeps
  <2>2. QED
    BY <1>4, <2>1 DEF TxnType
<1>6. j.phase = "verifying" /\ j.operation = "static-restore" => keeps
  <2>1. SUFFICES ASSUME j.phase = "verifying", j.operation = "static-restore" PROVE keeps
    OBVIOUS
  <2>2. Settled(Disk)
    BY <1>1, <1>2, <2>1, ClassifyingFacts DEF Settled
  <2>3. QED
    BY <1>1, <1>2, <2>1, <2>2, StandingSeen
<1>7. CASE j.phase \in ClosedPhases \/ keeps
  <2>1. Go("cleanConfig", run)
    BY <1>3, <1>7 DEF Classify, ClosedPhases
  <2>2. QED
    BY <1>1, <1>2, <1>4, <1>5, <1>7, <2>1 DEF Go
<1>8. CASE j.phase \notin ClosedPhases /\ ~keeps
  <2>1. \/ j.phase = "verifying" /\ Go("markVerified", run)
        \/ j.phase = "activated" /\ j.operation \in {"api-update", "static"} /\ Go("beginProof", run)
        \/ RollBack(run)
    <3>1. CASE j.phase = "verifying" /\ status = "good"
      BY <1>3, <1>8, <3>1 DEF Classify, ClosedPhases
    <3>2. CASE j.phase = "activated" /\ j.operation \in {"api-update", "static"}
      BY <1>3, <1>8, <3>2 DEF Classify, ClosedPhases
    <3>3. CASE /\ ~(j.phase = "verifying" /\ status = "good")
               /\ ~(j.phase = "activated" /\ j.operation \in {"api-update", "static"})
      BY <1>3, <1>8, <3>3 DEF Classify, ClosedPhases
    <3>4. QED
      BY <3>1, <3>2, <3>3
  <2>2. QED
    BY <1>1, <1>2, <1>4, <1>5, <1>6, <1>8, <2>1 DEF Go, RollBack, UndoStep
<1>9. QED
  BY <1>7, <1>8

\* Classify keeps SInv.
LEMMA ClassifySound ==
  ASSUME SInv, Shut, Classify
  PROVE  HostInv' /\ RunInv' /\ Timed' /\ verdict' # "stuck"
<1> DEFINE j == run.journal
<1> DEFINE keeps == Underway(Disk) /\ StaticRestoreIsVisible
<1> DEFINE one == Len(images) = 1
<1>1. /\ pc = "classify" /\ UNCHANGED <<images, wg, status, timer, faults>>
      /\ txn'.kept = (txn.kept \/ (keeps /\ one)) /\ verdict' = verdict
      /\ \/ /\ j.phase \in ClosedPhases \/ keeps
            /\ pc' = "cleanConfig" /\ run' = run
         \/ /\ ~keeps /\ j.phase \notin ClosedPhases /\ j.phase \in {"activated", "verifying"}
            /\ j.operation # "static-restore"
            /\ pc' \in {"markVerified", "beginProof"} /\ run' = run
         \/ /\ ~keeps /\ j.phase \notin ClosedPhases
            /\ pc' = UndoStep(run) /\ run' = [run EXCEPT !.caller = "rollback"]
  BY ClassifyLands
<1>2. /\ run.caller = "recovery" /\ j = Disk.journal /\ j \in Journal /\ j # None
      /\ wg.switching = {} /\ Disk.staging \subseteq Snapshots /\ Fits(Img, wg) /\ run \in RunType
  BY <1>1, ClassifyingFacts
<1>3. /\ Worth(Disk, wg, txn.kept) /\ Stands(Img, Disk, wg, txn.kept) /\ Disk \in Img
      /\ Alone(Img) /\ txn.kept \in BOOLEAN /\ Hosts(Img, Disk, wg, txn.kept)
      /\ Disk \in Directory
  BY HostFacts DEF HostInv
<1>4. /\ Settled(Disk) \/ (txn.kept /\ Open(Disk)) => keeps
      /\ Underway(Disk) /\ (\E d \in Img : Settled(d)) => keeps
      /\ keeps => Disk.config.source = "static" /\ Visible(wg) /\ Open(Disk)
  BY <1>1, <1>2, StandingSeen DEF StaticRestoreIsVisible, Visible, Underway
<1> HIDE DEF keeps
<1>5. keeps /\ one => Hosts(Img, Disk, wg, TRUE)
  <2>1. SUFFICES ASSUME keeps, one PROVE Hosts(Img, Disk, wg, TRUE)
    OBVIOUS
  <2>2. Img = {Disk}
    BY <2>1 DEF Img, Disk
  <2>3. Worth(Disk, wg, TRUE)
    BY <1>3, <1>4, <2>1 DEF Worth, keeps
  <2>4. Stands(Img, Disk, wg, TRUE)
    BY <1>3, <1>4, <2>1 DEF Stands
  <2>5. QED
    BY <1>3, <2>2, <2>3, <2>4 DEF Hosts
<1>6. txn'.kept \in BOOLEAN /\ Hosts(Img, Disk, wg, txn'.kept) /\ one \in BOOLEAN
  <2>1. CASE keeps /\ one
    BY <1>1, <1>5, <2>1
  <2>2. CASE ~(keeps /\ one)
    <3>1. txn'.kept = txn.kept
      BY <1>1, <1>3, <2>2
    <3>2. QED
      BY <1>3, <3>1
  <2>3. QED
    BY <2>1, <2>2
<1>7. /\ pc \notin {"idle", "enter", "stop"} /\ verdict' # "stuck" /\ wg' = wg /\ images' = images
      /\ timer' = timer
  BY <1>1 DEF SInv
<1> HIDE DEF one
<1>8. CASE /\ j.phase \in ClosedPhases \/ keeps
           /\ pc' = "cleanConfig" /\ run' = run
  <2>1. \/ Disk.journal.phase \in ClosedPhases
        \/ Underway(Disk) /\ Disk.config.source = "static" /\ Visible(wg)
    BY <1>2, <1>4, <1>8 DEF keeps
  <2>2. "cleanConfig" \in CleanSteps /\ run.caller # "finalize" /\ run.caller \notin {"rollback", "undo"}
        /\ run.caller \in {"recovery", "rollback", "undo", "keep", "finalize"}
        /\ run.caller \in {"recovery", "keep"}
        /\ Record(run.journal) = Record(Disk.journal) /\ Disk.journal # None
    BY <1>2 DEF CleanSteps
  <2>3. Runs("cleanConfig", run, Disk, Img, one, wg, txn'.kept)
    BY <1>2, <1>6, <2>1, <2>2, CleanRuns
  <2>4. QED
    BY <1>6, <1>7, <1>8, <2>3, SkipSound DEF one
<1>9. CASE /\ ~keeps /\ j.phase \notin ClosedPhases /\ j.phase \in {"activated", "verifying"}
           /\ j.operation # "static-restore"
           /\ pc' \in {"markVerified", "beginProof"} /\ run' = run
  <2>1. ~txn'.kept
    BY <1>1, <1>2, <1>3, <1>4, <1>9 DEF Open
  <2>2. Recorded(pc', run, Disk) /\ Backed(pc', run, Disk, Img, wg, txn'.kept)
    BY <1>2, <1>9, <2>1
       DEF Recorded, Backed, Deciding, RollbackSteps, CleanSteps, Standing, Rolling
  <2>3. Cleaning(pc', run, Disk, wg, txn'.kept)
    BY <1>2, <1>9 DEF Cleaning, CleanSteps
  <2>4. Starting(pc', run, Disk, wg, txn'.kept) /\ Applied(pc', run, Disk, one, wg, txn'.kept)
        /\ Posted(pc', run, Disk, one)
    BY <1>2, <1>9 DEF Starting, Applied, Posted, PostSteps
  <2>5. Runs(pc', run, Disk, Img, one, wg, txn'.kept)
    BY <1>2, <2>2, <2>3, <2>4 DEF Runs
  <2>6. QED
    BY <1>6, <1>7, <1>9, <2>5, SkipSound DEF one
<1>10. CASE /\ ~keeps /\ j.phase \notin ClosedPhases
            /\ pc' = UndoStep(run) /\ run' = [run EXCEPT !.caller = "rollback"]
  <2> DEFINE self == [run EXCEPT !.caller = "rollback"]
  <2>1. self.caller = "rollback" /\ self.journal = j
    BY <1>2 DEF RunType
  <2>2. Open(Disk)
    BY <1>2, <1>10 DEF Open
  <2>3. ~Settled(Disk) /\ (Underway(Disk) => \A d \in Img : ~Settled(d))
    BY <1>4, <1>10
  <2>4. ~txn'.kept
    BY <1>1, <1>3, <1>4, <1>10, <2>2
  <2>5. j.phase # "prepared" =>
          Disk.configPrevious # None /\ (KeepsKey(j) => Disk.credentialPrevious # None)
    BY <1>2, <1>3, <2>2, <2>3 DEF Worth, OpenWorth
  <2> HIDE DEF self
  <2>6. /\ self.caller \in {"rollback", "undo"} /\ Disk.journal # None
        /\ Record(self.journal) = Record(Disk.journal)
        /\ self.caller # "undo" => self.journal = Disk.journal
        /\ self.journal.phase \notin ClosedPhases
        /\ self.journal.phase # "prepared" =>
             Disk.configPrevious # None /\ (KeepsKey(self.journal) => Disk.credentialPrevious # None)
        /\ self.caller = "rollback" => Disk.staging \subseteq Snapshots
    BY <1>2, <1>10, <2>1, <2>5
  <2>7. Runs(UndoStep(run), self, Disk, Img, one, wg, txn'.kept)
    <3>1. CASE UndoStep(run) = "reconcile"
      BY <1>2, <1>6, <2>2, <2>3, <2>4, <2>6, <3>1, UndoRuns
    <3>2. CASE UndoStep(run) = "restoreConfig"
      BY <1>2, <1>6, <2>2, <2>3, <2>4, <2>6, <3>2, RollbackRuns DEF RollbackSteps
    <3>3. QED
      BY <3>1, <3>2 DEF UndoStep
  <2>8. QED
    BY <1>6, <1>7, <1>10, <2>7, SkipSound DEF one, self
<1>11. QED
  BY <1>1, <1>8, <1>9, <1>10

(* ----------------------- commands that move the source ------------------ *)

\* What a command left keeps the host sound,
LEMMA CallLeft ==
  ASSUME SInv, NEW r \in ResultType, wg' = r.wg, images' = LeftOf(r),
         Leaves({Sourced(r.source)}, r.wg, txn'.kept)
  PROVE  /\ HostInv' /\ Fits(Img', wg')
         /\ Img' \subseteq Img \cup {Sourced(r.source)} /\ Disk' = Sourced(r.source)
         /\ r.ok /\ Sourced(r.source) # Disk =>
              Len(images') = 1 /\ Img' = {Sourced(r.source)}
         /\ Sourced(r.source) = Disk => images' = images
<1> DEFINE d == Sourced(r.source)
<1>1. /\ images \in Seq(Directory) /\ Len(images) >= 1 /\ Disk \in Directory /\ Disk \in Img
      /\ Typed
  BY HostFacts, TypedFacts DEF Typed
<1>2. r.source \in {"static", "api"} /\ r.ok \in BOOLEAN
  BY DEF ResultType
<1>3. /\ d \in Directory
      /\ \/ r.ok /\ images' = <<d>>
         \/ images' = images /\ d = Disk
         \/ ~r.ok /\ d # Disk /\ Extends({d})
  BY <1>1, <1>2, LeftLands
<1>4. /\ r.ok /\ d # Disk => images' = <<d>>
      /\ d = Disk => images' = images
  BY DEF LeftOf, Dirty
<1>5. /\ Hosts({d}, d, wg', txn'.kept) /\ Fits({d}, wg')
  BY LeavesAfter
<1>6. /\ Hosts(Img \cup {d}, d, wg', txn'.kept) /\ Fits(Img \cup {d}, wg')
  BY DEF Leaves
<1> HIDE DEF d
<1>7. CASE images' = <<d>> /\ d # Disk
  <2>1. Img' = {d} /\ Disk' = d /\ Len(images') = 1
    BY <1>3, <1>7, OneImage
  <2>2. QED
    BY <1>5, <1>7, <2>1 DEF HostInv, d
<1>8. CASE images' = images /\ d = Disk
  <2>1. Img' = Img /\ Disk' = Disk /\ Img \cup {d} = Img
    BY <1>1, <1>8 DEF Img, Disk
  <2>2. QED
    BY <1>6, <1>8, <2>1 DEF HostInv, d
<1>9. CASE ~r.ok /\ d # Disk /\ Extends({d})
  <2>1. Img' \subseteq Img \cup {d} /\ Disk' = d
    BY <1>9 DEF Extends
  <2>2. HostInv' /\ Fits(Img', wg')
    BY <1>9, ExtendsSound DEF d
  <2>3. QED
    BY <1>9, <2>1, <2>2 DEF d
<1>10. CASE images' = <<d>> /\ d = Disk
  BY <1>3, <1>4, <1>8, <1>10
<1>11. QED
  BY <1>3, <1>7, <1>8, <1>9, <1>10

\* cut,
LEMMA CallCutSound ==
  ASSUME SInv, Shut, pc \notin {"idle", "enter", "stop"}, timer' = timer,
         NEW r \in ResultType, CallCut(r), Leaves({Sourced(r.source)}, r.wg, txn'.kept)
  PROVE  HostInv' /\ RunInv' /\ Timed' /\ verdict' # "stuck"
<1>1. wg' = r.wg /\ pc' = "idle" /\ run' = NoRun /\ verdict' = "killed"
      /\ (images' = LeftOf(r) \/ Lost({Sourced(r.source)}))
  BY DEF CallCut, End
<1>2. CASE images' = LeftOf(r)
  <2>1. HostInv' /\ Fits(Img', wg')
    BY <1>1, <1>2, CallLeft
  <2>2. QED
    BY <1>1, <2>1, IdleRuns, Untimed, HostFacts DEF SInv
<1>3. CASE Lost({Sourced(r.source)})
  <2>1. HostInv' /\ Fits(Img', wg')
    BY <1>1, <1>3, LostSound
  <2>2. QED
    BY <1>1, <2>1, IdleRuns, Untimed, HostFacts DEF SInv
<1>4. QED
  BY <1>1, <1>2, <1>3

\* or failed.
LEMMA CallRaised ==
  ASSUME SInv, pc \notin {"idle", "enter", "stop"}, timer' = timer, txn'.kept = txn.kept,
         NEW r \in ResultType, CallEnds(r), Raise(run),
         Leaves({Sourced(r.source)}, r.wg, txn.kept),
         run.caller = "apply" =>
           Rises(run, Sourced(r.source), Img \cup {Sourced(r.source)}, r.wg, txn.kept)
  PROVE  HostInv' /\ RunInv' /\ Timed' /\ verdict' # "stuck"
<1>1. wg' = r.wg /\ images' = LeftOf(r)
  BY DEF CallEnds
<1>2. /\ HostInv' /\ Fits(Img', wg')
      /\ Img' \subseteq Img \cup {Sourced(r.source)} /\ Disk' = Sourced(r.source)
  BY <1>1, CallLeft
<1>3. run.caller \in Callers
  BY RunFacts, HostFacts
<1>4. RunInv' /\ verdict' # "stuck"
  BY <1>1, <1>2, <1>3, RaiseSound DEF SInv
<1>5. QED
  BY <1>2, <1>4, Untimed, HostFacts DEF SInv

\* What the runtime may make of the profiles when it restores the static one.
LEMMA RestoreStaticParts ==
  ASSUME SInv, NEW r \in RestoreStaticResults
  PROVE  /\ r \in ResultType
         /\ \/ /\ None \in {wg.profile, wg.preManaged} \/ wg.switching # {}
               /\ r.wg = wg /\ r.source = Disk.config.source /\ ~r.ok
            \/ /\ None \notin {wg.profile, wg.preManaged} /\ wg.switching = {}
               /\ r.source \in {Disk.config.source, "static"}
               /\ r.wg.profile # None /\ r.wg.preManaged = wg.preManaged
               /\ wg.profile = wg.preManaged =>
                    r.wg.profile = wg.profile /\ r.wg.switching = {}
               /\ r.ok => /\ r.wg.profile = wg.preManaged /\ r.wg.switching = {}
                          /\ r.source = "static"
<1> DEFINE restored == [wg EXCEPT !.profile = wg.preManaged, !.candidate = FALSE]
           cut == [wg EXCEPT !.switching = {wg.profile, wg.preManaged}]
           lone == [wg EXCEPT !.candidate = TRUE]
<1>1. wg \in Host /\ r \in ResultType
  BY HostFacts, RestoreStaticTypes DEF Typed
<1>2. /\ restored.profile = wg.preManaged /\ restored.preManaged = wg.preManaged
      /\ restored.switching = wg.switching
      /\ cut.profile = wg.profile /\ cut.preManaged = wg.preManaged
      /\ lone.profile = wg.profile /\ lone.preManaged = wg.preManaged
      /\ lone.switching = wg.switching
  BY <1>1 DEF Host
<1>3. CASE None \in {wg.profile, wg.preManaged} \/ wg.switching # {}
  <2>1. r = Result(wg, Disk.config.source, status, FALSE, FALSE)
    BY <1>3 DEF RestoreStaticResults
  <2>2. QED
    BY <1>1, <1>3, <2>1 DEF Result
<1>4. CASE ~(None \in {wg.profile, wg.preManaged} \/ wg.switching # {})
  <2>1. \/ r = Result(restored, "static", status, TRUE, FALSE)
        \/ r \in Failures({wg}, {Disk.config.source, "static"})
        \/ wg.profile # wg.preManaged /\ r \in Failures({restored, cut, lone}, {"static"})
    BY <1>4 DEF RestoreStaticResults
  <2> HIDE DEF restored, cut, lone
  <2>2. CASE r = Result(restored, "static", status, TRUE, FALSE)
    <3>1. r.wg = restored /\ r.source = "static"
      BY <2>2 DEF Result
    <3>2. QED
      BY <1>1, <1>2, <1>4, <3>1
  <2>3. CASE r \in Failures({wg}, {Disk.config.source, "static"})
    <3>1. r.wg = wg /\ r.source \in {Disk.config.source, "static"} /\ ~r.ok
      BY <2>3, FailureParts
    <3>2. QED
      BY <1>1, <1>4, <3>1
  <2>4. CASE wg.profile # wg.preManaged /\ r \in Failures({restored, cut, lone}, {"static"})
    <3>1. r.wg \in {restored, cut, lone} /\ r.source = "static" /\ ~r.ok
      BY <2>4, FailureParts
    <3>2. QED
      BY <1>1, <1>2, <1>4, <2>4, <3>1
  <2>5. QED
    BY <2>1, <2>2, <2>3, <2>4
<1>5. QED
  BY <1>3, <1>4

\* Flipping the source changes nothing else.
LEMMA SourcedForms ==
  ASSUME SInv, NEW s \in {"static", "api"}
  PROVE  LET e == Sourced(s)
         IN /\ e \in Directory /\ e.journal = Disk.journal /\ e.credential = Disk.credential
            /\ e.configPrevious = Disk.configPrevious
            /\ e.credentialPrevious = Disk.credentialPrevious /\ e.staging = Disk.staging
            /\ e.config.source = s /\ e.config.settings = Disk.config.settings
            /\ Disk.config.source = s => e = Disk
<1>1. Typed /\ Disk \in Directory
  BY HostFacts
<1>2. Sourced(s) = [Disk EXCEPT !.config = [Disk.config EXCEPT !.source = s]] /\ Sourced(s) \in Directory
      /\ Sourced(Disk.config.source) = Disk
  BY <1>1, SourcedTypes
<1>3. QED
  BY <1>1, <1>2 DEF Directory, Config

\* Putting the operator's profile back: the adoption is what is on record.
LEMMA UnadoptLeaves ==
  ASSUME SInv, pc = "unadopt", UndoesAdoption(run.journal), NEW r \in RestoreStaticResults
  PROVE  /\ r \in ResultType /\ Leaves({Sourced(r.source)}, r.wg, txn.kept)
         /\ \A d \in Img \cup {Sourced(r.source)} : ~Underway(d)
<1> DEFINE e == Sourced(r.source)
<1>1. Rolling(pc, run)
  BY DEF Rolling, RollbackSteps
<1>2. /\ ~txn.kept /\ Open(Disk) /\ Disk.journal # None /\ Record(run.journal) = Record(Disk.journal)
  BY <1>1, RollingFacts
<1>3. UndoesAdoption(Disk.journal)
  BY <1>2, RecordsAgree
<1>4. /\ HostInv /\ Disk \in Img /\ Alone(Img) /\ \A d \in Img : Worth(d, wg, txn.kept)
      /\ Hosts(Img, Disk, wg, txn.kept) /\ Disk \in Directory /\ txn.kept \in BOOLEAN
  BY HostFacts DEF HostInv
<1>5. \A d \in Img : ~Underway(d)
  BY <1>2, <1>3, <1>4 DEF Alone
<1>6. r \in ResultType /\ (wg.profile # None => r.wg.profile # None)
      /\ r.source \in {Disk.config.source, "static"} /\ r.source \in {"static", "api"}
  BY RestoreStaticParts DEF ResultType
<1>7. \A d \in Img : ~Settled(d)
  BY <1>5 DEF Settled
<1>8. Hosts(Img, Disk, r.wg, txn.kept)
  BY <1>2, <1>4, <1>6, <1>7, HostsMoved
<1>9. /\ e \in Directory /\ e.journal = Disk.journal /\ e.credential = Disk.credential
      /\ e.configPrevious = Disk.configPrevious
      /\ e.credentialPrevious = Disk.credentialPrevious /\ e.staging = Disk.staging
      /\ e.config.source = r.source /\ e.config.settings = Disk.config.settings
      /\ Disk.config.source = r.source => e = Disk
  BY <1>6, SourcedForms
<1> HIDE DEF e
<1>10. ~Underway(e) /\ ~Settled(e) /\ Open(e)
  BY <1>2, <1>4, <1>5, <1>9 DEF Underway, Settled, Open
<1>11. Worth(e, r.wg, txn.kept)
  <2>1. Worth(Disk, r.wg, txn.kept)
    BY <1>4, <1>8 DEF Hosts
  <2>2. CASE r.source = Disk.config.source
    BY <1>9, <2>1, <2>2
  <2>3. CASE r.source = "static"
    <3>1. Former(Disk).source = "static" /\ Disk.journal.operation = "adopt"
      BY <1>2, <1>3, <2>1 DEF Worth, OpenWorth, UndoesAdoption
    <3>2. Former(e).source = "static" /\ FormerKey(e) = FormerKey(Disk)
      BY <1>9, <2>3, <3>1 DEF Former, FormerKey
    <3>3. OpenWorth(e, r.wg)
      BY <1>2, <1>4, <1>5, <1>9, <2>1, <3>2 DEF Worth, OpenWorth, Settled
    <3>4. QED
      BY <1>2, <1>9, <1>10, <2>1, <2>3, <3>1, <3>3 DEF Worth
  <2>4. QED
    BY <1>6, <2>2, <2>3
<1>12. Leaves({e}, r.wg, txn.kept)
  <2>1. Fits(Img, r.wg)
    BY <1>5 DEF Fits
  <2>2. \A d \in Img : Worth(d, r.wg, txn.kept)
    BY <1>8 DEF Hosts
  <2>3. Stands(Img, Disk, r.wg, txn.kept)
    BY <1>8 DEF Hosts
  <2>4. {e} \in SUBSET Directory
    BY <1>9
  <2>5. ~\E d \in Img \cup {e} : Settled(d)
    BY <1>7, <1>10
  <2>6. \A f \in {e} : f.journal \in {Disk.journal, None} /\ Worth(f, r.wg, txn.kept)
    BY <1>9, <1>11
  <2>7. QED
    BY <1>4, <2>1, <2>2, <2>3, <2>4, <2>5, <2>6, KinLeaves
<1>13. QED
  BY <1>5, <1>6, <1>10, <1>12 DEF e

\* Unadopt keeps SInv.
LEMMA UnadoptSound ==
  ASSUME SInv, Shut, Unadopt
  PROVE  HostInv' /\ RunInv' /\ Timed' /\ verdict' # "stuck"
<1>1. /\ pc = "unadopt" /\ timer' = timer /\ txn' = [txn EXCEPT !.undone = TRUE]
      /\ \/ UNCHANGED <<images, status, faults, wg>> /\ Go("restoreConfig", run)
         \/ /\ UndoesAdoption(run.journal)
            /\ Calls(UnadoptResults, Go("restoreConfig", run), Raise(run))
  BY HostFacts, UnadoptLands
<1>2. /\ Rolling(pc, run) /\ pc \notin {"idle", "enter", "stop"} /\ "restoreConfig" \in RollbackSteps
  BY <1>1 DEF Rolling, RollbackSteps
<1>3. /\ ~txn.kept /\ txn'.kept = txn.kept /\ run.caller \in {"rollback", "undo"}
      /\ run.caller # "apply" /\ (Underway(Disk) => \A d \in Img : ~Settled(d))
      /\ Disk.journal # None
  BY <1>1, <1>2, RollingFacts, UndoneKept
<1>4. /\ Fits(Img, wg) /\ Hosts(Img, Disk, wg, txn.kept) /\ txn.kept \in BOOLEAN
      /\ verdict # "stuck"
  BY <1>1, FitsElse, HostFacts DEF HostInv, SInv
<1>5. CASE UNCHANGED <<images, status, faults, wg>> /\ Go("restoreConfig", run)
  <2>1. (Len(images) = 1) \in BOOLEAN /\ Disk.staging \subseteq Disk.staging
    OBVIOUS
  <2>2. Runs("restoreConfig", run, Disk, Img, Len(images) = 1, wg, txn.kept)
    BY <1>2, <1>3, <1>4, <2>1, RollbackKin
  <2>3. QED
    BY <1>1, <1>2, <1>3, <1>4, <1>5, <2>2, SkipSound DEF Go
<1>6. ASSUME UndoesAdoption(run.journal), NEW r \in UnadoptResults
      PROVE  /\ r \in ResultType /\ Leaves({Sourced(r.source)}, r.wg, txn.kept)
             /\ \A d \in Img \cup {Sourced(r.source)} : ~Underway(d)
  <2>1. r \in RestoreStaticResults
    BY DEF UnadoptResults
  <2>2. QED
    BY <1>1, <1>6, <2>1, UnadoptLeaves
<1>7. ASSUME UndoesAdoption(run.journal), NEW r \in UnadoptResults, CallEnds(r),
             Go("restoreConfig", run)
      PROVE  HostInv' /\ RunInv' /\ Timed' /\ verdict' # "stuck"
  <2> DEFINE e == Sourced(r.source)
  <2>1. /\ r \in ResultType /\ Leaves({e}, r.wg, txn'.kept)
        /\ \A d \in Img \cup {e} : ~Underway(d)
        /\ wg' = r.wg /\ images' = LeftOf(r) /\ r.source \in {"static", "api"}
    BY <1>3, <1>6, <1>7 DEF CallEnds, ResultType
  <2>2. /\ HostInv' /\ Fits(Img', wg')
        /\ Img' \subseteq Img \cup {e} /\ Disk' = e
    BY <2>1, CallLeft
  <2>3. /\ e.journal = Disk.journal /\ e.configPrevious = Disk.configPrevious
        /\ e.credentialPrevious = Disk.credentialPrevious /\ e.staging = Disk.staging
    BY <2>1, SourcedForms
  <2>4. ~Underway(e)
    BY <2>1
  <2> HIDE DEF e
  <2> DEFINE one == Len(images') = 1
  <2>5. one \in BOOLEAN /\ e.staging \subseteq Disk.staging
    BY <2>3
  <2> HIDE DEF one
  <2>6. Runs("restoreConfig", run, e, Img', one, wg', txn.kept)
    BY <1>2, <1>3, <1>4, <2>2, <2>3, <2>4, <2>5, RollbackKin
  <2>7. pc' = "restoreConfig" /\ run' = run /\ verdict' = verdict
    BY <1>7 DEF Go
  <2>8. RunInv'
    BY <1>3, <2>2, <2>6, <2>7 DEF RunInv, one
  <2>9. QED
    BY <1>1, <1>2, <1>4, <2>2, <2>7, <2>8, Untimed, HostFacts DEF SInv
<1>8. ASSUME UndoesAdoption(run.journal), NEW r \in UnadoptResults, CallEnds(r), Raise(run)
      PROVE  HostInv' /\ RunInv' /\ Timed' /\ verdict' # "stuck"
  BY <1>1, <1>2, <1>3, <1>6, <1>8, CallRaised
<1>9. ASSUME UndoesAdoption(run.journal), NEW r \in UnadoptResults, CallCut(r)
      PROVE  HostInv' /\ RunInv' /\ Timed' /\ verdict' # "stuck"
  BY <1>1, <1>2, <1>3, <1>6, <1>9, CallCutSound
<1>10. QED
  BY <1>1, <1>5, <1>7, <1>8, <1>9 DEF Calls

(* --------------------------- a request begins --------------------------- *)

\* A request starts with no restoration that stands.
LEMMA KeptLess ==
  ASSUME NEW S, NEW D, NEW w, NEW k, NEW m, ~m, Hosts(S, D, w, k)
  PROVE  Hosts(S, D, w, m)
<1>1. \A d \in S : Worth(d, w, m)
  BY DEF Hosts, Worth
<1>2. Stands(S, D, w, m) /\ Alone(S)
  BY DEF Hosts, Stands
<1>3. QED
  BY <1>1, <1>2 DEF Hosts

\* The record of a request agrees with what is installed.
LEMMA BegunAgrees ==
  ASSUME SInv, pc = "ready", NEW r \in Request, run.request = r, Admitted(r)
  PROVE  LET j == NewJournal(r)
         IN /\ j.hadKey <=> Disk.credential # None
            /\ j.operation = "api-update" => Disk.config.source = "api"
            /\ j.operation \in {"adopt", "provision"} => Disk.config.source = "static"
            /\ j.hadPreManaged <=> wg.preManaged # None
            /\ j.keyChanged => run.supplied # None
<1>1. Disk.config.source \in {"static", "api"} /\ r.mode \in {"static", "api"}
  BY HostFacts, SourcedTypes DEF Request
<1>2. NewJournal(r).keyChanged => run.supplied # None
  BY DEF NewJournal, Admitted, PrecheckAccepts, KeyChanges
<1>3. QED
  BY <1>1, <1>2 DEF NewJournal

\* Begin keeps SInv.
LEMMA BeginSound ==
  ASSUME SInv, Shut, Begin
  PROVE  HostInv' /\ RunInv' /\ Timed' /\ verdict' # "stuck"
<1> DEFINE r == run.request
<1>1. /\ pc = "ready" /\ UNCHANGED <<images, wg, status, timer, faults>>
      /\ \/ /\ txn' = txn
            /\ \/ End("blocked") \/ End("refused")
               \/ ~SetupArtifactsClear(Disk) /\ End("stuck")
         \/ /\ SetupArtifactsClear(Disk) /\ Admitted(r) /\ txn' = Started(r)
            /\ IF r.mode = "api" THEN Go("validate", Opened(r)) ELSE Go("prepare", OpenedApply(r))
  BY HostFacts, BeginLands
<1>2. /\ SetupArtifactsClear(Disk) /\ Fits(Img, wg) /\ run.caller = "none"
  BY <1>1, FitsElse DEF SInv, RunInv, Runs, Starting, TInv, Control, CallerAt
<1>3. r \in Request /\ pc \notin {"idle", "enter", "stop"} /\ verdict # "stuck"
  BY <1>1, HostFacts, RunFacts DEF SInv
<1>4. Hosts(Img, Disk, wg, txn.kept)
  BY HostFacts DEF HostInv
<1>5. CASE txn' = txn /\ (End("blocked") \/ End("refused"))
  <2>1. pc' = "idle" /\ run' = NoRun /\ verdict' # "stuck"
    BY <1>5 DEF End
  <2>2. QED
    BY <1>1, <1>2, <1>3, <1>4, <1>5, <2>1, EndSound
<1>6. CASE /\ Admitted(r) /\ txn' = Started(r)
           /\ IF r.mode = "api" THEN Go("validate", Opened(r)) ELSE Go("prepare", OpenedApply(r))
  <2>1. ~txn'.kept
    BY <1>6 DEF Started
  <2>2. Hosts(Img, Disk, wg, txn'.kept)
    BY <1>4, <2>1, KeptLess
  <2> DEFINE next == IF r.mode = "api" THEN "validate" ELSE "prepare"
             self == IF r.mode = "api" THEN Opened(r) ELSE OpenedApply(r)
  <2>3. pc' = next /\ run' = self /\ verdict' = verdict
    BY <1>6 DEF Go
  <2>4. /\ self.journal = NewJournal(r) /\ self.supplied = run.supplied
        /\ self.caller \in {"none", "apply"}
        /\ next = "validate" => self.caller = "none"
    BY <1>2, <1>3, HostFacts, OpenedTypes
  <2>5. next \in {"validate", "prepare"}
    OBVIOUS
  <2>6. Starting(next, self, Disk, wg, txn'.kept)
    BY <1>1, <1>2, <1>3, <1>6, <2>1, <2>4, BegunAgrees DEF Starting
  <2> HIDE DEF next, self
  <2> DEFINE one == Len(images) = 1
  <2>7. Recorded(next, self, Disk) /\ Backed(next, self, Disk, Img, wg, txn'.kept)
    BY <2>5 DEF Recorded, Backed, Deciding, RollbackSteps, CleanSteps, Standing, Rolling
  <2> HIDE DEF one
  <2>8. Cleaning(next, self, Disk, wg, txn'.kept) /\ Posted(next, self, Disk, one)
    BY <2>4, <2>5 DEF Cleaning, CleanSteps, Posted, PostSteps
  <2>9. Applied(next, self, Disk, one, wg, txn'.kept)
    BY <2>4, <2>5 DEF Applied
  <2>10. Runs(next, self, Disk, Img, one, wg, txn'.kept)
    BY <1>2, <2>6, <2>7, <2>8, <2>9 DEF Runs
  <2>11. QED
    BY <1>1, <1>3, <2>2, <2>3, <2>10, SkipSound DEF one
<1>7. QED
  BY <1>1, <1>2, <1>5, <1>6

\* A validation moves no profile.
LEMMA ValidationParts ==
  ASSUME SInv, NEW r \in ValidationResults
  PROVE  /\ r \in ResultType /\ r.source = Disk.config.source
         /\ r.ok => r.wg = wg
         /\ Hosts(Img, Disk, r.wg, txn.kept) /\ (Fits(Img, wg) => Fits(Img, r.wg))
         /\ Visible(r.wg) = Visible(wg)
<1> DEFINE lone == [wg EXCEPT !.candidate = TRUE]
<1>1. \/ r = Result(wg, Disk.config.source, status, TRUE, FALSE)
      \/ r \in Failures({wg, lone}, {Disk.config.source})
  BY DEF ValidationResults
<1>2. r \in ResultType /\ Hosts(Img, Disk, wg, txn.kept)
  BY HostFacts, ValidationTypes DEF HostInv
<1>3. /\ Hosts(Img, Disk, lone, txn.kept) /\ (Fits(Img, wg) => Fits(Img, lone))
      /\ Visible(lone) = Visible(wg)
  BY CandidateKeeps
<1> HIDE DEF lone
<1>4. /\ r.source = Disk.config.source /\ r.wg \in {wg, lone}
      /\ r.ok => r.wg = wg
  <2>1. CASE r = Result(wg, Disk.config.source, status, TRUE, FALSE)
    BY <2>1 DEF Result
  <2>2. CASE r \in Failures({wg, lone}, {Disk.config.source})
    <3>1. r.wg \in {wg, lone} /\ r.source \in {Disk.config.source} /\ ~r.ok
      BY <2>2, FailureParts
    <3>2. QED
      BY <3>1
  <2>3. QED
    BY <1>1, <2>1, <2>2
<1>5. QED
  BY <1>2, <1>3, <1>4

\* Validate keeps SInv.
LEMMA ValidateSound ==
  ASSUME SInv, Shut, Validate
  PROVE  HostInv' /\ RunInv' /\ Timed' /\ verdict' # "stuck"
<1> DEFINE self == [run EXCEPT !.caller = "apply"]
<1>1. /\ pc = "validate" /\ UNCHANGED <<timer, txn>>
      /\ Calls(ValidationResults, Go("prepare", self), End("refused"))
  BY HostFacts, ValidateLands
<1>2. /\ Starting(pc, run, Disk, wg, txn.kept) /\ Fits(Img, wg)
      /\ pc \notin {"idle", "enter", "stop"} /\ verdict # "stuck" /\ txn'.kept = txn.kept
  BY <1>1, FitsElse DEF SInv, RunInv, Runs
<1>3. /\ self.caller = "apply" /\ self.journal = run.journal /\ self.supplied = run.supplied
  BY HostFacts, RunFacts DEF RunType
<1> HIDE DEF self
<1>4. ASSUME NEW r \in ValidationResults
      PROVE  /\ r \in ResultType /\ r.source = Disk.config.source
             /\ r.ok => r.wg = wg
             /\ Hosts(Img, Disk, r.wg, txn'.kept) /\ Fits(Img, r.wg)
  BY <1>2, ValidationParts
<1>5. ASSUME NEW r \in ValidationResults, CallEnds(r), r.ok, Go("prepare", self)
      PROVE  HostInv' /\ RunInv' /\ Timed' /\ verdict' # "stuck"
  <2>1. images' = images /\ wg' = wg /\ pc' = "prepare" /\ run' = self /\ verdict' = verdict
    BY <1>4, <1>5, SourceKept DEF Go
  <2> DEFINE one == Len(images) = 1
  <2>2. Starting("prepare", self, Disk, wg, txn.kept)
    BY <1>1, <1>2, <1>3 DEF Starting
  <2>3. Recorded("prepare", self, Disk) /\ Backed("prepare", self, Disk, Img, wg, txn.kept)
    BY DEF Recorded, Backed, Deciding, RollbackSteps, CleanSteps, Standing, Rolling
  <2> HIDE DEF one
  <2>4. Cleaning("prepare", self, Disk, wg, txn.kept) /\ Posted("prepare", self, Disk, one)
        /\ Applied("prepare", self, Disk, one, wg, txn.kept)
    BY <1>3 DEF Cleaning, CleanSteps, Posted, PostSteps, Applied
  <2>5. Runs("prepare", self, Disk, Img, one, wg, txn.kept)
    BY <1>2, <2>2, <2>3, <2>4 DEF Runs
  <2>6. Hosts(Img, Disk, wg', txn'.kept)
    BY <1>4, <1>5, <2>1
  <2>7. QED
    BY <1>1, <1>2, <2>1, <2>5, <2>6, SkipSound DEF one
<1>6. ASSUME NEW r \in ValidationResults, CallEnds(r), End("refused")
      PROVE  HostInv' /\ RunInv' /\ Timed' /\ verdict' # "stuck"
  <2>1. images' = images /\ wg' = r.wg /\ pc' = "idle" /\ run' = NoRun /\ verdict' = "refused"
    BY <1>4, <1>6, SourceKept DEF End
  <2>2. QED
    BY <1>1, <1>2, <1>4, <2>1, EndSound
<1>7. ASSUME NEW r \in ValidationResults, CallCut(r)
      PROVE  HostInv' /\ RunInv' /\ Timed' /\ verdict' # "stuck"
  <2>1. /\ wg' = r.wg /\ pc' = "idle" /\ run' = NoRun /\ verdict' = "killed"
        /\ images' = images \/ Lost({Disk})
    BY <1>4, <1>7, SourceKept
  <2>2. QED
    BY <1>1, <1>2, <1>4, <2>1, EndOrLost
<1>8. QED
  BY <1>1, <1>5, <1>6, <1>7 DEF Calls

(* -------------------------- a request is applied ------------------------ *)

\* A restored static profile can be kept from what a failed call left.
LEMMA RisesKeep ==
  ASSUME NEW self \in RunType, NEW e, NEW S, NEW w, NEW k \in BOOLEAN, k, Fits(S, w),
         e.journal # None, Record(self.journal) = Record(e.journal),
         Underway(e), e.config.source = "static", Visible(w)
  PROVE  Rises(self, e, S, w, k)
<1> DEFINE r == [self EXCEPT !.caller = "keep"]
<1>1. r.caller = "keep" /\ r.journal = self.journal
  BY DEF RunType
<1> HIDE DEF r
<1>2. "cleanConfig" \in CleanSteps /\ FALSE \in BOOLEAN
  BY DEF CleanSteps
<1>3. Recorded("cleanConfig", r, e)
  BY <1>1 DEF Recorded, CleanSteps, Deciding, RollbackSteps, Standing
<1>4. Backed("cleanConfig", r, e, S, w, k)
  BY DEF Backed, Rolling, CleanSteps, RollbackSteps, Standing
<1>5. Cleaning("cleanConfig", r, e, w, k)
  BY <1>1 DEF Cleaning
<1>6. Starting("cleanConfig", r, e, w, k) /\ Applied("cleanConfig", r, e, FALSE, w, k)
      /\ Posted("cleanConfig", r, e, FALSE)
  BY <1>1 DEF Starting, Applied, Posted, PostSteps
<1>7. Runs("cleanConfig", r, e, S, FALSE, w, k)
  BY <1>3, <1>4, <1>5, <1>6 DEF Runs
<1>8. QED
  BY <1>7 DEF Rises, r

\* A call of the store, completed or not.
LEMMA StoreSound ==
  ASSUME SInv, Shut, pc \notin {"idle", "enter", "stop"}, UNCHANGED <<wg, timer>>,
         txn'.kept = txn.kept,
         NEW self, self.caller \in Callers, NEW leaves, Disk \in leaves,
         Leaves(leaves, wg, txn.kept), NEW after \in leaves,
         self.caller = "apply" => \A e \in leaves : Rises(self, e, Img \cup leaves, wg, txn.kept),
         NEW next, NEW r,
         \/ Completed(after) /\ pc' = next /\ run' = r /\ verdict' = verdict
         \/ NotDone(self, leaves),
         \A one \in BOOLEAN : one => Runs(next, r, after, {after}, one, wg, txn.kept)
  PROVE  HostInv' /\ RunInv' /\ Timed' /\ verdict' # "stuck"
<1>1. CASE Completed(after) /\ pc' = next /\ run' = r /\ verdict' = verdict
  <2>1. after \in Directory /\ Hosts({after}, after, wg, txn.kept)
    BY LeavesAfter
  <2>2. verdict' # "stuck"
    BY <1>1 DEF SInv
  <2>3. QED
    BY <1>1, <2>1, <2>2, DoneSound
<1>2. CASE NotDone(self, leaves)
  BY <1>2, NotDoneSound
<1>3. QED
  BY <1>1, <1>2

\* What the invariant says while a request is applied.
LEMMA ApplyFacts ==
  ASSUME SInv, run.caller \in {"apply", "finalize"}, pc # "prepare"
  PROVE  /\ Img = {Disk} /\ Len(images) = 1 /\ Disk.staging = {} /\ run.journal # None
         /\ Applied(pc, run, Disk, Len(images) = 1, wg, txn.kept)
         /\ txn.kept => pc \in Standing \cup CleanSteps /\ Visible(wg)
         /\ pc \notin CleanSteps =>
              /\ Disk.journal = run.journal /\ Disk.journal # None
              /\ (pc = "snapshotConfig") <=> Disk.configPrevious = None
              /\ Disk.credentialPrevious # None <=>
                   KeepsKey(run.journal) /\ pc \notin {"snapshotConfig", "snapshotKey"}
              /\ pc \in Standing => (txn.kept <=> run.journal.operation = "static-restore")
         /\ pc \in {"markKey", "revalidate", "activate"} => Disk.credential # None
         /\ pc = "activate" => Disk.config.source = "static"
         /\ run.request.mode = "static" /\ pc \in Standing \cup CleanSteps =>
              Disk.config.source = "static"
         /\ run.caller = "apply" => (run.journal.keyChanged => run.supplied # None)
         /\ pc \notin {"idle", "enter", "stop"}
<1>1. Applied(pc, run, Disk, Len(images) = 1, wg, txn.kept) /\ Starting(pc, run, Disk, wg, txn.kept)
  BY DEF SInv, RunInv, Runs
<1>2. Len(images) = 1
  BY <1>1 DEF Applied
<1>3. Img = {Disk}
  BY <1>2 DEF Img, Disk
<1>4. pc \notin {"idle", "enter", "stop", "discard", "ready"} /\ run.journal # None
  BY DEF SInv, TInv, Control, CallerAt, NoRun
<1>5. run.caller = "apply" => (run.journal.keyChanged => run.supplied # None)
  BY <1>1 DEF Starting
<1>6. QED
  BY <1>1, <1>2, <1>3, <1>4, <1>5 DEF Applied

\* The invocation is sound at its next step.
LEMMA ApplyRuns ==
  ASSUME NEW p \in ApplySteps \cup ProofSteps, p # "prepare", NEW r, NEW D, NEW S,
         NEW one \in BOOLEAN, NEW w, NEW k \in BOOLEAN,
         r.caller = "apply", r.journal.keyChanged => r.supplied # None,
         one, D.staging = {}, D.journal = r.journal,
         k => p \in Standing /\ Visible(w),
         (p = "snapshotConfig") <=> D.configPrevious = None,
         D.credentialPrevious # None <=> KeepsKey(r.journal) /\ p \notin {"snapshotConfig", "snapshotKey"},
         p \in Standing => (k <=> r.journal.operation = "static-restore"),
         p \in {"markKey", "revalidate", "activate"} => D.credential # None,
         p = "activate" => D.config.source = "static",
         r.request.mode = "static" /\ p \in Standing => D.config.source = "static",
         Fits(S, w) \/ Refusing(p, r, D, one)
  PROVE  Runs(p, r, D, S, one, w, k)
<1>1. p \notin CleanSteps \cup Deciding \cup PostSteps
      /\ p \notin {"ready", "validate"}
  BY DEF ApplySteps, ProofSteps, CleanSteps, Deciding, RollbackSteps, PostSteps
<1>2. Recorded(p, r, D)
  BY <1>1 DEF Recorded
<1>3. Backed(p, r, D, S, w, k)
  BY <1>1 DEF Backed, Rolling, Deciding, RollbackSteps
<1>4. Cleaning(p, r, D, w, k)
  BY <1>1 DEF Cleaning, CleanSteps
<1>5. Starting(p, r, D, w, k) /\ Posted(p, r, D, one)
  BY <1>1 DEF Starting, Posted
<1>6. Applied(p, r, D, one, w, k)
  BY <1>1 DEF Applied
<1>7. QED
  BY <1>2, <1>3, <1>4, <1>5, <1>6 DEF Runs

\* The record a request starts with.
LEMMA PreparedWorth ==
  ASSUME NEW d, NEW e, NEW w, NEW k, Worth(d, w, k), ~k, SetupArtifactsClear(d),
         NEW j \in Journal, j # None, e.journal = j, j.phase = "prepared",
         j.hadKey <=> d.credential # None,
         j.operation = "api-update" => d.config.source = "api",
         j.operation \in {"adopt", "provision"} => d.config.source = "static",
         e.config = d.config, e.credential = d.credential,
         e.configPrevious = d.configPrevious, e.credentialPrevious = d.credentialPrevious
  PROVE  Worth(e, w, k) /\ Open(e) /\ ~Settled(e) /\ ~Underway(e)
<1>1. e.configPrevious = None /\ e.credentialPrevious = None
  BY DEF SetupArtifactsClear
<1>2. Open(e) /\ ~Settled(e) /\ ~Underway(e)
  BY DEF Open, Settled, Underway, ClosedPhases
<1>3. Former(e) = d.config /\ (FormerKey(e) # None <=> d.credential # None)
  BY <1>1 DEF Former, FormerKey
<1>4. d.config.source = "api" => d.credential # None /\ w.profile # None
  BY DEF Worth
<1>5. OpenWorth(e, w)
  BY <1>3, <1>4 DEF OpenWorth
<1>6. QED
  BY <1>1, <1>2, <1>4, <1>5 DEF Worth

\* Prepare keeps SInv.
LEMMA PrepareSound ==
  ASSUME SInv, Shut, Prepare
  PROVE  HostInv' /\ RunInv' /\ Timed' /\ verdict' # "stuck"
<1> DEFINE self == Phased("prepared")
<1> DEFINE j == self.journal
<1> DEFINE after == Written(Disk, "journal", j)
<1> DEFINE leaves == WriteLeaves(Disk, "journal", j)
<1>1. pc = "prepare"
  BY DEF Prepare, Mark
<1>2. /\ run.caller = "apply" /\ run.journal # None /\ run.journal.phase = "prepared"
      /\ run.journal \in Journal /\ run.journal \in JournalRecord
      /\ "prepared" \in OperationPhases(run.journal.operation)
      /\ run.journal.proof <=> "prepared" \in ProofPhases
  <2>1. run.caller = "apply" /\ run.journal # None /\ run.journal.phase = "prepared"
    BY <1>1 DEF SInv, TInv, Control, CallerAt, JournalAt, ApplySteps
  <2>2. ValidateSemantics(run.journal) /\ run.journal \in Journal /\ run.journal \in JournalRecord
    BY <2>1, HostFacts, RunFacts
  <2>3. QED
    BY <2>1, <2>2 DEF ValidateSemantics
<1>3. /\ UNCHANGED <<wg, timer, txn>>
      /\ \/ /\ Completed(after) /\ pc' = "snapshotConfig" /\ run' = self /\ verdict' = verdict
         \/ NotDone(self, leaves)
  <2>1. "prepared" \in Phases
    BY DEF Phases
  <2>2. Mark("prepare", "prepared", "snapshotConfig")
    BY DEF Prepare
  <2>3. QED
    BY <1>2, <2>1, <2>2, HostFacts, MarkLands
<1>4. /\ self \in RunType /\ j = run.journal /\ self.caller = "apply"
      /\ self.supplied = run.supplied
  <2>1. "prepared" \in Phases
    BY DEF Phases
  <2>2. self \in RunType /\ j = [run.journal EXCEPT !.phase = "prepared"]
        /\ self.caller = run.caller /\ self.supplied = run.supplied
    BY <1>2, <2>1, HostFacts, PhasedTypes
  <2>3. [run.journal EXCEPT !.phase = "prepared"] = run.journal
    BY <1>2 DEF JournalRecord
  <2>4. QED
    BY <1>2, <2>2, <2>3
<1>5. /\ SetupArtifactsClear(Disk) /\ ~txn.kept /\ Fits(Img, wg)
      /\ j.hadKey <=> Disk.credential # None
      /\ j.operation = "api-update" => Disk.config.source = "api"
      /\ j.operation \in {"adopt", "provision"} => Disk.config.source = "static"
      /\ j.hadPreManaged <=> wg.preManaged # None
      /\ j.keyChanged => run.supplied # None
  BY <1>1, <1>2, <1>4, FitsElse DEF SInv, RunInv, Runs, Starting
<1>6. /\ Disk \in Directory /\ Disk \in Img /\ Worth(Disk, wg, txn.kept) /\ HostInv
      /\ Stands(Img, Disk, wg, txn.kept) /\ Alone(Img) /\ txn.kept \in BOOLEAN
      /\ \A d \in Img : Worth(d, wg, txn.kept)
  BY HostFacts
<1> HIDE DEF self
<1>7. j \in Journal /\ j # None /\ j.phase = "prepared"
  BY <1>2, <1>4
<1>8. leaves \subseteq Directory /\ Disk \in leaves /\ after \in leaves
  BY <1>6, <1>7, WriteTypes DEF WriteLeaves, Entry
<1> HIDE DEF j
<1>9. /\ after.journal = j /\ after.config = Disk.config /\ after.credential = Disk.credential
      /\ after.configPrevious = Disk.configPrevious
      /\ after.credentialPrevious = Disk.credentialPrevious /\ after.staging = Disk.staging
  BY <1>6 DEF Written, Directory
<1>10. Worth(after, wg, txn.kept) /\ Open(after) /\ ~Settled(after) /\ ~Underway(after)
  BY <1>5, <1>6, <1>7, <1>9, PreparedWorth
<1>11. Disk.journal = None /\ Disk.configPrevious = None /\ Disk.credentialPrevious = None
       /\ Disk.staging = {}
  BY <1>5 DEF SetupArtifactsClear
<1>12. ASSUME NEW e \in leaves
       PROVE  /\ Worth(e, wg, txn.kept) /\ e.config = Disk.config
              /\ e.configPrevious = Disk.configPrevious /\ e.journal \in {Disk.journal, j}
              /\ ~Settled(e) /\ ~Underway(e)
              /\ e.journal # None => e.journal = j /\ Open(e)
  <2>1. CASE StagesFrom(e, Disk, "journal")
    <3>1. SameFiles(e, Disk) /\ e.staging \subseteq PrivateTargets
      BY <1>11, <2>1 DEF StagesFrom, PrivateTargets
    <3>2. Worth(e, wg, txn.kept)
      BY <1>6, <3>1, SameWorth
    <3>3. e.journal = None /\ ~Settled(e) /\ ~Underway(e)
      BY <1>11, <3>1 DEF SameFiles, Settled, Underway, Open
    <3>4. QED
      BY <3>1, <3>2, <3>3 DEF SameFiles
  <2>2. CASE e = after
    BY <1>9, <1>10, <2>2
  <2>3. QED
    BY <1>6, <2>1, <2>2, JournalForms DEF leaves, after
<1> HIDE DEF after, leaves
<1>13. Leaves(leaves, wg, txn.kept)
  <2>1. (\E d \in Img \cup leaves : Underway(d)) =>
           /\ ~UndoesAdoption(j)
           /\ None \notin {wg.profile, wg.preManaged}
           /\ \A d \in Img : d.journal # None => ~UndoesAdoption(d.journal)
    <3>1. SUFFICES ASSUME \E d \in Img : Underway(d)
                   PROVE  /\ ~UndoesAdoption(j)
                          /\ None \notin {wg.profile, wg.preManaged}
                          /\ \A d \in Img : d.journal # None => ~UndoesAdoption(d.journal)
      BY <1>12
    <3>2. None \notin {wg.profile, wg.preManaged}
      BY <1>5, <3>1 DEF Fits
    <3>3. j.hadPreManaged
      BY <1>5, <3>2
    <3>4. QED
      BY <1>6, <3>1, <3>2, <3>3 DEF Alone, UndoesAdoption
  <2>2. (\E d \in Img \cup leaves : Settled(d)) =>
           /\ Disk.config.source = "static"
           /\ \A e \in leaves : Open(e) => Underway(e) \/ e.configPrevious = None
    BY <1>6, <1>11, <1>12 DEF Stands
  <2>3. \A e \in leaves : Settled(e) \/ (txn.kept /\ Open(e)) => Visible(wg)
    BY <1>5, <1>12
  <2>4. \A e \in leaves : Worth(e, wg, txn.kept) /\ e.config = Disk.config
                           /\ e.configPrevious = Disk.configPrevious
                           /\ e.journal \in {Disk.journal, j}
    BY <1>12
  <2>5. QED
    BY <1>5, <1>6, <1>7, <1>8, <2>1, <2>2, <2>3, <2>4, MarkLeaves
<1>14. Fits(Img \cup leaves, wg)
  BY <1>13 DEF Leaves
<1>15. \A e \in leaves : Rises(self, e, Img \cup leaves, wg, txn.kept)
  <2>1. SUFFICES ASSUME NEW e \in leaves PROVE Rises(self, e, Img \cup leaves, wg, txn.kept)
    OBVIOUS
  <2>2. /\ self.journal # None /\ self.journal.phase = "prepared"
        /\ self.journal.phase \notin ClosedPhases
    BY <1>7 DEF j, ClosedPhases
  <2>3. e.journal # None => /\ Record(self.journal) = Record(e.journal)
                            /\ Open(e) /\ ~Settled(e) /\ ~Underway(e)
    BY <1>12 DEF j
  <2>4. QED
    BY <1>4, <1>5, <1>6, <1>14, <2>2, <2>3, RisesOpen
<1>16. \A one \in BOOLEAN : one => Runs("snapshotConfig", self, after, {after}, one, wg, txn.kept)
  <2>1. SUFFICES ASSUME NEW one \in BOOLEAN, one
                 PROVE  Runs("snapshotConfig", self, after, {after}, one, wg, txn.kept)
    OBVIOUS
  <2>2. /\ "snapshotConfig" \in ApplySteps \cup ProofSteps /\ "snapshotConfig" \notin Standing
    BY DEF ApplySteps, Standing
  <2>3. self.journal.keyChanged => self.supplied # None
    BY <1>4, <1>5 DEF j
  <2>4. after.journal = self.journal /\ after.staging = {} /\ after.configPrevious = None
        /\ after.credentialPrevious = None
    BY <1>9, <1>11 DEF j
  <2>5. Fits({after}, wg)
    BY <1>8, <1>13, LeavesAfter DEF after, leaves
  <2>6. QED
    BY ZenonT(60), <1>4, <1>5, <1>6, <2>1, <2>2, <2>3, <2>4, <2>5, ApplyRuns
<1>17. pc \notin {"idle", "enter", "stop"} /\ self.caller \in Callers /\ txn'.kept = txn.kept
  BY <1>1, <1>3, <1>4 DEF Callers
<1>18. Disk \in leaves /\ after \in leaves
  BY <1>8 DEF leaves, after
<1>19. \/ Completed(after) /\ pc' = "snapshotConfig" /\ run' = self /\ verdict' = verdict
       \/ NotDone(self, leaves)
  BY <1>3 DEF after, leaves, j
<1>20. QED
  BY <1>3, <1>13, <1>15, <1>16, <1>17, <1>18, <1>19, StoreSound

\* A later phase of the same record.
LEMMA PhaseWorth ==
  ASSUME NEW d, NEW e, NEW w, NEW k, Worth(d, w, k), Open(d), d.configPrevious # None,
         KeepsKey(d.journal) => d.credentialPrevious # None,
         e.journal # None, Record(e.journal) = Record(d.journal), e.journal.phase \notin ClosedPhases,
         e.config = d.config, e.credential = d.credential,
         e.configPrevious = d.configPrevious, e.credentialPrevious = d.credentialPrevious,
         k => Underway(e),
         Settled(e) => d.config.source = "static"
  PROVE  Worth(e, w, k) /\ Open(e)
<1>1. /\ e.journal.operation = d.journal.operation /\ e.journal.hadKey = d.journal.hadKey
      /\ e.journal.keyChanged = d.journal.keyChanged /\ KeepsKey(e.journal) = KeepsKey(d.journal)
  BY RecordsAgree
<1>2. Open(e) /\ d.journal # None
  BY DEF Open
<1>3. Former(e) = Former(d) /\ FormerKey(e) = FormerKey(d)
  BY <1>1 DEF Former, FormerKey
<1>4. OpenWorth(d, w)
  BY DEF Worth
<1>5. OpenWorth(e, w)
  BY <1>1, <1>3, <1>4 DEF OpenWorth
<1>6. QED
  BY <1>1, <1>2, <1>5 DEF Worth

\* What marking the record may leave.
LEMMA PhaseLeaves ==
  ASSUME SInv, Fits(Img, wg), Open(Disk), Disk.configPrevious # None,
         KeepsKey(Disk.journal) => Disk.credentialPrevious # None,
         NEW j \in Journal, j # None, Record(j) = Record(Disk.journal),
         j.phase \notin ClosedPhases,
         txn.kept => j.operation = "static-restore" /\ Visible(wg),
         j.operation = "static-restore" =>
           /\ Img = {Disk} /\ j.phase # "prepared" /\ None \notin {wg.profile, wg.preManaged}
           /\ j.phase # "activating" =>
                Underway(Disk) /\ Disk.config.source = "static" /\ Visible(wg)
  PROVE  LET leaves == WriteLeaves(Disk, "journal", j)
             after == Written(Disk, "journal", j)
         IN /\ Leaves(leaves, wg, txn.kept) /\ Disk \in leaves /\ after \in leaves
            /\ after.journal = j /\ after.config = Disk.config /\ after.credential = Disk.credential
            /\ after.configPrevious = Disk.configPrevious
            /\ after.credentialPrevious = Disk.credentialPrevious /\ after.staging = Disk.staging
            /\ \A e \in leaves :
                 /\ e.journal \in {Disk.journal, j} /\ Open(e) /\ e.config = Disk.config
                 /\ e.configPrevious = Disk.configPrevious
                 /\ e.credentialPrevious = Disk.credentialPrevious
<1> DEFINE leaves == WriteLeaves(Disk, "journal", j)
           after == Written(Disk, "journal", j)
<1>1. /\ Disk \in Directory /\ Disk \in Img /\ Worth(Disk, wg, txn.kept) /\ HostInv
      /\ Stands(Img, Disk, wg, txn.kept) /\ Alone(Img) /\ txn.kept \in BOOLEAN
      /\ \A d \in Img : Worth(d, wg, txn.kept)
  BY HostFacts
<1>2. leaves \subseteq Directory /\ Disk \in leaves /\ after \in leaves
  BY <1>1, WriteTypes DEF WriteLeaves, Entry
<1>3. /\ after.journal = j /\ after.config = Disk.config /\ after.credential = Disk.credential
      /\ after.configPrevious = Disk.configPrevious
      /\ after.credentialPrevious = Disk.credentialPrevious /\ after.staging = Disk.staging
  BY <1>1 DEF Written, Directory
<1>4. Disk.journal # None /\ j.operation = Disk.journal.operation
      /\ UndoesAdoption(j) = UndoesAdoption(Disk.journal)
  BY RecordsAgree DEF Open
<1>5. Worth(after, wg, txn.kept) /\ Open(after)
  <2>1. txn.kept => Underway(after)
    BY <1>3 DEF Underway, Open
  <2>2. Settled(after) => Disk.config.source = "static"
    BY <1>3 DEF Settled, Underway
  <2> HIDE DEF after
  <2>3. QED
    BY <1>1, <1>3, <2>1, <2>2, PhaseWorth
<1>6. ASSUME NEW e \in leaves
      PROVE  /\ Worth(e, wg, txn.kept) /\ e.journal \in {Disk.journal, j} /\ Open(e)
             /\ e.config = Disk.config /\ e.configPrevious = Disk.configPrevious
             /\ e.credentialPrevious = Disk.credentialPrevious
             /\ e = after \/ (Settled(e) <=> Settled(Disk))
  <2>1. CASE StagesFrom(e, Disk, "journal")
    <3>1. SameFiles(e, Disk)
      BY <2>1 DEF StagesFrom
    <3>2. e.journal = Disk.journal
      BY <3>1 DEF SameFiles
    <3>3. Worth(e, wg, txn.kept) /\ (Settled(e) <=> Settled(Disk))
      BY <1>1, <1>4, <3>1, <3>2, SameWorth
    <3>4. QED
      BY <3>1, <3>2, <3>3 DEF SameFiles, Open
  <2>2. CASE e = after
    BY <1>3, <1>5, <2>2
  <2>3. QED
    BY <1>1, <2>1, <2>2, JournalForms DEF leaves, after
<1> HIDE DEF after, leaves
<1>7. CASE j.operation # "static-restore"
  <2>1. ASSUME NEW e \in Img \cup leaves PROVE ~Settled(e)
    <3>1. ~Underway(Disk) /\ ~Settled(Disk)
      BY <1>4, <1>7 DEF Underway, Settled
    <3>2. CASE e \in Img
      BY <1>1, <3>1, <3>2 DEF Stands
    <3>3. CASE e \in leaves
      BY <1>3, <1>6, <1>7, <3>1, <3>3 DEF Settled, Underway
    <3>4. QED
      BY <3>2, <3>3
  <2>2. ~txn.kept
    BY <1>7
  <2>3. \A e \in leaves : ~Underway(e)
    BY <1>4, <1>6, <1>7 DEF Underway
  <2>4. (\E d \in Img \cup leaves : Underway(d)) =>
           /\ ~UndoesAdoption(j)
           /\ None \notin {wg.profile, wg.preManaged}
           /\ \A d \in Img : d.journal # None => ~UndoesAdoption(d.journal)
    BY <1>1, <1>4, <2>3 DEF Alone, Fits
  <2>5. Leaves(leaves, wg, txn.kept)
    BY <1>1, <1>2, <1>6, <2>1, <2>2, <2>4, MarkLeaves
  <2>6. QED
    BY <1>2, <1>3, <1>6, <2>5 DEF after, leaves
<1>8. CASE j.operation = "static-restore"
  <2>1. ~UndoesAdoption(j) /\ ~UndoesAdoption(Disk.journal) /\ Img = {Disk}
    BY <1>4, <1>8 DEF UndoesAdoption
  <2>2. (\E d \in Img \cup leaves : Underway(d)) =>
           /\ ~UndoesAdoption(j)
           /\ None \notin {wg.profile, wg.preManaged}
           /\ \A d \in Img : d.journal # None => ~UndoesAdoption(d.journal)
    BY <1>8, <2>1
  <2>3. ASSUME NEW e \in leaves, Settled(e) PROVE Underway(Disk) /\ Visible(wg)
    <3>1. CASE e.journal = j
      BY <1>6, <1>8, <2>3, <3>1 DEF Settled
    <3>2. CASE e.journal = Disk.journal
      <4>1. Settled(Disk)
        BY <1>6, <2>3, <3>2 DEF Settled, Underway, Open
      <4>2. QED
        BY <1>1, <4>1 DEF Stands, Settled
    <3>3. QED
      BY <1>6, <3>1, <3>2
  <2>4. \A e \in leaves : Settled(e) \/ (txn.kept /\ Open(e)) => Visible(wg)
    BY <2>3
  <2>5. ASSUME \E d \in Img \cup leaves : Settled(d)
        PROVE  /\ Disk.config.source = "static"
               /\ \A e \in leaves : Open(e) => Underway(e) \/ e.configPrevious = None
    <3>1. Underway(Disk)
      BY <2>1, <2>3, <2>5 DEF Settled
    <3>2. Disk.config.source = "static"
      <4>1. CASE Settled(Disk)
        BY <1>1, <4>1 DEF Worth
      <4>2. CASE ~Settled(Disk)
        <5>1. PICK e \in leaves : Settled(e)
          BY <2>1, <2>5, <4>2
        <5>2. e = after
          BY <1>6, <4>2, <5>1
        <5>3. j.phase # "activating"
          BY <1>3, <5>1, <5>2 DEF Settled
        <5>4. QED
          BY <1>8, <5>3
      <4>3. QED
        BY <4>1, <4>2
    <3>3. \A e \in leaves : Underway(e)
      BY <1>6, <1>8, <3>1 DEF Underway
    <3>4. QED
      BY <3>2, <3>3
  <2>6. \A e \in leaves : Worth(e, wg, txn.kept) /\ e.config = Disk.config
                           /\ e.configPrevious = Disk.configPrevious
                           /\ e.journal \in {Disk.journal, j}
    BY <1>6
  <2>7. Leaves(leaves, wg, txn.kept)
    BY <1>1, <1>2, <2>2, <2>4, <2>5, <2>6, MarkLeaves
  <2>8. QED
    BY <1>2, <1>3, <1>6, <2>7 DEF after, leaves
<1>9. QED
  BY <1>7, <1>8

\* The try block moves its record on.
LEMMA PhaseSound ==
  ASSUME SInv, Shut, run.caller = "apply", pc \in ApplySteps \cup ProofSteps,
         pc \notin {"prepare", "snapshotConfig", "snapshotKey"}, Fits(Img, wg),
         run.journal.phase \notin ClosedPhases, UNCHANGED <<wg, timer, txn>>,
         NEW self \in RunType, self.caller = "apply", self.request = run.request,
         self.supplied = run.supplied, self.journal \in Journal, self.journal # None,
         Record(self.journal) = Record(run.journal), self.journal.phase \notin ClosedPhases,
         self.journal.operation = "static-restore" =>
           /\ self.journal.phase # "prepared" /\ None \notin {wg.profile, wg.preManaged}
           /\ txn.kept => run.journal.phase # "prepared"
           /\ ~txn.kept => self.journal.phase = "activating" /\ run.journal.phase = "prepared"
           /\ self.journal.phase # "activating" => Disk.config.source = "static",
         NEW held \in {run, self},
         NEW next \in ApplySteps \cup ProofSteps,
         next \notin {"prepare", "snapshotConfig", "snapshotKey"},
         txn.kept => next \in Standing,
         next \in Standing => (txn.kept <=> self.journal.operation = "static-restore"),
         next \in {"markKey", "revalidate", "activate"} => Disk.credential # None,
         next = "activate" => Disk.config.source = "static",
         run.request.mode = "static" /\ next \in Standing => Disk.config.source = "static",
         \/ /\ Completed(Written(Disk, "journal", self.journal))
            /\ pc' = next /\ run' = self /\ verdict' = verdict
         \/ NotDone(held, WriteLeaves(Disk, "journal", self.journal))
  PROVE  HostInv' /\ RunInv' /\ Timed' /\ verdict' # "stuck"
<1> DEFINE j == self.journal
           leaves == WriteLeaves(Disk, "journal", j)
           after == Written(Disk, "journal", j)
<1>1. pc \notin CleanSteps
  BY DEF ApplySteps, ProofSteps, CleanSteps
<1>2. /\ Img = {Disk} /\ Disk.staging = {} /\ Disk.journal = run.journal /\ Disk.journal # None
      /\ Disk.configPrevious # None
      /\ Disk.credentialPrevious # None <=> KeepsKey(run.journal)
      /\ txn.kept => pc \in Standing /\ Visible(wg)
      /\ pc \in Standing => (txn.kept <=> run.journal.operation = "static-restore")
      /\ run.journal.keyChanged => run.supplied # None
      /\ pc \notin {"idle", "enter", "stop"} /\ txn.kept \in BOOLEAN
  BY <1>1, HostFacts, ApplyFacts
<1>3. /\ j.operation = run.journal.operation /\ KeepsKey(j) = KeepsKey(run.journal)
      /\ j.keyChanged = run.journal.keyChanged
  BY RecordsAgree
<1>4. Open(Disk) /\ (txn.kept => j.operation = "static-restore")
  BY <1>2, <1>3 DEF Open
<1>5. /\ Leaves(leaves, wg, txn.kept) /\ Disk \in leaves /\ after \in leaves
      /\ after.journal = j /\ after.config = Disk.config /\ after.credential = Disk.credential
      /\ after.configPrevious = Disk.configPrevious
      /\ after.credentialPrevious = Disk.credentialPrevious /\ after.staging = Disk.staging
      /\ \A e \in leaves :
           /\ e.journal \in {Disk.journal, j} /\ Open(e) /\ e.config = Disk.config
           /\ e.configPrevious = Disk.configPrevious
           /\ e.credentialPrevious = Disk.credentialPrevious
  <2>1. j.operation = "static-restore" =>
           /\ Img = {Disk} /\ j.phase # "prepared" /\ None \notin {wg.profile, wg.preManaged}
           /\ j.phase # "activating" =>
                Underway(Disk) /\ Disk.config.source = "static" /\ Visible(wg)
    BY <1>2, <1>3, <1>4 DEF Underway
  <2>2. /\ KeepsKey(Disk.journal) => Disk.credentialPrevious # None
        /\ Record(j) = Record(Disk.journal) /\ j \in Journal /\ j # None
        /\ j.phase \notin ClosedPhases
    BY <1>2
  <2>3. txn.kept => j.operation = "static-restore" /\ Visible(wg)
    BY <1>2, <1>4
  <2> HIDE DEF j
  <2>4. QED
    BY <1>2, <1>4, <2>1, <2>2, <2>3, PhaseLeaves
<1>6. /\ held \in RunType /\ held.journal # None /\ Record(held.journal) = Record(run.journal)
      /\ held.journal.phase \notin ClosedPhases /\ held.caller = "apply"
  BY <1>2, HostFacts, RunFacts
<1>7. ASSUME NEW e \in leaves PROVE Rises(held, e, Img \cup leaves, wg, txn.kept)
  <2>1. Fits(Img \cup leaves, wg)
    BY <1>5 DEF Leaves
  <2>2. /\ e.journal # None /\ Record(held.journal) = Record(e.journal) /\ Open(e)
        /\ e.journal \in {Disk.journal, j}
    BY <1>2, <1>5, <1>6, <1>7
  <2>3. CASE txn.kept
    <3>1. Underway(e) /\ e.config.source = "static" /\ Visible(wg)
      <4>1. Underway(e)
        BY <1>2, <1>3, <1>4, <2>2, <2>3 DEF Underway
      <4>2. Visible(wg)
        BY <1>2, <2>3
      <4>3. e.config = Disk.config
        BY <1>5, <1>7
      <4>4. Worth(Disk, wg, txn.kept)
        BY HostFacts
      <4>5. Disk.config.source = "static"
        BY <2>3, <4>4 DEF Worth
      <4>6. QED
        BY <4>1, <4>2, <4>3, <4>5
    <3>2. QED
      BY <1>2, <1>6, <2>1, <2>2, <2>3, <3>1, RisesKeep
  <2>4. CASE ~txn.kept
    <3>1. ASSUME NEW d \in Img \cup leaves PROVE ~Settled(d)
      <4>1. d.journal \in {Disk.journal, j} /\ d.configPrevious # None
        BY <1>2, <1>5
      <4>2. CASE j.operation # "static-restore"
        BY <1>2, <1>3, <4>1, <4>2 DEF Settled, Underway
      <4>3. CASE j.operation = "static-restore"
        BY <1>2, <2>4, <4>1, <4>3 DEF Settled, Underway
      <4>4. QED
        BY <4>2, <4>3
    <3>2. ~Settled(e) /\ (Underway(e) => \A d \in Img \cup leaves : ~Settled(d))
      BY <1>7, <3>1
    <3>3. /\ e.configPrevious # None
          /\ KeepsKey(held.journal) => e.credentialPrevious # None
      <4>1. KeepsKey(held.journal) = KeepsKey(run.journal)
        BY <1>6, RecordsAgree
      <4>2. QED
        BY <1>2, <1>5, <1>7, <4>1
    <3>4. QED
      BY <1>2, <1>6, <2>1, <2>2, <2>4, <3>2, <3>3, RisesOpen
  <2>5. QED
    BY <2>3, <2>4
<1>8. \A one \in BOOLEAN : one => Runs(next, self, after, {after}, one, wg, txn.kept)
  <2>1. SUFFICES ASSUME NEW one \in BOOLEAN, one
                 PROVE  Runs(next, self, after, {after}, one, wg, txn.kept)
    OBVIOUS
  <2>2. Fits({after}, wg)
    BY <1>5, LeavesAfter
  <2>3. self.journal.keyChanged => self.supplied # None
    BY <1>2, <1>3
  <2>4. after.journal = self.journal /\ after.staging = {} /\ after.configPrevious # None
        /\ (after.credentialPrevious # None <=> KeepsKey(self.journal))
        /\ after.credential = Disk.credential /\ after.config = Disk.config
    BY <1>2, <1>3, <1>5
  <2>5. txn.kept => next \in Standing /\ Visible(wg)
    BY <1>2
  <2> HIDE DEF after, j
  <2>6. /\ (next = "snapshotConfig") <=> after.configPrevious = None
        /\ after.credentialPrevious # None <=>
             KeepsKey(self.journal) /\ next \notin {"snapshotConfig", "snapshotKey"}
        /\ next \in {"markKey", "revalidate", "activate"} => after.credential # None
        /\ next = "activate" => after.config.source = "static"
        /\ self.request.mode = "static" /\ next \in Standing => after.config.source = "static"
    BY <2>4
  <2>7. next # "prepare" /\ txn.kept \in BOOLEAN
    BY <1>2
  <2>8. QED
    BY ZenonT(60), <2>1, <2>2, <2>3, <2>4, <2>5, <2>6, <2>7, ApplyRuns
<1>9. \/ Completed(after) /\ pc' = next /\ run' = self /\ verdict' = verdict
      \/ NotDone(held, leaves)
  OBVIOUS
<1> HIDE DEF after, leaves, j
<1>10. held.caller \in Callers /\ txn'.kept = txn.kept
  BY <1>6 DEF Callers
<1>11. QED
  BY <1>2, <1>5, <1>7, <1>8, <1>9, <1>10, StoreSound

\* What a marked record keeps.
LEMMA PhasedKeeps ==
  ASSUME TInv, run.journal # None, NEW phase \in Phases,
         phase \in OperationPhases(run.journal.operation),
         run.journal.proof <=> phase \in ProofPhases
  PROVE  /\ Phased(phase) \in RunType /\ Phased(phase).caller = run.caller
         /\ Phased(phase).request = run.request /\ Phased(phase).supplied = run.supplied
         /\ Phased(phase).journal \in Journal /\ Phased(phase).journal # None
         /\ Record(Phased(phase).journal) = Record(run.journal)
         /\ Phased(phase).journal.phase = phase
         /\ Phased(phase).journal.operation = run.journal.operation
BY PhasedTypes, PhasedAt DEF Record

\* MarkConfig keeps SInv.
LEMMA MarkConfigSound ==
  ASSUME SInv, Shut, MarkConfig
  PROVE  HostInv' /\ RunInv' /\ Timed' /\ verdict' # "stuck"
<1> DEFINE self == Phased("config")
           next == CASE run.journal.keyChanged -> "writeKey"
                     [] ~run.journal.keyChanged /\ Activates -> "activate"
                     [] OTHER -> "markActivated"
<1>1. Mark("markConfig", "config", next) /\ pc = "markConfig"
  BY DEF MarkConfig, Mark
<1>2. /\ run.caller = "apply" /\ run.journal # None /\ run.journal.phase = "prepared"
      /\ run.journal.operation \in ApiOperations
      /\ run.request.mode = "api" <=> run.journal.operation \in ApiOperations
  BY <1>1 DEF SInv, TInv, Control, CallerAt, JournalAt, ApplySteps
<1>3. "config" \in Phases /\ "config" \in OperationPhases(run.journal.operation)
      /\ (run.journal.proof <=> "config" \in ProofPhases) /\ TInv
  BY <1>2, HostFacts, Unproved DEF Phases, OperationPhases, ProofPhases
<1>4. /\ self \in RunType /\ self.caller = "apply" /\ self.request = run.request
      /\ self.supplied = run.supplied /\ self.journal \in Journal /\ self.journal # None
      /\ Record(self.journal) = Record(run.journal) /\ self.journal.phase = "config"
      /\ self.journal.operation = run.journal.operation
  BY <1>2, <1>3, PhasedKeeps
<1>5. /\ UNCHANGED <<wg, timer, txn>>
      /\ \/ /\ Completed(Written(Disk, "journal", self.journal))
            /\ pc' = next /\ run' = self /\ verdict' = verdict
         \/ NotDone(self, WriteLeaves(Disk, "journal", self.journal))
  BY <1>1, <1>2, <1>3, MarkLands
<1> HIDE DEF self
<1>6. /\ pc \in ApplySteps /\ pc \notin {"prepare", "snapshotConfig", "snapshotKey"}
      /\ pc \notin Standing \cup CleanSteps /\ Fits(Img, wg)
  BY <1>1, FitsElse DEF ApplySteps, Standing, CleanSteps
<1>7. ~txn.kept
  BY <1>2, <1>6, ApplyFacts
<1>8. /\ next \in {"writeKey", "activate", "markActivated"}
      /\ next = "activate" => Disk.config.source = "static"
  BY DEF Activates
<1> HIDE DEF next
<1>9. next \in ApplySteps /\ next \notin {"prepare", "snapshotConfig", "snapshotKey"}
  BY <1>8 DEF ApplySteps
<1>10. /\ self.journal.operation # "static-restore" /\ run.request.mode # "static"
       /\ run.journal.phase \notin ClosedPhases /\ self.journal.phase \notin ClosedPhases
  BY <1>2, <1>4 DEF ApiOperations, ClosedPhases
<1>11. next \in {"markKey", "revalidate", "activate"} => Disk.credential # None
  <2>1. CASE next = "activate"
    <3>1. ~run.journal.keyChanged
      BY <2>1 DEF next
    <3>2. run.journal.hadKey
      BY <1>2, <3>1, HostFacts, RunFacts DEF ValidateSemantics
    <3>3. Disk.journal = run.journal /\ Worth(Disk, wg, txn.kept) /\ Disk.journal # None
      BY <1>2, <1>6, HostFacts, ApplyFacts
    <3>4. FormerKey(Disk) # None
      BY <1>10, <3>2, <3>3 DEF Worth, OpenWorth, Open
    <3>5. QED
      BY <3>1, <3>3, <3>4 DEF FormerKey
  <2>2. QED
    BY <1>8, <2>1
<1>12. QED
  BY <1>2, <1>4, <1>5, <1>6, <1>7, <1>8, <1>9, <1>10, <1>11, PhaseSound

\* MarkKey keeps SInv.
LEMMA MarkKeySound ==
  ASSUME SInv, Shut, MarkKey
  PROVE  HostInv' /\ RunInv' /\ Timed' /\ verdict' # "stuck"
<1> DEFINE self == Phased("credential")
<1>1. Mark("markKey", "credential", "revalidate") /\ pc = "markKey"
  BY DEF MarkKey, Mark
<1>2. /\ run.caller = "apply" /\ run.journal # None /\ run.journal.phase = "config"
      /\ run.journal.operation \in ApiOperations
      /\ run.request.mode = "api" <=> run.journal.operation \in ApiOperations
  BY <1>1 DEF SInv, TInv, Control, CallerAt, JournalAt, ApplySteps
<1>3. "credential" \in Phases /\ "credential" \in OperationPhases(run.journal.operation)
      /\ (run.journal.proof <=> "credential" \in ProofPhases) /\ TInv
  BY <1>2, HostFacts, Unproved DEF Phases, OperationPhases, ProofPhases
<1>4. /\ self \in RunType /\ self.caller = "apply" /\ self.request = run.request
      /\ self.supplied = run.supplied /\ self.journal \in Journal /\ self.journal # None
      /\ Record(self.journal) = Record(run.journal) /\ self.journal.phase = "credential"
      /\ self.journal.operation = run.journal.operation
  BY <1>2, <1>3, PhasedKeeps
<1>5. /\ UNCHANGED <<wg, timer, txn>>
      /\ \/ /\ Completed(Written(Disk, "journal", self.journal))
            /\ pc' = "revalidate" /\ run' = self /\ verdict' = verdict
         \/ NotDone(self, WriteLeaves(Disk, "journal", self.journal))
  BY <1>1, <1>2, <1>3, MarkLands
<1> HIDE DEF self
<1>6. /\ pc \in ApplySteps /\ pc \notin {"prepare", "snapshotConfig", "snapshotKey"}
      /\ pc \notin Standing \cup CleanSteps /\ Fits(Img, wg)
      /\ "revalidate" \in ApplySteps /\ "revalidate" \notin Standing
  BY <1>1, FitsElse DEF ApplySteps, Standing, CleanSteps
<1>7. ~txn.kept /\ Disk.credential # None
  BY <1>1, <1>2, <1>6, ApplyFacts
<1>8. /\ self.journal.operation # "static-restore" /\ run.request.mode # "static"
      /\ run.journal.phase \notin ClosedPhases /\ self.journal.phase \notin ClosedPhases
  BY <1>2, <1>4 DEF ApiOperations, ClosedPhases
<1>9. QED
  BY <1>2, <1>4, <1>5, <1>6, <1>7, <1>8, PhaseSound

\* MarkActivated keeps SInv.
LEMMA MarkActivatedSound ==
  ASSUME SInv, Shut, MarkActivated
  PROVE  HostInv' /\ RunInv' /\ Timed' /\ verdict' # "stuck"
<1> DEFINE self == Phased("activated")
<1>1. Mark("markActivated", "activated", "beginProof") /\ pc = "markActivated"
  BY DEF MarkActivated, Mark
<1>2. /\ run.caller = "apply" /\ run.journal # None
      /\ run.journal.phase \in {"prepared", "config", "credential", "activating"}
      /\ run.request.mode = "api" <=> run.journal.operation \in ApiOperations
  BY <1>1 DEF SInv, TInv, Control, CallerAt, JournalAt, ApplySteps
<1>3. "activated" \in Phases /\ "activated" \in OperationPhases(run.journal.operation)
      /\ (run.journal.proof <=> "activated" \in ProofPhases) /\ TInv
  BY <1>2, HostFacts, Unproved DEF Phases, OperationPhases, ProofPhases
<1>4. /\ self \in RunType /\ self.caller = "apply" /\ self.request = run.request
      /\ self.supplied = run.supplied /\ self.journal \in Journal /\ self.journal # None
      /\ Record(self.journal) = Record(run.journal) /\ self.journal.phase = "activated"
      /\ self.journal.operation = run.journal.operation
  BY <1>2, <1>3, PhasedKeeps
<1>5. /\ UNCHANGED <<wg, timer, txn>>
      /\ \/ /\ Completed(Written(Disk, "journal", self.journal))
            /\ pc' = "beginProof" /\ run' = self /\ verdict' = verdict
         \/ NotDone(self, WriteLeaves(Disk, "journal", self.journal))
  BY <1>1, <1>2, <1>3, MarkLands
<1> HIDE DEF self
<1>6. /\ pc \in ApplySteps /\ pc \notin {"prepare", "snapshotConfig", "snapshotKey"}
      /\ pc \in Standing /\ pc \notin CleanSteps /\ Fits(Img, wg)
      /\ "beginProof" \in ProofSteps /\ "beginProof" \in Standing
  BY <1>1, FitsElse DEF ApplySteps, ProofSteps, Standing, CleanSteps
<1>7. /\ txn.kept <=> run.journal.operation = "static-restore"
      /\ txn.kept => Visible(wg)
      /\ Img = {Disk} /\ Disk.journal = run.journal /\ Disk.journal # None
      /\ run.request.mode = "static" => Disk.config.source = "static"
  BY <1>1, <1>2, <1>6, ApplyFacts
<1>8. run.journal.phase \notin ClosedPhases /\ self.journal.phase \notin ClosedPhases
  BY <1>2, <1>4 DEF ClosedPhases
<1>9. self.journal.operation = "static-restore" =>
           /\ self.journal.phase # "prepared" /\ None \notin {wg.profile, wg.preManaged}
           /\ txn.kept => run.journal.phase # "prepared"
           /\ ~txn.kept => self.journal.phase = "activating" /\ run.journal.phase = "prepared"
           /\ self.journal.phase # "activating" => Disk.config.source = "static"
  <2>1. SUFFICES ASSUME self.journal.operation = "static-restore"
                 PROVE  /\ None \notin {wg.profile, wg.preManaged}
                        /\ run.journal.phase # "prepared" /\ Disk.config.source = "static"
    BY <1>4, <1>7
  <2>2. txn.kept /\ Visible(wg) /\ Worth(Disk, wg, txn.kept)
    BY <1>4, <1>7, <2>1, HostFacts
  <2>3. Underway(Disk) /\ Disk.config.source = "static"
    BY <1>7, <1>8, <2>2 DEF Worth, Open
  <2>4. QED
    BY <1>7, <2>2, <2>3 DEF Underway, Visible
<1>10. QED
  BY <1>2, <1>4, <1>5, <1>6, <1>7, <1>8, <1>9, PhaseSound

\* MarkActivating keeps SInv.
LEMMA MarkActivatingSound ==
  ASSUME SInv, Shut, MarkActivating
  PROVE  HostInv' /\ RunInv' /\ Timed' /\ verdict' # "stuck"
<1> DEFINE self == Phased("activating")
           after == Written(Disk, "journal", self.journal)
           leaves == WriteLeaves(Disk, "journal", self.journal)
<1>1. Mark("markActivating", "activating", "restoreStatic") /\ pc = "markActivating"
  BY DEF MarkActivating, Mark
<1>2. /\ run.caller = "apply" /\ run.journal # None /\ run.journal.phase = "prepared"
      /\ run.journal.operation = "static-restore"
      /\ run.request.mode = "api" <=> run.journal.operation \in ApiOperations
  BY <1>1 DEF SInv, TInv, Control, CallerAt, JournalAt, ApplySteps
<1>3. "activating" \in Phases /\ "activating" \in OperationPhases(run.journal.operation)
      /\ (run.journal.proof <=> "activating" \in ProofPhases) /\ TInv
  BY <1>2, HostFacts, Unproved DEF Phases, OperationPhases, ProofPhases
<1>4. /\ self \in RunType /\ self.caller = "apply" /\ self.request = run.request
      /\ self.supplied = run.supplied /\ self.journal \in Journal /\ self.journal # None
      /\ Record(self.journal) = Record(run.journal) /\ self.journal.phase = "activating"
      /\ self.journal.operation = run.journal.operation
  BY <1>2, <1>3, PhasedKeeps
<1>5. /\ UNCHANGED <<wg, timer, txn>>
      /\ \/ Completed(after) /\ pc' = "restoreStatic" /\ run' = self /\ verdict' = verdict
         \/ NotDone(self, leaves)
  BY <1>1, <1>2, <1>3, MarkLands
<1> HIDE DEF self
<1>6. /\ pc \in ApplySteps /\ pc \notin {"prepare", "snapshotConfig", "snapshotKey"}
      /\ pc \notin Standing /\ pc \notin CleanSteps /\ Fits(Img, wg)
      /\ "restoreStatic" \in ApplySteps /\ "restoreStatic" \notin Standing
  BY <1>1, FitsElse DEF ApplySteps, Standing, CleanSteps
<1>7. /\ ~txn.kept /\ Disk.journal = run.journal /\ Disk.journal # None
      /\ Disk.configPrevious # None /\ Disk.staging = {}
      /\ Disk.credentialPrevious # None <=> KeepsKey(run.journal)
      /\ run.journal.keyChanged => run.supplied # None
      /\ pc \notin {"idle", "enter", "stop"} /\ txn.kept \in BOOLEAN
  BY <1>2, <1>1, <1>6, HostFacts, ApplyFacts
<1>8. run.journal.phase \notin ClosedPhases /\ self.journal.phase \notin ClosedPhases
  BY <1>2, <1>4 DEF ClosedPhases
<1>9. CASE None \notin {wg.profile, wg.preManaged}
  BY <1>1, <1>2, <1>4, <1>5, <1>6, <1>7, <1>8, <1>9, PhaseSound
<1>10. CASE None \in {wg.profile, wg.preManaged}
  <2>1. Unmanaged
    BY <1>1, <1>2, <1>10 DEF Unmanaged
  <2>2. Completed(after) /\ pc' = "restoreStatic" /\ run' = self /\ verdict' = verdict
    <3> DEFINE Done == Go("restoreStatic", self)
    <3>1. AtomicWrite(self, "journal", self.journal, Done)
      BY <1>1 DEF Mark, PersistJournal, self, Phased
    <3>2. StoreCall(self, after, leaves, Done)
      BY <1>7, <3>1 DEF AtomicWrite
    <3>3. Done => pc' = "restoreStatic" /\ run' = self /\ verdict' = verdict
      BY DEF Go
    <3> HIDE DEF Done, after, leaves
    <3>4. Completed(after) /\ Done
      BY <2>1, <3>2, CallDone
    <3>5. QED
      BY <3>3, <3>4
  <2>3. Disk \in Directory /\ Worth(Disk, wg, txn.kept)
    BY HostFacts
  <2>4. after \in Directory
    BY <1>4, <2>3, WriteTypes DEF Entry
  <2>5. /\ after.journal = self.journal /\ after.config = Disk.config
        /\ after.credential = Disk.credential /\ after.configPrevious = Disk.configPrevious
        /\ after.credentialPrevious = Disk.credentialPrevious /\ after.staging = Disk.staging
    BY <2>3 DEF Written, Directory
  <2> HIDE DEF after, leaves
  <2>6. ~Settled(after) /\ Open(Disk)
    BY <1>4, <1>7, <1>8, <2>5 DEF Settled, Open
  <2>7. Worth(after, wg, txn.kept)
    BY <1>4, <1>7, <1>8, <2>3, <2>5, <2>6, PhaseWorth
  <2>8. Stands({after}, after, wg, txn.kept)
    BY <1>7, <2>6 DEF Stands
  <2>9. Alone({after})
    BY <1>2, <1>4, <2>5 DEF Alone, UndoesAdoption
  <2>10. Hosts({after}, after, wg', txn'.kept)
    BY <1>5, <2>7, <2>8, <2>9 DEF Hosts
  <2>11. ASSUME NEW one \in BOOLEAN, one
         PROVE  Runs("restoreStatic", self, after, {after}, one, wg, txn.kept)
    <3>1. Refusing("restoreStatic", self, after, one)
      BY <1>2, <1>4, <1>7, <2>5, <2>11 DEF Refusing
    <3>2. KeepsKey(self.journal) = KeepsKey(run.journal)
          /\ self.journal.keyChanged = run.journal.keyChanged
      BY <1>4, RecordsAgree
    <3>3. /\ after.staging = {} /\ after.configPrevious # None
          /\ after.credentialPrevious # None <=>
               KeepsKey(self.journal) /\ "restoreStatic" \notin {"snapshotConfig", "snapshotKey"}
          /\ self.journal.keyChanged => self.supplied # None
      BY <1>4, <1>7, <2>5, <3>2
    <3>4. QED
      BY ZenonT(60), <1>4, <1>6, <1>7, <2>5, <2>11, <3>1, <3>3, ApplyRuns
  <2>12. \A one \in BOOLEAN : one => Runs(pc', run', after, {after}, one, wg', txn'.kept)
    BY <1>5, <2>2, <2>11
  <2>13. verdict' # "stuck"
    BY <2>2 DEF SInv
  <2>14. QED
    BY <1>5, <1>7, <2>2, <2>4, <2>10, <2>12, <2>13, DoneSound
<1>11. QED
  BY <1>9, <1>10

(* --------------------------- the health proof --------------------------- *)

\* A recovery that proves what an earlier invocation activated.
LEMMA ProvingFacts ==
  ASSUME SInv, pc \in {"beginProof", "markVerifying", "verify", "markVerified"},
         run.caller = "recovery"
  PROVE  /\ run.journal = Disk.journal /\ Disk.journal # None /\ run.journal \in Journal
         /\ ~txn.kept /\ run.journal.operation # "static-restore"
         /\ Disk.staging \subseteq Snapshots /\ Fits(Img, wg)
         /\ run.journal.phase \in {"activated", "verifying"} /\ Open(Disk)
         /\ ~Underway(Disk) /\ ~Settled(Disk) /\ Disk.configPrevious # None
         /\ KeepsKey(Disk.journal) => Disk.credentialPrevious # None
<1>1. Runs(pc, run, Disk, Img, Len(images) = 1, wg, txn.kept) /\ TInv
  BY DEF SInv, RunInv
<1>2. pc \in Standing \ {"markActivated"} /\ pc \notin {"restoreStatic", "restoreConfig", "markRolledBack"}
  BY DEF Standing
<1>3. run.journal # None /\ run.journal.phase \in {"activated", "verifying"}
  BY <1>1 DEF TInv, Control, CallerAt, JournalAt
<1>4. run.journal = Disk.journal /\ ~txn.kept /\ run.journal.operation # "static-restore"
  BY <1>1, <1>2 DEF Runs, Recorded, Backed
<1>5. Disk.staging \subseteq Snapshots /\ Fits(Img, wg)
  BY <1>1, <1>2, FitsElse DEF Runs, Cleaning
<1>6. Open(Disk) /\ ~Underway(Disk) /\ ~Settled(Disk)
  BY <1>3, <1>4 DEF Open, Underway, Settled, ClosedPhases
<1>7. OpenWorth(Disk, wg)
  BY <1>6, HostFacts DEF Worth
<1>8. run.journal \in Journal
  BY <1>1, <1>3, RunFacts
<1>9. QED
  BY <1>3, <1>4, <1>5, <1>6, <1>7, <1>8 DEF OpenWorth

\* A proof goes on.
LEMMA StandingRuns ==
  ASSUME NEW p \in {"beginProof", "markVerifying", "verify", "markVerified"}, NEW r,
         NEW D, NEW S, NEW one \in BOOLEAN, NEW w, NEW k \in BOOLEAN, ~k,
         r.caller = "recovery", r.journal = D.journal, r.journal.operation # "static-restore",
         D.staging \subseteq Snapshots, Fits(S, w)
  PROVE  Runs(p, r, D, S, one, w, k)
<1>1. p \in Standing /\ p \notin Deciding \cup CleanSteps \cup PostSteps \cup RollbackSteps
  BY DEF Standing, Deciding, RollbackSteps, CleanSteps, PostSteps
<1>2. Recorded(p, r, D)
  BY <1>1 DEF Recorded
<1>3. Backed(p, r, D, S, w, k)
  BY <1>1 DEF Backed, Rolling
<1>4. Cleaning(p, r, D, w, k)
  BY <1>1 DEF Cleaning, CleanSteps
<1>5. Starting(p, r, D, w, k) /\ Applied(p, r, D, one, w, k) /\ Posted(p, r, D, one)
  BY <1>1 DEF Starting, Applied, Posted
<1>6. QED
  BY <1>2, <1>3, <1>4, <1>5 DEF Runs

\* Where an error out of the try block finds the host.
LEMMA ApplyRises ==
  ASSUME SInv, run.caller = "apply", pc \in ApplySteps \cup ProofSteps, pc # "prepare",
         NEW S, NEW e \in S, NEW v, Fits(S, v), e.journal = Disk.journal,
         txn.kept => e.config.source = "static" /\ Visible(v),
         run.journal.phase # "prepared" =>
           e.configPrevious # None /\ (KeepsKey(run.journal) => e.credentialPrevious # None),
         ~txn.kept /\ run.journal.operation = "static-restore" => \A d \in S : ~Settled(d)
  PROVE  Rises(run, e, S, v, txn.kept)
<1>1. pc \notin CleanSteps /\ TInv
  BY HostFacts DEF ApplySteps, ProofSteps, CleanSteps
<1>2. /\ Disk.journal = run.journal /\ Disk.journal # None /\ txn.kept \in BOOLEAN
      /\ txn.kept => pc \in Standing
      /\ pc \in Standing => (txn.kept <=> run.journal.operation = "static-restore")
  BY <1>1, HostFacts, ApplyFacts
<1>3. run.journal.phase \notin ClosedPhases
  BY <1>1 DEF TInv, Control, JournalAt, ApplySteps, ProofSteps, ClosedPhases
<1>4. run \in RunType /\ Worth(Disk, wg, txn.kept)
  BY <1>1, HostFacts, RunFacts
<1>5. Record(run.journal) = Record(e.journal) /\ Open(e) /\ Open(Disk)
  BY <1>2, <1>3 DEF Open
<1>6. CASE txn.kept
  <2>1. Underway(Disk)
    BY <1>4, <1>5, <1>6 DEF Worth
  <2>2. Underway(e)
    BY <1>5, <2>1 DEF Underway
  <2>3. QED
    BY <1>2, <1>4, <1>5, <1>6, <2>2, RisesKeep
<1>7. CASE ~txn.kept
  <2>1. ~Settled(e) /\ (Underway(e) => \A d \in S : ~Settled(d))
    BY <1>2, <1>7 DEF Settled, Underway
  <2>2. QED
    BY <1>2, <1>3, <1>4, <1>5, <1>7, <2>1, RisesOpen
<1>8. QED
  BY <1>6, <1>7

\* A proven transaction can be closed.
LEMMA FinalizeRuns ==
  ASSUME NEW r, NEW D, NEW S, NEW one \in BOOLEAN, NEW w, NEW k \in BOOLEAN,
         r.caller = "finalize", one, D.staging = {}, D.journal = r.journal, k => Visible(w),
         D.configPrevious # None, D.credentialPrevious # None <=> KeepsKey(r.journal),
         k <=> r.journal.operation = "static-restore",
         r.request.mode = "static" => D.config.source = "static", Fits(S, w)
  PROVE  Runs("markVerified", r, D, S, one, w, k)
<1> DEFINE p == "markVerified"
<1>1. /\ p \in Standing /\ p \notin Deciding \cup CleanSteps \cup PostSteps \cup RollbackSteps
      /\ p \notin {"markKey", "revalidate", "activate", "prepare", "validate", "ready",
                   "snapshotConfig", "snapshotKey", "reconcile", "unstage", "classify",
                   "restoreKey", "dropPreManaged", "markRolledBack", "markActivated"}
  BY DEF Standing, Deciding, RollbackSteps, CleanSteps, PostSteps
<1> HIDE DEF p
<1>2. Recorded(p, r, D)
  BY <1>1 DEF Recorded
<1>3. Backed(p, r, D, S, w, k)
  BY <1>1 DEF Backed, Rolling
<1>4. Cleaning(p, r, D, w, k)
  BY <1>1 DEF Cleaning, CleanSteps
<1>5. Starting(p, r, D, w, k) /\ Posted(p, r, D, one)
  BY <1>1 DEF Starting, Posted
<1>6. Applied(p, r, D, one, w, k)
  BY <1>1 DEF Applied
<1>7. Runs(p, r, D, S, one, w, k)
  BY <1>2, <1>3, <1>4, <1>5, <1>6 DEF Runs
<1>8. QED
  BY <1>7 DEF p

\* BeginProof keeps SInv.
LEMMA BeginProofSound ==
  ASSUME SInv, Shut, BeginProof
  PROVE  HostInv' /\ RunInv' /\ Timed' /\ verdict' # "stuck"
<1> DEFINE one == Len(images) = 1
<1>1. /\ pc = "beginProof" /\ images' = images /\ wg' = wg /\ timer' = timer /\ txn' = txn
      /\ pc' = "markVerifying" /\ run' = run /\ verdict' = verdict
  BY DEF BeginProof, Go
<1>2. /\ run.caller \in {"recovery", "apply"} /\ run.journal # None
      /\ run.journal.phase = "activated" /\ verdict' # "stuck"
      /\ pc \notin {"idle", "enter", "stop"}
  BY <1>1 DEF SInv, TInv, Control, CallerAt, JournalAt, ProofSteps
<1>3. Hosts(Img, Disk, wg, txn.kept) /\ txn.kept \in BOOLEAN /\ one \in BOOLEAN
  BY HostFacts DEF HostInv
<1>4. Runs("markVerifying", run, Disk, Img, one, wg, txn.kept)
  <2>1. CASE run.caller = "recovery"
    <3>1. /\ run.journal = Disk.journal /\ ~txn.kept /\ run.journal.operation # "static-restore"
          /\ Disk.staging \subseteq Snapshots /\ Fits(Img, wg)
      BY <1>1, <2>1, ProvingFacts
    <3> HIDE DEF one
    <3>2. QED
      BY <1>3, <2>1, <3>1, StandingRuns
  <2>2. CASE run.caller = "apply"
    <3>1. pc \in Standing /\ pc \notin CleanSteps /\ Fits(Img, wg) /\ pc # "prepare"
      BY <1>1, FitsElse DEF Standing, CleanSteps
    <3>2. /\ one /\ Disk.staging = {}
          /\ txn.kept => Visible(wg)
          /\ Disk.journal = run.journal /\ Disk.configPrevious # None
          /\ Disk.credentialPrevious # None <=> KeepsKey(run.journal)
          /\ txn.kept <=> run.journal.operation = "static-restore"
          /\ run.request.mode = "static" => Disk.config.source = "static"
          /\ run.journal.keyChanged => run.supplied # None
      BY <1>1, <2>2, <3>1, ApplyFacts
    <3> DEFINE next == "markVerifying"
    <3>3. /\ next \in ApplySteps \cup ProofSteps /\ next \in Standing
          /\ next \notin {"prepare", "snapshotConfig", "snapshotKey", "markKey", "revalidate",
                          "activate"}
      BY DEF ProofSteps, Standing
    <3> HIDE DEF one, next
    <3>4. /\ (next = "snapshotConfig") <=> Disk.configPrevious = None
          /\ Disk.credentialPrevious # None <=>
               KeepsKey(run.journal) /\ next \notin {"snapshotConfig", "snapshotKey"}
          /\ next \in {"markKey", "revalidate", "activate"} => Disk.credential # None
          /\ next = "activate" => Disk.config.source = "static"
          /\ next # "prepare" /\ (txn.kept => next \in Standing /\ Visible(wg))
          /\ next \in Standing => (txn.kept <=> run.journal.operation = "static-restore")
          /\ run.request.mode = "static" /\ next \in Standing => Disk.config.source = "static"
      BY <3>2, <3>3
    <3>6. ASSUME NEW m \in BOOLEAN, m PROVE Runs(next, run, Disk, Img, m, wg, txn.kept)
      <4>1. Fits(Img, wg) \/ Refusing(next, run, Disk, m)
        BY <3>1
      <4>2. Disk.staging = {} /\ Disk.journal = run.journal /\ txn.kept \in BOOLEAN
            /\ (run.journal.keyChanged => run.supplied # None)
            /\ (txn.kept => next \in Standing /\ Visible(wg))
        BY <1>3, <3>2, <3>4
      <4>3. /\ (next = "snapshotConfig") <=> Disk.configPrevious = None
            /\ Disk.credentialPrevious # None <=>
                 KeepsKey(run.journal) /\ next \notin {"snapshotConfig", "snapshotKey"}
        BY <3>4
      <4>4. /\ next \in {"markKey", "revalidate", "activate"} => Disk.credential # None
            /\ next = "activate" => Disk.config.source = "static"
            /\ next \in Standing => (txn.kept <=> run.journal.operation = "static-restore")
            /\ run.request.mode = "static" /\ next \in Standing => Disk.config.source = "static"
        BY <3>4
      <4>5. next \in ApplySteps \cup ProofSteps /\ next # "prepare"
        BY <3>3
      <4>6. QED
        BY <2>2, <3>6, <4>1, <4>2, <4>3, <4>4, <4>5, ApplyRuns
    <3>7. Runs(next, run, Disk, Img, one, wg, txn.kept)
      BY <1>3, <3>2, <3>6
    <3>5. QED
      BY <3>7 DEF next
  <2>3. QED
    BY <1>2, <2>1, <2>2
<1>5. QED
  BY <1>1, <1>2, <1>3, <1>4, SkipSound DEF one

\* MarkVerifying keeps SInv.
LEMMA MarkVerifyingSound ==
  ASSUME SInv, Shut, MarkVerifying
  PROVE  HostInv' /\ RunInv' /\ Timed' /\ verdict' # "stuck"
<1> DEFINE j == [run.journal EXCEPT !.phase = "verifying", !.proof = TRUE]
           self == [run EXCEPT !.journal = j]
           after == Written(Disk, "journal", j)
           leaves == WriteLeaves(Disk, "journal", j)
<1>1. /\ pc = "markVerifying" /\ UNCHANGED <<wg, timer, txn>>
      /\ j \in Journal /\ run.journal \in Journal
      /\ \/ Completed(after) /\ pc' = "verify" /\ run' = self /\ verdict' = verdict
         \/ NotDone(run, leaves)
  BY HostFacts, MarkVerifyingLands
<1>2. /\ run.caller \in {"recovery", "apply"} /\ run.journal # None
      /\ run.journal.phase = "activated" /\ TInv
  BY <1>1 DEF SInv, TInv, Control, CallerAt, JournalAt, ProofSteps
<1>3. run.journal \in JournalRecord /\ run \in RunType /\ j # None
  BY <1>1, <1>2, RunFacts, NoneApart
<1>4. Record(j) = Record(run.journal) /\ j.phase = "verifying" /\ j.phase \notin ClosedPhases
      /\ j.operation = run.journal.operation
  BY <1>3 DEF JournalRecord, Record, ClosedPhases
<1>5. /\ self \in RunType /\ self.caller = run.caller /\ self.request = run.request
      /\ self.supplied = run.supplied /\ self.journal = j
  BY <1>1, <1>3 DEF RunType
<1>6. CASE run.caller = "recovery"
  <2>1. /\ run.journal = Disk.journal /\ ~txn.kept /\ run.journal.operation # "static-restore"
        /\ Disk.staging \subseteq Snapshots /\ Fits(Img, wg) /\ Open(Disk)
        /\ Disk.configPrevious # None
        /\ KeepsKey(Disk.journal) => Disk.credentialPrevious # None
    BY <1>1, <1>6, ProvingFacts
  <2> HIDE DEF j
  <2>2. /\ Leaves(leaves, wg, txn.kept) /\ Disk \in leaves /\ after \in leaves
        /\ after.journal = j /\ after.staging = Disk.staging
    BY <1>1, <1>3, <1>4, <2>1, PhaseLeaves
  <2>3. \A one \in BOOLEAN : one => Runs("verify", self, after, {after}, one, wg, txn.kept)
    <3>1. SUFFICES ASSUME NEW one \in BOOLEAN, one
                   PROVE  Runs("verify", self, after, {after}, one, wg, txn.kept)
      OBVIOUS
    <3>2. Fits({after}, wg) /\ txn.kept \in BOOLEAN
      BY <2>2, LeavesAfter, HostFacts
    <3> HIDE DEF self, after
    <3>3. self.journal = after.journal /\ self.journal.operation # "static-restore"
          /\ after.staging \subseteq Snapshots /\ self.caller = "recovery"
      BY <1>4, <1>5, <1>6, <2>1, <2>2
    <3>4. QED
      BY <2>1, <3>2, <3>3, StandingRuns
  <2> HIDE DEF self, after, leaves
  <2>4. /\ run.caller \in Callers /\ run.caller # "apply" /\ txn'.kept = txn.kept
        /\ pc \notin {"idle", "enter", "stop"}
    BY <1>1, <1>6 DEF Callers
  <2>5. QED
    BY <1>1, <2>2, <2>3, <2>4, StoreSound
<1>7. CASE run.caller = "apply"
  <2>1. /\ pc \in ApplySteps \cup ProofSteps /\ pc \in Standing /\ pc \notin CleanSteps
        /\ pc \notin {"prepare", "snapshotConfig", "snapshotKey"} /\ Fits(Img, wg)
        /\ "verify" \in ApplySteps \cup ProofSteps /\ "verify" \in Standing
    BY <1>1, FitsElse DEF ProofSteps, Standing, CleanSteps
  <2>2. /\ txn.kept <=> run.journal.operation = "static-restore"
        /\ txn.kept => Visible(wg)
        /\ Disk.journal = run.journal
        /\ run.request.mode = "static" => Disk.config.source = "static"
    BY <1>7, <2>1, ApplyFacts
  <2>3. run.journal.phase \notin ClosedPhases /\ self.journal.phase \notin ClosedPhases
    BY <1>2, <1>4, <1>5 DEF ClosedPhases
  <2> HIDE DEF j, self
  <2>4. self.journal.operation = "static-restore" =>
           /\ self.journal.phase # "prepared" /\ None \notin {wg.profile, wg.preManaged}
           /\ txn.kept => run.journal.phase # "prepared"
           /\ ~txn.kept => self.journal.phase = "activating" /\ run.journal.phase = "prepared"
           /\ self.journal.phase # "activating" => Disk.config.source = "static"
    <3>1. SUFFICES ASSUME run.journal.operation = "static-restore"
                   PROVE  None \notin {wg.profile, wg.preManaged} /\ Disk.config.source = "static"
      BY <1>2, <1>4, <1>5, <2>2
    <3>2. txn.kept /\ Visible(wg) /\ Worth(Disk, wg, txn.kept)
      BY <2>2, <3>1, HostFacts
    <3>3. QED
      BY <3>2 DEF Visible, Worth
  <2>5. run \in {run, self} /\ self.caller = "apply" /\ self.journal \in Journal
        /\ self.journal # None /\ Record(self.journal) = Record(run.journal)
    BY <1>1, <1>3, <1>4, <1>5, <1>7
  <2>6. txn.kept <=> self.journal.operation = "static-restore"
    BY <1>4, <1>5, <2>2
  <2>7. \/ /\ Completed(Written(Disk, "journal", self.journal))
           /\ pc' = "verify" /\ run' = self /\ verdict' = verdict
        \/ NotDone(run, WriteLeaves(Disk, "journal", self.journal))
    BY <1>1, <1>5
  <2>8. QED
    BY <1>1, <1>5, <1>7, <2>1, <2>2, <2>3, <2>4, <2>5, <2>6, <2>7, PhaseSound
<1>8. QED
  BY <1>2, <1>6, <1>7

\* Verify keeps SInv.
LEMMA VerifySound ==
  ASSUME SInv, Shut, Verify, ~RotatesRestoration
  PROVE  HostInv' /\ RunInv' /\ Timed' /\ verdict' # "stuck"
<1> DEFINE one == Len(images) = 1
<1>1. pc = "verify" /\ UNCHANGED <<timer, txn>> /\ Calls(CheckResults, ProofEnds, ProofFails)
  BY HostFacts, VerifyLands
<1>2. /\ run.caller \in {"recovery", "apply"} /\ run.journal # None /\ run.journal.phase = "verifying"
      /\ pc \notin {"idle", "enter", "stop"} /\ Fits(Img, wg) /\ run \in RunType
      /\ pc \in Standing /\ pc \in ProofSteps /\ pc \notin CleanSteps /\ pc # "prepare"
  BY <1>1, FitsElse, HostFacts, RunFacts
     DEF SInv, TInv, Control, CallerAt, JournalAt, ProofSteps, Standing, CleanSteps
<1>3. txn.kept \in BOOLEAN /\ txn'.kept = txn.kept /\ Disk \in Img
  BY <1>1, HostFacts
<1>4. ASSUME run.caller = "apply"
      PROVE  /\ one /\ Disk.staging = {} /\ Disk.journal = run.journal /\ Open(Disk)
             /\ Disk.configPrevious # None
             /\ Disk.credentialPrevious # None <=> KeepsKey(run.journal)
             /\ txn.kept <=> run.journal.operation = "static-restore"
             /\ run.request.mode = "static" => Disk.config.source = "static"
  <2>1. Disk.journal = run.journal /\ Disk.journal # None
    BY <1>2, <1>4, ApplyFacts
  <2>2. Open(Disk)
    BY <1>2, <2>1 DEF Open, ClosedPhases
  <2>3. QED
    BY <1>1, <1>2, <1>4, <2>1, <2>2, ApplyFacts
<1>5. ASSUME run.caller = "recovery"
      PROVE  /\ run.journal = Disk.journal /\ Disk.journal # None
             /\ ~txn.kept /\ run.journal.operation # "static-restore"
             /\ Disk.staging \subseteq Snapshots /\ Open(Disk) /\ ~Underway(Disk)
             /\ ~Settled(Disk) /\ Disk.configPrevious # None
             /\ KeepsKey(Disk.journal) => Disk.credentialPrevious # None
  BY <1>1, <1>5, ProvingFacts
<1>6. ASSUME NEW r \in CheckResults, CallEnds(r) \/ CallCut(r)
      PROVE  /\ r \in ResultType /\ r.source = Disk.config.source
             /\ Hosts(Img, Disk, r.wg, txn.kept) /\ Fits(Img, r.wg)
             /\ txn.kept /\ Open(Disk) => Visible(r.wg)
  <2>1. wg' = r.wg
    BY <1>6 DEF CallEnds, CallCut
  <2>2. SparesRestored(r.wg)
    BY <1>1, <2>1, SparesRestoredHere
  <2>3. QED
    BY <1>2, <2>2, CheckKeeps
<1>7. ASSUME NEW r \in CheckResults, CallEnds(r),
             Go("markVerified", IF run.caller = "apply" THEN [run EXCEPT !.caller = "finalize"] ELSE run)
      PROVE  HostInv' /\ RunInv' /\ Timed' /\ verdict' # "stuck"
  <2>1. images' = images /\ wg' = r.wg
    BY <1>6, <1>7, SourceKept
  <2> DEFINE self == IF run.caller = "apply" THEN [run EXCEPT !.caller = "finalize"] ELSE run
  <2>2. pc' = "markVerified" /\ run' = self /\ verdict' = verdict /\ verdict' # "stuck"
    BY <1>7 DEF Go, SInv
  <2>3. CASE run.caller = "apply"
    <3>1. self.caller = "finalize" /\ self.journal = run.journal /\ self.request = run.request
      BY <1>2, <2>3 DEF RunType
    <3> HIDE DEF self
    <3>2. txn.kept => Visible(r.wg)
      BY <1>4, <1>6, <1>7, <2>3
    <3>3. ASSUME NEW m \in BOOLEAN, m
          PROVE  Runs("markVerified", self, Disk, Img, m, r.wg, txn.kept)
      <4>1. Fits(Img, r.wg) /\ txn.kept \in BOOLEAN
        BY <1>3, <1>6, <1>7
      <4>2. /\ Disk.staging = {} /\ Disk.journal = self.journal
            /\ Disk.configPrevious # None
            /\ Disk.credentialPrevious # None <=> KeepsKey(self.journal)
            /\ txn.kept <=> self.journal.operation = "static-restore"
            /\ self.request.mode = "static" => Disk.config.source = "static"
        BY <1>4, <2>3, <3>1
      <4>3. QED
        BY <3>1, <3>2, <3>3, <4>1, <4>2, FinalizeRuns
    <3>4. one /\ one \in BOOLEAN
      BY <1>4, <2>3
    <3> HIDE DEF one
    <3>5. Runs("markVerified", self, Disk, Img, one, r.wg, txn.kept)
      BY <3>3, <3>4
    <3>6. QED
      BY <1>1, <1>2, <1>3, <1>6, <1>7, <2>1, <2>2, <3>5, SkipSound DEF one
  <2>4. CASE run.caller = "recovery"
    <3>1. self = run
      BY <2>4
    <3>2. one \in BOOLEAN
      OBVIOUS
    <3> HIDE DEF one
    <3>3. Runs("markVerified", run, Disk, Img, one, r.wg, txn.kept)
      BY <1>3, <1>5, <1>6, <1>7, <2>4, <3>2, StandingRuns
    <3>4. QED
      BY <1>1, <1>2, <1>3, <1>6, <1>7, <2>1, <2>2, <3>1, <3>3, SkipSound DEF one
  <2>5. QED
    BY <1>2, <2>3, <2>4
<1>8. ASSUME NEW r \in CheckResults, CallEnds(r), ProofFails
      PROVE  HostInv' /\ RunInv' /\ Timed' /\ verdict' # "stuck"
  <2>1. images' = images /\ wg' = r.wg
    BY <1>6, <1>8, SourceKept
  <2>2. Hosts(Img, Disk, r.wg, txn.kept) /\ Fits(Img, r.wg)
    BY <1>6, <1>8
  <2>3. CASE run.caller = "apply"
    <3>1. Raise(run)
      BY <1>8, <2>3 DEF ProofFails
    <3>2. Rises(run, Disk, Img, r.wg, txn.kept)
      <4>1. txn.kept => Disk.config.source = "static" /\ Visible(r.wg)
        BY <1>4, <1>6, <1>8, <2>3, HostFacts DEF Worth
      <4>2. run.journal.phase # "prepared" =>
              Disk.configPrevious # None /\ (KeepsKey(run.journal) => Disk.credentialPrevious # None)
        BY <1>4, <2>3
      <4>3. ~(~txn.kept /\ run.journal.operation = "static-restore")
        BY <1>4, <2>3
      <4>4. QED
        BY <1>2, <1>3, <2>2, <2>3, <4>1, <4>2, <4>3, ApplyRises
    <3>3. QED
      BY <1>1, <1>2, <1>3, <2>1, <2>2, <2>3, <3>1, <3>2, RaiseHere
  <2>4. CASE run.caller = "recovery"
    <3> DEFINE self == [run EXCEPT !.caller = "rollback"]
    <3>1. pc' = UndoStep(run) /\ run' = self /\ verdict' = verdict /\ verdict' # "stuck"
      BY <1>8, <2>4 DEF ProofFails, RollBack, Go, UndoStep, SInv
    <3>2. self.caller = "rollback" /\ self.journal = run.journal
      BY <1>2 DEF RunType
    <3>3. /\ self.caller \in {"rollback", "undo"} /\ Disk.journal # None
          /\ Record(self.journal) = Record(Disk.journal)
          /\ self.caller # "undo" => self.journal = Disk.journal
          /\ self.journal.phase \notin ClosedPhases
          /\ self.journal.phase # "prepared" =>
               Disk.configPrevious # None /\ (KeepsKey(self.journal) => Disk.credentialPrevious # None)
          /\ self.caller = "rollback" => Disk.staging \subseteq Snapshots
      BY <1>2, <1>5, <2>4, <3>2 DEF ClosedPhases
    <3>4. Open(Disk) /\ ~Settled(Disk) /\ (Underway(Disk) => \A d \in Img : ~Settled(d))
          /\ ~txn.kept /\ txn.kept \in BOOLEAN /\ one \in BOOLEAN
      BY <1>3, <1>5, <2>4
    <3> HIDE DEF self, one
    <3>5. Runs(UndoStep(run), self, Disk, Img, one, r.wg, txn.kept)
      <4>1. CASE UndoStep(run) = "reconcile"
        BY <2>2, <3>3, <3>4, <4>1, UndoRuns
      <4>2. CASE UndoStep(run) = "restoreConfig"
        BY <2>2, <3>3, <3>4, <4>2, RollbackRuns DEF RollbackSteps
      <4>3. QED
        BY <4>1, <4>2 DEF UndoStep
    <3>6. QED
      BY <1>1, <1>2, <1>3, <2>1, <2>2, <3>1, <3>5, SkipSound DEF one
  <2>5. QED
    BY <1>2, <2>3, <2>4
<1>9. ASSUME NEW r \in CheckResults, CallCut(r)
      PROVE  HostInv' /\ RunInv' /\ Timed' /\ verdict' # "stuck"
  <2>1. /\ wg' = r.wg /\ pc' = "idle" /\ run' = NoRun /\ verdict' = "killed"
        /\ images' = images \/ Lost({Disk})
    BY <1>6, <1>9, SourceKept
  <2>2. QED
    BY <1>1, <1>2, <1>3, <1>6, <1>9, <2>1, EndOrLost
<1>10. PICK r \in CheckResults :
         \/ CallEnds(r) /\ (IF r.ok THEN ProofEnds ELSE ProofFails)
         \/ CallCut(r)
  BY <1>1 DEF Calls
<1>11. QED
  BY <1>7, <1>8, <1>9, <1>10 DEF ProofEnds

\* The leaves of a call that closes the record.
LEMMA CloseLeaves ==
  ASSUME SInv, Fits(Img, wg), Disk.journal # None,
         NEW j \in Journal, j # None, Record(j) = Record(Disk.journal), j.phase \in ClosedPhases
  PROVE  LET leaves == WriteLeaves(Disk, "journal", j)
             after == Written(Disk, "journal", j)
         IN /\ Leaves(leaves, wg, txn.kept) /\ Disk \in leaves /\ after \in leaves
            /\ after.journal = j /\ after.config = Disk.config /\ after.credential = Disk.credential
            /\ after.configPrevious = Disk.configPrevious
            /\ after.credentialPrevious = Disk.credentialPrevious /\ after.staging = Disk.staging
<1> DEFINE after == Written(Disk, "journal", j)
           leaves == WriteLeaves(Disk, "journal", j)
<1>1. /\ Disk \in Directory /\ Disk \in Img /\ Worth(Disk, wg, txn.kept) /\ txn.kept \in BOOLEAN
      /\ HostInv /\ Stands(Img, Disk, wg, txn.kept) /\ Alone(Img)
      /\ \A d \in Img : Worth(d, wg, txn.kept)
  BY HostFacts
<1>2. leaves \subseteq Directory /\ Disk \in leaves /\ after \in leaves
  BY <1>1, WriteTypes DEF WriteLeaves, Entry
<1>3. /\ after.journal = j /\ after.config = Disk.config /\ after.credential = Disk.credential
      /\ after.configPrevious = Disk.configPrevious
      /\ after.credentialPrevious = Disk.credentialPrevious /\ after.staging = Disk.staging
  BY <1>1 DEF Written, Directory
<1>4. UndoesAdoption(j) = UndoesAdoption(Disk.journal)
  BY RecordsAgree
<1> HIDE DEF after
<1>5. Worth(after, wg, txn.kept) /\ ~Open(after) /\ ~Settled(after) /\ ~Underway(after)
  BY <1>1, <1>3, ClosedWorth
<1>6. ASSUME NEW e \in leaves
      PROVE  /\ Worth(e, wg, txn.kept) /\ e.config = Disk.config
             /\ e.configPrevious = Disk.configPrevious /\ e.journal \in {Disk.journal, j}
             /\ (Settled(e) => Settled(Disk)) /\ (Underway(e) => Underway(Disk))
             /\ (Open(e) => Open(Disk) /\ e.journal = Disk.journal)
  <2>1. CASE StagesFrom(e, Disk, "journal")
    <3>1. SameFiles(e, Disk)
      BY <2>1 DEF StagesFrom
    <3>2. Worth(e, wg, txn.kept) /\ (Settled(e) <=> Settled(Disk))
      BY <1>1, <3>1, SameWorth DEF SameFiles
    <3>3. QED
      BY <3>1, <3>2 DEF SameFiles, Underway, Open
  <2>2. CASE e = after
    BY <1>3, <1>5, <2>2
  <2>3. QED
    BY <1>1, <2>1, <2>2, JournalForms DEF leaves, after
<1> HIDE DEF leaves
<1>7. (\E d \in Img \cup leaves : Underway(d)) =>
        /\ ~UndoesAdoption(j)
        /\ None \notin {wg.profile, wg.preManaged}
        /\ \A d \in Img : d.journal # None => ~UndoesAdoption(d.journal)
  BY <1>1, <1>4, <1>6 DEF Fits, Alone
<1>8. (\E d \in Img \cup leaves : Settled(d)) =>
        /\ Disk.config.source = "static"
        /\ \A e \in leaves : Open(e) => Underway(e) \/ e.configPrevious = None
  BY <1>1, <1>6 DEF Stands, Underway, Open
<1>9. \A e \in leaves : Settled(e) \/ (txn.kept /\ Open(e)) => Visible(wg)
  BY <1>1, <1>6 DEF Stands
<1>10. \A e \in leaves : Worth(e, wg, txn.kept) /\ e.config = Disk.config
                         /\ e.configPrevious = Disk.configPrevious
                         /\ e.journal \in {Disk.journal, j}
  BY <1>6
<1>11. Leaves(leaves, wg, txn.kept)
  BY <1>1, <1>2, <1>7, <1>8, <1>9, <1>10, MarkLeaves
<1>12. QED
  BY <1>2, <1>3, <1>11 DEF after, leaves

\* MarkVerified keeps SInv.
LEMMA MarkVerifiedSound ==
  ASSUME SInv, Shut, MarkVerified
  PROVE  HostInv' /\ RunInv' /\ Timed' /\ verdict' # "stuck"
<1> DEFINE self == Phased("verified")
           leaves == WriteLeaves(Disk, "journal", self.journal)
           after == Written(Disk, "journal", self.journal)
<1>1. Mark("markVerified", "verified", "cleanConfig") /\ pc = "markVerified"
  BY DEF MarkVerified, Mark
<1>2. /\ run.caller \in {"recovery", "finalize"} /\ run.journal # None
      /\ run.journal.phase = "verifying"
  BY <1>1 DEF SInv, TInv, Control, CallerAt, JournalAt
<1>3. "verified" \in Phases /\ "verified" \in OperationPhases(run.journal.operation)
      /\ (run.journal.proof <=> "verified" \in ProofPhases) /\ TInv
  BY <1>2, HostFacts, Unproved DEF Phases, OperationPhases, ProofPhases
<1>4. /\ self \in RunType /\ self.caller = run.caller /\ self.request = run.request
      /\ self.journal \in Journal /\ self.journal # None
      /\ Record(self.journal) = Record(run.journal) /\ self.journal.phase = "verified"
      /\ self.journal.operation = run.journal.operation
  BY <1>2, <1>3, PhasedKeeps
<1>5. /\ UNCHANGED <<wg, timer, txn>>
      /\ \/ Completed(after) /\ pc' = "cleanConfig" /\ run' = self /\ verdict' = verdict
         \/ NotDone(self, leaves)
  BY <1>1, <1>2, <1>3, MarkLands
<1> HIDE DEF self
<1>6. /\ pc \in Standing /\ pc \notin CleanSteps /\ pc # "prepare" /\ Fits(Img, wg)
      /\ pc \notin {"idle", "enter", "stop"} /\ txn.kept \in BOOLEAN
  BY <1>1, FitsElse, HostFacts DEF Standing, CleanSteps
<1>7. /\ Disk.journal = run.journal /\ Disk.journal # None
      /\ run.caller = "recovery" => Disk.staging \subseteq Snapshots /\ ~txn.kept
  <2>1. CASE run.caller = "recovery"
    BY <1>1, <2>1, ProvingFacts
  <2>2. CASE run.caller = "finalize"
    BY <1>6, <2>2, ApplyFacts
  <2>3. QED
    BY <1>2, <2>1, <2>2
<1>8. self.journal.phase \in ClosedPhases /\ Record(self.journal) = Record(Disk.journal)
  BY <1>4, <1>7 DEF ClosedPhases
<1>9. /\ Leaves(leaves, wg, txn.kept) /\ Disk \in leaves /\ after \in leaves
      /\ after.journal = self.journal /\ after.config = Disk.config
      /\ after.staging = Disk.staging
  BY <1>4, <1>6, <1>7, <1>8, CloseLeaves
<1> HIDE DEF after, leaves
<1>10. \A one \in BOOLEAN : one => Runs("cleanConfig", self, after, {after}, one, wg, txn.kept)
  <2>1. SUFFICES ASSUME NEW one \in BOOLEAN, one
                 PROVE  Runs("cleanConfig", self, after, {after}, one, wg, txn.kept)
    OBVIOUS
  <2>2. Fits({after}, wg)
    BY <1>9, LeavesAfter
  <2>3. self.caller = "finalize" => Applied("cleanConfig", self, after, one, wg, txn.kept)
    <3>1. SUFFICES ASSUME run.caller = "finalize"
                   PROVE  Applied("cleanConfig", self, after, one, wg, txn.kept)
      BY <1>4
    <3>3. Disk.staging = {}
      BY <1>6, <3>1, ApplyFacts
    <3>4. txn.kept => Visible(wg)
      BY <1>6, <3>1, ApplyFacts
    <3>5. self.request.mode = "static" => after.config.source = "static"
      BY <1>4, <1>6, <1>9, <3>1, ApplyFacts
    <3>6. "cleanConfig" \in CleanSteps /\ "cleanConfig" \notin {"markKey", "revalidate", "activate"}
      BY DEF CleanSteps
    <3>7. QED
      BY <1>9, <2>1, <3>3, <3>4, <3>5, <3>6 DEF Applied
  <2>4. /\ after.journal # None /\ after.journal.phase \in ClosedPhases
        /\ Record(self.journal) = Record(after.journal)
        /\ self.caller = "finalize" => after.journal.phase = "verified"
        /\ self.caller \in {"recovery", "finalize"} /\ self.caller \notin {"rollback", "undo"}
        /\ self.caller \in {"recovery", "rollback"} => after.staging \subseteq Snapshots
    BY <1>2, <1>4, <1>7, <1>8, <1>9
  <2>5. "cleanConfig" \in CleanSteps /\ "cleanConfig" \notin {"cleanKey", "cleanJournal"}
    BY DEF CleanSteps
  <2>6. QED
    BY <1>6, <2>2, <2>3, <2>4, <2>5, CleanRuns
<1>11. self.caller \in Callers /\ self.caller # "apply" /\ txn'.kept = txn.kept
  BY <1>2, <1>4, <1>5 DEF Callers
<1>12. QED
  BY <1>5, <1>6, <1>9, <1>10, <1>11, StoreSound

(* ------------------------- the files of a request ----------------------- *)

\* The try block writes a file and keeps its record.
LEMMA FileSound ==
  ASSUME SInv, Shut, run.caller = "apply", pc \in ApplySteps, pc # "prepare",
         pc \notin Standing, Fits(Img, wg), UNCHANGED <<wg, timer, txn>>,
         NEW leaves \in SUBSET Directory, Disk \in leaves, NEW after \in leaves,
         \A e \in leaves :
           /\ e.journal = Disk.journal /\ Worth(e, wg, txn.kept) /\ ~Settled(e)
           /\ run.journal.phase # "prepared" =>
                e.configPrevious # None /\ (KeepsKey(run.journal) => e.credentialPrevious # None),
         NEW next \in ApplySteps, next \notin {"prepare", "snapshotConfig"},
         next \in Standing => run.journal.operation # "static-restore",
         after.staging = {}, after.configPrevious # None,
         after.credentialPrevious # None <=> KeepsKey(run.journal) /\ next # "snapshotKey",
         next \in {"markKey", "revalidate", "activate"} => after.credential # None,
         next = "activate" => after.config.source = "static",
         run.request.mode = "static" /\ next \in Standing => after.config.source = "static",
         \/ Completed(after) /\ pc' = next /\ run' = run /\ verdict' = verdict
         \/ NotDone(run, leaves)
  PROVE  HostInv' /\ RunInv' /\ Timed' /\ verdict' # "stuck"
<1>1. pc \notin CleanSteps /\ pc \in ApplySteps \cup ProofSteps
  BY DEF ApplySteps, CleanSteps
<1>2. /\ ~txn.kept /\ txn.kept \in BOOLEAN /\ Img = {Disk} /\ Disk.journal = run.journal
      /\ run.journal.keyChanged => run.supplied # None
      /\ pc \notin {"idle", "enter", "stop"}
  BY <1>1, HostFacts, ApplyFacts
<1>3. /\ HostInv /\ Disk \in Img /\ \A d \in Img : Worth(d, wg, txn.kept)
      /\ Stands(Img, Disk, wg, txn.kept)
  BY HostFacts
<1>4. \A d \in Img \cup leaves : ~Settled(d)
  BY <1>2
<1>5. Leaves(leaves, wg, txn.kept)
  <2>1. \A e \in leaves : e.journal \in {Disk.journal, None} /\ Worth(e, wg, txn.kept)
    OBVIOUS
  <2>2. \A e \in leaves : Settled(e) => Visible(wg)
    BY <1>4
  <2>3. ~\E d \in Img \cup leaves : Settled(d)
    BY <1>4
  <2>4. QED
    BY <1>3, <2>1, <2>2, <2>3, KinLeaves
<1>6. Fits(Img \cup leaves, wg)
  BY <1>5 DEF Leaves
<1>7. ASSUME NEW e \in leaves PROVE Rises(run, e, Img \cup leaves, wg, txn.kept)
  <2>1. e \in Img \cup leaves /\ e.journal = Disk.journal
    BY <1>7
  <2>2. run.journal.phase # "prepared" =>
          e.configPrevious # None /\ (KeepsKey(run.journal) => e.credentialPrevious # None)
    BY <1>7
  <2>3. QED
    BY <1>1, <1>2, <1>4, <1>6, <2>1, <2>2, ApplyRises
<1>8. \A one \in BOOLEAN : one => Runs(next, run, after, {after}, one, wg, txn.kept)
  <2>1. SUFFICES ASSUME NEW one \in BOOLEAN, one
                 PROVE  Runs(next, run, after, {after}, one, wg, txn.kept)
    OBVIOUS
  <2>2. Fits({after}, wg)
    BY <1>5, LeavesAfter
  <2>3. /\ (next = "snapshotConfig") <=> after.configPrevious = None
        /\ after.credentialPrevious # None <=>
             KeepsKey(run.journal) /\ next \notin {"snapshotConfig", "snapshotKey"}
        /\ next \in Standing => (txn.kept <=> run.journal.operation = "static-restore")
        /\ after.journal = run.journal
        /\ txn.kept => next \in Standing /\ Visible(wg)
        /\ next \in ApplySteps \cup ProofSteps /\ next # "prepare"
    BY <1>2
  <2>5. txn.kept \in BOOLEAN /\ (run.journal.keyChanged => run.supplied # None)
    BY <1>2
  <2>6. /\ next \in {"markKey", "revalidate", "activate"} => after.credential # None
        /\ next = "activate" => after.config.source = "static"
        /\ run.request.mode = "static" /\ next \in Standing => after.config.source = "static"
    OBVIOUS
  <2>7. /\ next \in ApplySteps \cup ProofSteps /\ next # "prepare" /\ one \in BOOLEAN
        /\ txn.kept \in BOOLEAN /\ run.caller = "apply"
        /\ (run.journal.keyChanged => run.supplied # None)
        /\ one /\ after.staging = {} /\ after.journal = run.journal
    BY <2>1, <2>3, <2>5
  <2>8. one /\ after.staging = {}
    BY <2>2, <2>3, <2>6, <2>7
  <2>10. txn.kept => next \in Standing \cup CleanSteps /\ Visible(wg)
    BY <2>2, <2>3, <2>6, <2>7
  <2>11. after.journal = run.journal
    BY <2>2, <2>3, <2>6, <2>7
  <2>12. (next = "snapshotConfig") <=> after.configPrevious = None
    BY <2>2, <2>3, <2>6, <2>7
  <2>13. after.credentialPrevious # None <=> KeepsKey(run.journal) /\ next \notin {"snapshotConfig", "snapshotKey"}
    BY <2>2, <2>3, <2>6, <2>7
  <2>14. (txn.kept <=> run.journal.operation = "static-restore") \/ next \notin Standing
    BY <2>2, <2>3, <2>6, <2>7
  <2>15. /\ next \in {"markKey", "revalidate", "activate"} => after.credential # None
         /\ next = "activate" => after.config.source = "static"
    BY <2>6
  <2>16. run.request.mode = "static" /\ next \in Standing \cup CleanSteps => after.config.source = "static"
    BY <2>6, <2>7 DEF ApplySteps, ProofSteps, CleanSteps
  <2>17. Applied(next, run, after, one, wg, txn.kept)
    BY <2>8, <2>10, <2>11, <2>12, <2>13, <2>14, <2>15, <2>16 DEF Applied
  <2>18. next \notin CleanSteps \cup Deciding \cup PostSteps /\ next \notin {"ready", "validate"}
    BY DEF ApplySteps, CleanSteps, Deciding, RollbackSteps, PostSteps
  <2>19. Recorded(next, run, after)
    BY <2>11, <2>18 DEF Recorded
  <2>20. Backed(next, run, after, {after}, wg, txn.kept)
    BY <2>18 DEF Backed, Rolling, Deciding, RollbackSteps
  <2>21. Cleaning(next, run, after, wg, txn.kept)
    BY <2>18 DEF Cleaning, CleanSteps
  <2>22. Starting(next, run, after, wg, txn.kept) /\ Posted(next, run, after, one)
    BY <2>7, <2>18 DEF Starting, Posted
  <2>23. QED
    BY <2>2, <2>17, <2>19, <2>20, <2>21, <2>22 DEF Runs
<1>9. run.caller \in Callers /\ txn'.kept = txn.kept
  BY DEF Callers
<1>10. QED
  BY <1>2, <1>5, <1>7, <1>8, <1>9, StoreSound

\* A file of an open transaction that changes nothing of what was found.
LEMMA FiledWorth ==
  ASSUME NEW d, NEW e, NEW w, NEW k, ~k, Open(d), ~Settled(d), Worth(d, w, k),
         e.journal = d.journal,
         Former(e).source = Former(d).source, FormerKey(e) = None <=> FormerKey(d) = None,
         e.configPrevious = None => d.configPrevious = None,
         e.credentialPrevious = None => d.credentialPrevious = None,
         ~d.journal.keyChanged => e.credentialPrevious = None,
         e.credential = None => d.credential = None,
         \/ e.config.source = d.config.source
         \/ e.config.source = "static" /\ d.journal.operation # "api-update",
         e.configPrevious \in {None, d.configPrevious, d.config}
  PROVE  Worth(e, w, k) /\ ~Settled(e)
<1>1. Open(e) /\ d.journal # None
  BY DEF Open
<1>2. ~Settled(e)
  BY DEF Settled, Underway, Open
<1>3. OpenWorth(d, w)
  BY DEF Worth
<1>4. OpenWorth(e, w)
  <2>1. e.configPrevious = None => e.journal.phase = "prepared" \/ Settled(e)
    BY <1>3 DEF OpenWorth
  <2>2. KeepsKey(e.journal) /\ e.credentialPrevious = None => e.journal.phase = "prepared"
    BY <1>3 DEF OpenWorth
  <2>3. e.journal.hadKey <=> FormerKey(e) # None
    BY <1>3 DEF OpenWorth
  <2>4. Former(e).source = "api" => e.journal.hadKey /\ e.credential # None /\ w.profile # None
    BY <1>3 DEF OpenWorth
  <2>5. e.journal.operation \in {"adopt", "provision"} => Former(e).source = "static"
    BY <1>3 DEF OpenWorth
  <2>6. QED
    BY <2>1, <2>2, <2>3, <2>4, <2>5 DEF OpenWorth
<1>5. e.journal.operation = "api-update" =>
        /\ e.config.source = "api" /\ e.journal.hadKey
        /\ e.configPrevious # None => e.configPrevious.source = "api"
  BY <1>1 DEF Worth
<1>6. e.config.source = "api" => e.credential # None /\ w.profile # None
  BY DEF Worth
<1>7. QED
  BY <1>1, <1>2, <1>4, <1>5, <1>6 DEF Worth

\* The try block between the journal and the activation.
LEMMA FilingFacts ==
  ASSUME SInv, pc \in {"snapshotConfig", "snapshotKey", "writeConfig", "writeKey",
                       "revalidate", "activate", "restoreStatic"}
  PROVE  /\ run.caller = "apply" /\ pc \in ApplySteps /\ pc # "prepare" /\ pc \notin Standing
         /\ pc \notin CleanSteps /\ pc \notin {"idle", "enter", "stop"}
         /\ ~txn.kept /\ Img = {Disk} /\ Len(images) = 1 /\ Disk.staging = {}
         /\ Disk \in Directory /\ Disk.journal = run.journal
         /\ run.journal \in Journal /\ run.journal # None /\ Open(Disk)
         /\ Worth(Disk, wg, txn.kept) /\ OpenWorth(Disk, wg) /\ ~Settled(Disk)
         /\ pc # "restoreStatic" => Fits(Img, wg)
         /\ (pc = "snapshotConfig") <=> Disk.configPrevious = None
         /\ Disk.credentialPrevious # None <=>
              KeepsKey(run.journal) /\ pc \notin {"snapshotConfig", "snapshotKey"}
         /\ (run.journal.keyChanged => run.supplied # None)
         /\ pc \in {"revalidate", "activate"} => Disk.credential # None
         /\ pc = "activate" => Disk.config.source = "static"
         /\ run.request.mode = "api" <=> run.journal.operation \in ApiOperations
         /\ run \in RunType
<1>1. /\ run.caller = "apply" /\ pc \in ApplySteps /\ pc # "prepare" /\ pc \notin Standing
      /\ pc \notin CleanSteps /\ run.journal # None
  BY DEF SInv, TInv, Control, CallerAt, ApplySteps, Standing, CleanSteps
<1>2. /\ ~txn.kept /\ Img = {Disk} /\ Len(images) = 1 /\ Disk.staging = {}
      /\ Disk.journal = run.journal
      /\ (pc = "snapshotConfig") <=> Disk.configPrevious = None
      /\ Disk.credentialPrevious # None <=>
           KeepsKey(run.journal) /\ pc \notin {"snapshotConfig", "snapshotKey"}
      /\ (run.journal.keyChanged => run.supplied # None)
      /\ pc \in {"revalidate", "activate"} => Disk.credential # None
      /\ pc = "activate" => Disk.config.source = "static"
      /\ pc \notin {"idle", "enter", "stop"}
  BY <1>1, ApplyFacts, HostFacts
<1>3. JournalAt(pc, run) /\ TInv /\ Disk \in Directory /\ Worth(Disk, wg, txn.kept)
  BY HostFacts DEF SInv, TInv, Control
<1>4. run \in RunType /\ run.journal \in Journal
  BY <1>1, <1>3, RunFacts
<1>5. /\ run.request.mode = "api" <=> run.journal.operation \in ApiOperations
      /\ run.journal.phase \in {"prepared", "config", "credential", "activating"}
      /\ pc = "snapshotConfig" => run.journal.phase = "prepared"
  BY <1>1, <1>3 DEF JournalAt
<1>6. Open(Disk)
  BY <1>1, <1>2, <1>5 DEF Open, ClosedPhases
<1>7. ~Settled(Disk)
  <2>1. CASE pc = "snapshotConfig"
    BY <1>2, <1>5, <2>1 DEF Settled, Underway
  <2>2. CASE pc # "snapshotConfig" /\ run.journal.operation # "static-restore"
    BY <1>2, <2>2 DEF Settled, Underway
  <2>3. CASE pc # "snapshotConfig" /\ run.journal.operation = "static-restore"
    <3>1. run.journal.phase \in {"prepared", "activating"}
      BY <1>4, <1>5, <2>3, JournalRecords DEF ValidateSemantics, OperationPhases, ApiOperations,
         ProofPhases
    <3>2. QED
      BY <1>2, <2>3, <3>1 DEF Settled, Underway
  <2>4. QED
    BY <2>1, <2>2, <2>3
<1>8. pc # "restoreStatic" => Fits(Img, wg)
  BY <1>1, FitsElse
<1>9. OpenWorth(Disk, wg)
  BY <1>3, <1>6 DEF Worth
<1>10. QED
  BY <1>1, <1>2, <1>3, <1>4, <1>5, <1>6, <1>7, <1>8, <1>9

\* SnapshotConfig keeps SInv.
LEMMA SnapshotConfigSound ==
  ASSUME SInv, Shut, SnapshotConfig
  PROVE  HostInv' /\ RunInv' /\ Timed' /\ verdict' # "stuck"
<1> DEFINE j == run.journal
           leaves == SnapshotLeaves(Disk, "config", "configPrevious")
           after == Snapshotted(Disk, "config", "configPrevious")
           next == IF j.operation = "static-restore" THEN "markActivating"
                   ELSE IF j.keyChanged /\ j.hadKey THEN "snapshotKey" ELSE "writeConfig"
<1>1. /\ pc = "snapshotConfig" /\ UNCHANGED <<wg, timer, txn>>
      /\ \/ Completed(after) /\ pc' = next /\ run' = run /\ verdict' = verdict
         \/ NotDone(run, leaves)
  BY HostFacts, SnapshotConfigLands
<1>2. /\ run.caller = "apply" /\ pc \in ApplySteps /\ pc # "prepare" /\ pc \notin Standing
      /\ ~txn.kept /\ Disk.staging = {} /\ Disk \in Directory /\ Disk.journal = j
      /\ Open(Disk) /\ Worth(Disk, wg, txn.kept) /\ ~Settled(Disk) /\ Fits(Img, wg)
      /\ Disk.configPrevious = None /\ Disk.credentialPrevious = None /\ j \in Journal /\ j # None
  BY <1>1, FilingFacts
<1>3. j.phase = "prepared"
  BY <1>1 DEF SInv, TInv, Control, JournalAt
<1>4. /\ leaves \subseteq Directory /\ Disk \in leaves /\ after \in leaves
  BY <1>2, SnapshotTypes DEF SnapshotLeaves
<1>5. /\ \A e \in leaves :
           \/ SameFiles(e, Disk)
           \/ /\ e.journal = Disk.journal /\ e.config = Disk.config
              /\ e.credential = Disk.credential /\ e.configPrevious = Disk.config
              /\ e.credentialPrevious = Disk.credentialPrevious
      /\ after.configPrevious = Disk.config /\ after.credentialPrevious = None
      /\ after.staging = {}
  BY <1>2, SnapshotForms DEF StagesFrom
<1>6. Disk.config # None
  BY <1>2, NoneApart DEF Directory
<1> HIDE DEF leaves, after
<1>7. ASSUME NEW e \in leaves
      PROVE  e.journal = Disk.journal /\ Worth(e, wg, txn.kept) /\ ~Settled(e)
  <2>1. CASE SameFiles(e, Disk)
    <3>1. e.journal = Disk.journal /\ Disk.journal # None
      BY <1>2, <2>1 DEF SameFiles
    <3>2. QED
      BY <1>2, <2>1, <3>1, SameWorth
  <2>2. CASE /\ e.journal = Disk.journal /\ e.config = Disk.config
             /\ e.credential = Disk.credential /\ e.configPrevious = Disk.config
             /\ e.credentialPrevious = Disk.credentialPrevious
    <3>1. Former(e) = Former(Disk) /\ FormerKey(e) = FormerKey(Disk)
      BY <1>2, <1>6, <2>2 DEF Former, FormerKey
    <3>2. QED
      BY <1>2, <2>2, <3>1, FiledWorth
  <2>3. QED
    BY <1>5, <1>7, <2>1, <2>2
<1>8. /\ next \in ApplySteps /\ next \notin {"prepare", "snapshotConfig"} /\ next \notin Standing
      /\ next \notin {"markKey", "revalidate", "activate"}
  BY DEF ApplySteps, Standing
<1>9. after.credentialPrevious # None <=> KeepsKey(j) /\ next # "snapshotKey"
  <2>1. KeepsKey(j) => j.keyChanged /\ j.hadKey
    BY DEF KeepsKey
  <2>2. j.keyChanged => j.operation # "static-restore"
    BY <1>2, JournalRecords DEF ValidateSemantics, StaticOperations
  <2>3. QED
    BY <1>5, <2>1, <2>2
<1> HIDE DEF next, j
<1>10. after.configPrevious # None /\ j = run.journal
  BY <1>5, <1>6 DEF j
<1>11. QED
  BY <1>1, <1>2, <1>3, <1>4, <1>5, <1>7, <1>8, <1>9, <1>10, FileSound

\* SnapshotKey keeps SInv.
LEMMA SnapshotKeySound ==
  ASSUME SInv, Shut, SnapshotKey
  PROVE  HostInv' /\ RunInv' /\ Timed' /\ verdict' # "stuck"
<1> DEFINE leaves == SnapshotLeaves(Disk, "credential", "credentialPrevious")
           after == Snapshotted(Disk, "credential", "credentialPrevious")
<1>1. /\ pc = "snapshotKey" /\ UNCHANGED <<wg, timer, txn>>
      /\ \/ Completed(after) /\ pc' = "writeConfig" /\ run' = run /\ verdict' = verdict
         \/ NotDone(run, leaves)
  BY HostFacts, SnapshotKeyLands
<1>2. /\ run.caller = "apply" /\ pc \in ApplySteps /\ pc # "prepare" /\ pc \notin Standing
      /\ ~txn.kept /\ Disk.staging = {} /\ Disk \in Directory /\ Disk.journal = run.journal
      /\ Open(Disk) /\ Worth(Disk, wg, txn.kept) /\ ~Settled(Disk) /\ Fits(Img, wg)
      /\ OpenWorth(Disk, wg)
      /\ Disk.configPrevious # None /\ Disk.credentialPrevious = None
      /\ run.journal \in Journal /\ run.journal # None
  BY <1>1, FilingFacts
<1>3. /\ run.journal.phase = "prepared" /\ run.journal.keyChanged /\ run.journal.hadKey
      /\ KeepsKey(run.journal)
  BY <1>1 DEF SInv, TInv, Control, JournalAt, KeepsKey
<1>4. /\ leaves \subseteq Directory /\ Disk \in leaves /\ after \in leaves
  BY <1>2, SnapshotTypes DEF SnapshotLeaves
<1>5. /\ \A e \in leaves :
           \/ SameFiles(e, Disk)
           \/ /\ e.journal = Disk.journal /\ e.config = Disk.config
              /\ e.credential = Disk.credential /\ e.configPrevious = Disk.configPrevious
              /\ e.credentialPrevious = Disk.credential
      /\ after.configPrevious = Disk.configPrevious /\ after.credentialPrevious = Disk.credential
      /\ after.staging = {}
  BY <1>2, SnapshotForms DEF StagesFrom
<1>6. Disk.credential # None
  BY <1>2, <1>3 DEF OpenWorth, FormerKey
<1> HIDE DEF leaves, after
<1>7. ASSUME NEW e \in leaves
      PROVE  e.journal = Disk.journal /\ Worth(e, wg, txn.kept) /\ ~Settled(e)
  <2>1. CASE SameFiles(e, Disk)
    <3>1. e.journal = Disk.journal /\ Disk.journal # None
      BY <1>2, <2>1 DEF SameFiles
    <3>2. QED
      BY <1>2, <2>1, <3>1, SameWorth
  <2>2. CASE /\ e.journal = Disk.journal /\ e.config = Disk.config
             /\ e.credential = Disk.credential /\ e.configPrevious = Disk.configPrevious
             /\ e.credentialPrevious = Disk.credential
    <3>1. Former(e) = Former(Disk) /\ FormerKey(e) = FormerKey(Disk)
      BY <1>2, <1>6, <2>2 DEF Former, FormerKey
    <3>2. QED
      BY <1>2, <1>3, <2>2, <3>1, FiledWorth
  <2>3. QED
    BY <1>5, <1>7, <2>1, <2>2
<1> DEFINE next == "writeConfig"
<1>8. /\ next \in ApplySteps /\ next \notin {"prepare", "snapshotConfig", "snapshotKey"}
      /\ next \notin Standing /\ next \notin {"markKey", "revalidate", "activate"}
      /\ \/ Completed(after) /\ pc' = next /\ run' = run /\ verdict' = verdict
         \/ NotDone(run, leaves)
  BY <1>1 DEF ApplySteps, Standing
<1> HIDE DEF next
<1>9. after.credentialPrevious # None <=> KeepsKey(run.journal) /\ next # "snapshotKey"
  BY <1>3, <1>5, <1>6, <1>8
<1>10. QED
  BY <1>1, <1>2, <1>3, <1>4, <1>5, <1>7, <1>8, <1>9, FileSound

\* WriteConfig keeps SInv.
LEMMA WriteConfigSound ==
  ASSUME SInv, Shut, WriteConfig
  PROVE  HostInv' /\ RunInv' /\ Timed' /\ verdict' # "stuck"
<1> DEFINE asked == Asks(run.request)
           leaves == WriteLeaves(Disk, "config", asked)
           after == Written(Disk, "config", asked)
           next == IF run.request.mode = "api" THEN "markConfig" ELSE "markActivated"
<1>1. /\ pc = "writeConfig" /\ UNCHANGED <<wg, timer, txn>> /\ asked \in Config
      /\ \/ Completed(after) /\ pc' = next /\ run' = run /\ verdict' = verdict
         \/ NotDone(run, leaves)
  BY HostFacts, WriteConfigLands
<1>2. /\ run.caller = "apply" /\ pc \in ApplySteps /\ pc # "prepare" /\ pc \notin Standing
      /\ ~txn.kept /\ Disk.staging = {} /\ Disk \in Directory /\ Disk.journal = run.journal
      /\ Open(Disk) /\ Worth(Disk, wg, txn.kept) /\ ~Settled(Disk) /\ Fits(Img, wg)
      /\ Disk.configPrevious # None
      /\ Disk.credentialPrevious # None <=> KeepsKey(run.journal)
      /\ run.journal \in Journal /\ run.journal # None
      /\ run.request.mode = "api" <=> run.journal.operation \in ApiOperations
  BY <1>1, FilingFacts
<1>3. run.journal.phase = "prepared" /\ run.journal.operation # "static-restore"
  BY <1>1 DEF SInv, TInv, Control, JournalAt
<1>4. \/ asked.source = Disk.config.source /\ run.request.mode = "api"
      \/ /\ asked.source = "static" /\ run.journal.operation # "api-update"
         /\ run.request.mode # "api"
  <2>1. CASE run.request.mode = "api"
    BY <1>2, <2>1 DEF Asks, Directory, Config
  <2>2. CASE run.request.mode # "api"
    BY <1>2, <2>2 DEF Asks, Directory, Config, ApiOperations
  <2>3. QED
    BY <2>1, <2>2
<1> HIDE DEF asked
<1>5. /\ leaves \subseteq Directory /\ Disk \in leaves /\ after \in leaves
  <2>1. "config" \in Entry /\ "config" # "journal" /\ "config" # "credential"
        /\ "config" # "configPrevious" /\ "config" # "credentialPrevious"
    BY DEF Entry
  <2>2. QED
    BY <1>1, <1>2, <2>1, WriteTypes DEF WriteLeaves
<1>6. \A e \in leaves :
        \/ StagesFrom(e, Disk, "config")
        \/ /\ e.journal = Disk.journal /\ e.config = asked
           /\ e.credential = Disk.credential /\ e.configPrevious = Disk.configPrevious
           /\ e.credentialPrevious = Disk.credentialPrevious
  BY <1>2, ConfigForms
<1>7. /\ after.journal = Disk.journal /\ after.config = asked
      /\ after.configPrevious = Disk.configPrevious
      /\ after.credentialPrevious = Disk.credentialPrevious /\ after.staging = {}
  BY <1>2 DEF Written, Directory
<1> HIDE DEF leaves, after
<1>8. ASSUME NEW e \in leaves
      PROVE  /\ e.journal = Disk.journal /\ Worth(e, wg, txn.kept) /\ ~Settled(e)
  <2>1. CASE StagesFrom(e, Disk, "config")
    <3>1. e.journal = Disk.journal /\ Disk.journal # None /\ SameFiles(e, Disk)
      BY <1>2, <2>1 DEF SameFiles, StagesFrom
    <3>2. QED
      BY <1>2, <3>1, SameWorth
  <2>2. CASE /\ e.journal = Disk.journal /\ e.config = asked
             /\ e.credential = Disk.credential /\ e.configPrevious = Disk.configPrevious
             /\ e.credentialPrevious = Disk.credentialPrevious
    <3>1. Former(e) = Former(Disk) /\ FormerKey(e) = FormerKey(Disk)
      BY <1>2, <2>2 DEF Former, FormerKey
    <3>2. ~Disk.journal.keyChanged => e.credentialPrevious = None
      BY <1>2, <2>2 DEF KeepsKey
    <3>3. \/ e.config.source = Disk.config.source
          \/ e.config.source = "static" /\ Disk.journal.operation # "api-update"
      BY <1>2, <1>4, <2>2
    <3>4. QED
      BY <1>2, <2>2, <3>1, <3>2, <3>3, FiledWorth
  <2>3. QED
    BY <1>6, <1>8, <2>1, <2>2
<1>9. /\ next \in ApplySteps /\ next \notin {"prepare", "snapshotConfig", "snapshotKey"}
      /\ next \notin {"markKey", "revalidate", "activate"}
  BY DEF ApplySteps
<1>10. run.request.mode = "static" /\ next \in Standing => after.config.source = "static"
  BY <1>4, <1>7
<1> HIDE DEF next
<1>11. after.credentialPrevious # None <=> KeepsKey(run.journal) /\ next # "snapshotKey"
  BY <1>2, <1>7, <1>9
<1>12. after.configPrevious # None /\ after.staging = {}
  BY <1>2, <1>7
<1>13. QED
  BY <1>1, <1>2, <1>3, <1>5, <1>8, <1>9, <1>10, <1>11, <1>12, FileSound

\* WriteKey keeps SInv.
LEMMA WriteKeySound ==
  ASSUME SInv, Shut, WriteKey
  PROVE  HostInv' /\ RunInv' /\ Timed' /\ verdict' # "stuck"
<1> DEFINE leaves == WriteLeaves(Disk, "credential", run.supplied)
           after == Written(Disk, "credential", run.supplied)
<1>1. /\ pc = "writeKey" /\ UNCHANGED <<wg, timer, txn>>
      /\ \/ Completed(after) /\ pc' = "markKey" /\ run' = run /\ verdict' = verdict
         \/ NotDone(run, leaves)
  BY HostFacts, WriteKeyLands
<1>2. /\ run.caller = "apply" /\ pc \in ApplySteps /\ pc # "prepare" /\ pc \notin Standing
      /\ ~txn.kept /\ Disk.staging = {} /\ Disk \in Directory /\ Disk.journal = run.journal
      /\ Open(Disk) /\ Worth(Disk, wg, txn.kept) /\ OpenWorth(Disk, wg)
      /\ ~Settled(Disk) /\ Fits(Img, wg)
      /\ Disk.configPrevious # None
      /\ Disk.credentialPrevious # None <=> KeepsKey(run.journal)
      /\ run.journal \in Journal /\ run.journal # None
      /\ run.journal.keyChanged => run.supplied # None
  BY <1>1, FilingFacts
<1>3. run.journal.keyChanged /\ run.supplied # None
  BY <1>1, <1>2 DEF SInv, TInv, Control, JournalAt
<1>4. run.supplied \in Keys \cup {None}
  BY HostFacts, RunFacts
<1>5. /\ leaves \subseteq Directory /\ Disk \in leaves /\ after \in leaves
  <2>1. "credential" \in Entry /\ "credential" # "journal" /\ "credential" # "config"
        /\ "credential" # "configPrevious" /\ "credential" # "credentialPrevious"
    BY DEF Entry
  <2>2. QED
    BY <1>2, <1>4, <2>1, WriteTypes DEF WriteLeaves
<1>6. \A e \in leaves :
        \/ StagesFrom(e, Disk, "credential")
        \/ /\ e.journal = Disk.journal /\ e.config = Disk.config
           /\ e.credential = run.supplied /\ e.configPrevious = Disk.configPrevious
           /\ e.credentialPrevious = Disk.credentialPrevious
  BY <1>2, KeyForms
<1>7. /\ after.journal = Disk.journal /\ after.credential = run.supplied
      /\ after.configPrevious = Disk.configPrevious
      /\ after.credentialPrevious = Disk.credentialPrevious /\ after.staging = {}
  BY <1>2 DEF Written, Directory
<1> HIDE DEF leaves, after
<1>8. ASSUME NEW e \in leaves
      PROVE  /\ e.journal = Disk.journal /\ Worth(e, wg, txn.kept) /\ ~Settled(e)
             /\ e.configPrevious # None /\ (KeepsKey(run.journal) => e.credentialPrevious # None)
  <2>1. CASE StagesFrom(e, Disk, "credential")
    <3>1. e.journal = Disk.journal /\ Disk.journal # None /\ SameFiles(e, Disk)
      BY <1>2, <2>1 DEF SameFiles, StagesFrom
    <3>2. QED
      BY <1>2, <3>1, SameWorth DEF SameFiles
  <2>2. CASE /\ e.journal = Disk.journal /\ e.config = Disk.config
             /\ e.credential = run.supplied /\ e.configPrevious = Disk.configPrevious
             /\ e.credentialPrevious = Disk.credentialPrevious
    <3>1. Former(e) = Former(Disk)
      BY <1>2, <2>2 DEF Former
    <3>2. FormerKey(e) = FormerKey(Disk)
      BY <1>2, <1>3, <2>2 DEF FormerKey, KeepsKey
    <3>3. QED
      BY <1>2, <1>3, <2>2, <3>1, <3>2, FiledWorth
  <2>3. QED
    BY <1>6, <1>8, <2>1, <2>2
<1> DEFINE next == "markKey"
<1>9. /\ next \in ApplySteps /\ next \notin {"prepare", "snapshotConfig", "snapshotKey"}
      /\ next \notin Standing /\ next # "activate"
      /\ \/ Completed(after) /\ pc' = next /\ run' = run /\ verdict' = verdict
         \/ NotDone(run, leaves)
  BY <1>1 DEF ApplySteps, Standing
<1> HIDE DEF next
<1>10. after.credentialPrevious # None <=> KeepsKey(run.journal) /\ next # "snapshotKey"
  BY <1>2, <1>7, <1>9
<1>11. after.credential # None /\ after.configPrevious # None /\ after.staging = {}
  BY <1>2, <1>3, <1>7
<1>12. QED
  BY <1>1, <1>2, <1>5, <1>8, <1>9, <1>10, <1>11, FileSound

(* -------------------------- the runtime's part -------------------------- *)

\* The try block goes on with the disk as it is.
LEMMA ContinueRuns ==
  ASSUME SInv, pc \in {"revalidate", "activate"},
         NEW next \in {"activate", "markActivated"}, NEW D, NEW S, NEW one \in BOOLEAN, one, NEW v,
         D.staging = {}, D.journal = run.journal, D.configPrevious = Disk.configPrevious,
         D.credentialPrevious = Disk.credentialPrevious, D.credential = Disk.credential,
         next = "activate" => D.config.source = "static", Fits(S, v)
  PROVE  Runs(next, run, D, S, one, v, txn.kept)
<1>1. /\ run.caller = "apply" /\ ~txn.kept /\ Disk.configPrevious # None
      /\ Disk.credentialPrevious # None <=> KeepsKey(run.journal)
      /\ run.journal.keyChanged => run.supplied # None
      /\ Disk.credential # None
      /\ run.request.mode = "api" <=> run.journal.operation \in ApiOperations
  BY FilingFacts
<1>2. run.journal.operation \in ApiOperations
  BY DEF SInv, TInv, Control, JournalAt
<1>3. txn.kept \in BOOLEAN
  BY HostFacts
<1>4. /\ next \in ApplySteps \cup ProofSteps
      /\ next \notin {"prepare", "snapshotConfig", "snapshotKey"}
  BY DEF ApplySteps
<1>5. run.request.mode # "static" /\ run.journal.operation # "static-restore"
  BY <1>1, <1>2 DEF ApiOperations
<1>6. (next = "snapshotConfig") <=> D.configPrevious = None
  BY <1>1, <1>4
<1>7. D.credentialPrevious # None <=>
        KeepsKey(run.journal) /\ next \notin {"snapshotConfig", "snapshotKey"}
  BY <1>1, <1>4
<1>8. D.credential # None
  BY <1>1
<1>9. /\ next \in ApplySteps \cup ProofSteps /\ next # "prepare"
      /\ txn.kept => next \in Standing /\ Visible(v)
      /\ next \in Standing => (txn.kept <=> run.journal.operation = "static-restore")
      /\ next \in {"markKey", "revalidate", "activate"} => D.credential # None
      /\ run.request.mode = "static" /\ next \in Standing => D.config.source = "static"
      /\ run.caller = "apply" /\ (run.journal.keyChanged => run.supplied # None)
  BY <1>1, <1>4, <1>5, <1>8
<1>10. Fits(S, v) \/ Refusing(next, run, D, one)
  OBVIOUS
<1>11. Applied(next, run, D, one, v, txn.kept)
  <2>1. (txn.kept <=> run.journal.operation = "static-restore") \/ next \notin Standing
    BY <1>9
  <2>2. txn.kept => next \in Standing \cup CleanSteps /\ Visible(v)
    BY <1>9
  <2>3. run.request.mode = "static" /\ next \in Standing \cup CleanSteps => D.config.source = "static"
    BY <1>5
  <2>4. next \in {"markKey", "revalidate", "activate"} => D.credential # None
    BY <1>8
  <2>5. QED
    BY <1>6, <1>7, <2>1, <2>2, <2>3, <2>4 DEF Applied
<1>12. next \notin CleanSteps \cup Deciding \cup PostSteps /\ next \notin {"ready", "validate", "prepare"}
  BY DEF CleanSteps, Deciding, RollbackSteps, PostSteps
<1>13. Recorded(next, run, D)
  BY <1>12 DEF Recorded
<1>14. Backed(next, run, D, S, v, txn.kept)
  BY <1>1, <1>12 DEF Backed, Rolling, Deciding, RollbackSteps
<1>15. Cleaning(next, run, D, v, txn.kept)
  BY <1>1, <1>12 DEF Cleaning, CleanSteps
<1>16. Starting(next, run, D, v, txn.kept) /\ Posted(next, run, D, one)
  BY <1>1, <1>12 DEF Starting, Posted
<1>17. QED
  BY <1>11, <1>13, <1>14, <1>15, <1>16 DEF Runs

\* Revalidate keeps SInv.
LEMMA RevalidateSound ==
  ASSUME SInv, Shut, Revalidate
  PROVE  HostInv' /\ RunInv' /\ Timed' /\ verdict' # "stuck"
<1> DEFINE next == IF Activates THEN "activate" ELSE "markActivated"
<1>1. /\ pc = "revalidate" /\ UNCHANGED <<timer, txn>>
      /\ Calls(ValidationResults, Go(next, run), Raise(run))
  BY HostFacts, RevalidateLands
<1>2. /\ run.caller = "apply" /\ pc \in ApplySteps /\ pc # "prepare"
      /\ pc \notin {"idle", "enter", "stop"}
      /\ ~txn.kept /\ Img = {Disk} /\ Len(images) = 1 /\ Disk.staging = {}
      /\ Disk \in Directory /\ Disk.journal = run.journal /\ ~Settled(Disk)
      /\ Fits(Img, wg) /\ Disk.configPrevious # None
      /\ Disk.credentialPrevious # None <=> KeepsKey(run.journal)
  BY <1>1, FilingFacts
<1>3. verdict # "stuck" /\ txn'.kept = txn.kept
  BY <1>1 DEF SInv
<1>4. next \in {"activate", "markActivated"} /\ (next = "activate" => Disk.config.source = "static")
  BY DEF Activates
<1> HIDE DEF next
<1>5. ASSUME NEW r \in ValidationResults
      PROVE  /\ r \in ResultType /\ r.source = Disk.config.source
             /\ r.ok => r.wg = wg
             /\ Hosts(Img, Disk, r.wg, txn'.kept) /\ Hosts(Img, Disk, r.wg, txn.kept)
             /\ Fits(Img, r.wg)
  BY <1>2, <1>3, ValidationParts
<1>6. ASSUME NEW r \in ValidationResults, CallEnds(r), r.ok, Go(next, run)
      PROVE  HostInv' /\ RunInv' /\ Timed' /\ verdict' # "stuck"
  <2>1. images' = images /\ wg' = wg /\ pc' = next /\ run' = run /\ verdict' = verdict
    BY <1>5, <1>6, SourceKept DEF Go
  <2> DEFINE one == Len(images) = 1
  <2>2. one /\ one \in BOOLEAN
    BY <1>2
  <2> HIDE DEF one
  <2>3. Runs(next, run, Disk, Img, one, wg, txn.kept)
    BY <1>1, <1>2, <1>4, <2>2, ContinueRuns
  <2>4. Hosts(Img, Disk, wg', txn'.kept)
    BY <1>5, <1>6, <2>1
  <2>5. QED
    BY <1>1, <1>2, <1>3, <2>1, <2>3, <2>4, SkipSound DEF one
<1>7. ASSUME NEW r \in ValidationResults, CallEnds(r), Raise(run)
      PROVE  HostInv' /\ RunInv' /\ Timed' /\ verdict' # "stuck"
  <2>1. images' = images /\ wg' = r.wg
    BY <1>5, <1>7, SourceKept
  <2>2. /\ Disk \in Img /\ pc \in ApplySteps \cup ProofSteps /\ \A d \in Img : ~Settled(d)
        /\ Fits(Img, r.wg) /\ Hosts(Img, Disk, r.wg, txn.kept)
    BY <1>2, <1>5
  <2>3. Rises(run, Disk, Img, r.wg, txn.kept)
    BY <1>2, <2>2, ApplyRises
  <2>4. QED
    BY <1>1, <1>2, <1>3, <1>7, <2>1, <2>2, <2>3, RaiseHere
<1>8. ASSUME NEW r \in ValidationResults, CallCut(r)
      PROVE  HostInv' /\ RunInv' /\ Timed' /\ verdict' # "stuck"
  <2>1. /\ wg' = r.wg /\ pc' = "idle" /\ run' = NoRun /\ verdict' = "killed"
        /\ images' = images \/ Lost({Disk})
    BY <1>5, <1>8, SourceKept
  <2>2. QED
    BY <1>1, <1>2, <1>5, <2>1, EndOrLost
<1>9. QED
  BY <1>1, <1>6, <1>7, <1>8 DEF Calls

\* What an activation may leave.
LEMMA ActivationParts ==
  ASSUME SInv, NEW r \in ActivationResults
  PROVE  /\ r \in ResultType
         /\ \/ r.wg = wg /\ r.source = Disk.config.source /\ ~r.ok
            \/ /\ r.source \in {"static", "api"} /\ (wg.profile # None => r.wg.profile # None)
               /\ r.source = "api" => r.wg.profile # None
               /\ r.ok => r.source = "api"
<1> DEFINE adopting == wg.profile # None
           adopted == [wg EXCEPT !.preManaged = wg.profile]
           provisioned == [wg EXCEPT !.profile = "managed"]
           installed == IF adopting THEN adopted ELSE provisioned
           hosts == {wg, installed}
           lone == {[h EXCEPT !.candidate = TRUE] : h \in hosts}
<1>1. wg \in Host /\ r \in ResultType /\ None \notin Profiles
  BY HostFacts, ActivationTypes, NoneApart DEF Typed
<1>2. adopted.profile = wg.profile /\ provisioned.profile = "managed" /\ "managed" \in Profiles
  BY <1>1 DEF Host, Profiles
<1>3. /\ adopted \in Host /\ provisioned \in Host
  <2>1. wg.profile \in Profiles \cup {None} /\ "managed" \in Profiles \cup {None}
    BY <1>1, HostTypes DEF Profiles
  <2>2. QED
    BY <1>1, <2>1, HostTypes
<1>4. r \in (IF adopting /\ wg.preManaged \notin {None, wg.profile}
               THEN {Result(wg, Disk.config.source, status, FALSE, FALSE)}
               ELSE {Result(installed, "api", status, TRUE, FALSE)}
                      \cup Failures(hosts \cup lone, {"static"})
                      \cup Failures({installed}, {"api"}))
  BY DEF ActivationResults
<1> HIDE DEF adopted, provisioned
<1>5. /\ installed \in Host /\ installed.profile # None
  BY <1>1, <1>2, <1>3
<1> HIDE DEF installed
<1>6. \A h \in hosts \cup lone : wg.profile # None => h.profile # None
  <2>1. \A h \in hosts : h \in Host /\ (wg.profile # None => h.profile # None)
    BY <1>1, <1>5
  <2>2. \A h \in lone : \E g \in hosts : h = [g EXCEPT !.candidate = TRUE]
    OBVIOUS
  <2> HIDE DEF hosts, lone
  <2>3. QED
    BY <2>1, <2>2 DEF Host
<1> HIDE DEF lone, hosts
<1>7. CASE r = Result(wg, Disk.config.source, status, FALSE, FALSE)
  BY <1>1, <1>7 DEF Result
<1>8. CASE r = Result(installed, "api", status, TRUE, FALSE)
  <2>1. r.wg = installed /\ r.source = "api"
    BY <1>8 DEF Result
  <2>2. QED
    BY <1>1, <1>5, <2>1
<1>9. CASE r \in Failures(hosts \cup lone, {"static"})
  <2>1. r.wg \in hosts \cup lone /\ r.source = "static" /\ ~r.ok
    BY <1>9, FailureParts
  <2>2. QED
    BY <1>1, <1>6, <2>1
<1>10. CASE r \in Failures({installed}, {"api"})
  <2>1. r.wg = installed /\ r.source = "api" /\ ~r.ok
    BY <1>10, FailureParts
  <2>2. QED
    BY <1>1, <1>5, <2>1
<1>11. QED
  BY <1>4, <1>7, <1>8, <1>9, <1>10

\* An activation flips the source of a static configuration that is backed up.
LEMMA ActivateLeaves ==
  ASSUME SInv, pc = "activate", NEW r \in ActivationResults
  PROVE  LET e == Sourced(r.source)
         IN /\ r \in ResultType /\ Leaves({e}, r.wg, txn.kept)
            /\ \A d \in Img \cup {e} : ~Settled(d)
            /\ e \in Directory /\ e.journal = Disk.journal /\ e.credential = Disk.credential
            /\ e.configPrevious = Disk.configPrevious
            /\ e.credentialPrevious = Disk.credentialPrevious /\ e.staging = Disk.staging
            /\ r.ok => e # Disk
<1> DEFINE e == Sourced(r.source)
<1>1. /\ ~txn.kept /\ Img = {Disk} /\ Disk.journal = run.journal
      /\ Open(Disk) /\ Worth(Disk, wg, txn.kept) /\ OpenWorth(Disk, wg) /\ ~Settled(Disk)
      /\ Disk.configPrevious # None /\ Disk.credential # None /\ Disk.config.source = "static"
  BY FilingFacts
<1>2. run.journal.operation \in ApiOperations
  BY DEF SInv, TInv, Control, JournalAt
<1>3. /\ r \in ResultType
      /\ \/ r.wg = wg /\ r.source = Disk.config.source /\ ~r.ok
         \/ /\ r.source \in {"static", "api"} /\ (wg.profile # None => r.wg.profile # None)
            /\ r.source = "api" => r.wg.profile # None
            /\ r.ok => r.source = "api"
  BY ActivationParts
<1>4. /\ HostInv /\ Disk \in Img /\ Hosts(Img, Disk, wg, txn.kept) /\ Disk \in Directory
      /\ txn.kept \in BOOLEAN
  BY HostFacts DEF HostInv
<1>5. r.source \in {"static", "api"} /\ (wg.profile # None => r.wg.profile # None)
  BY <1>1, <1>3
<1>6. ~Underway(Disk) /\ Disk.journal.operation # "api-update"
  BY <1>1, <1>2 DEF Underway, ApiOperations, Worth, Open
<1>7. Hosts(Img, Disk, r.wg, txn.kept)
  BY <1>1, <1>4, <1>5, HostsMoved
<1>8. /\ e \in Directory /\ e.journal = Disk.journal /\ e.credential = Disk.credential
      /\ e.configPrevious = Disk.configPrevious
      /\ e.credentialPrevious = Disk.credentialPrevious /\ e.staging = Disk.staging
      /\ e.config.source = r.source /\ e.config.settings = Disk.config.settings
      /\ Disk.config.source = r.source => e = Disk
  BY <1>5, SourcedForms
<1>9. r.ok => e # Disk
  BY <1>1, <1>3, <1>8
<1> HIDE DEF e
<1>10. ~Underway(e) /\ ~Settled(e) /\ Open(e)
  BY <1>1, <1>6, <1>8 DEF Underway, Settled, Open
<1>11. Worth(e, r.wg, txn.kept)
  <2>1. Worth(Disk, r.wg, txn.kept)
    BY <1>4, <1>7 DEF Hosts
  <2>2. OpenWorth(Disk, r.wg)
    BY <1>1, <2>1 DEF Worth
  <2>3. Former(e) = Former(Disk) /\ FormerKey(e) = FormerKey(Disk)
    BY <1>1, <1>8 DEF Former, FormerKey
  <2>4. OpenWorth(e, r.wg)
    BY <1>1, <1>8, <2>2, <2>3 DEF OpenWorth
  <2>5. e.config.source = "api" => e.credential # None /\ r.wg.profile # None
    BY <1>1, <1>3, <1>8
  <2>6. QED
    BY <1>1, <1>6, <1>8, <1>10, <2>1, <2>4, <2>5 DEF Worth, Open
<1>12. Leaves({e}, r.wg, txn.kept)
  <2>1. Fits(Img, r.wg)
    BY <1>1, <1>6 DEF Fits
  <2>2. \A d \in Img : Worth(d, r.wg, txn.kept)
    BY <1>7 DEF Hosts
  <2>3. Stands(Img, Disk, r.wg, txn.kept)
    BY <1>7 DEF Hosts
  <2>4. {e} \in SUBSET Directory
    BY <1>8
  <2>5. ~\E d \in Img \cup {e} : Settled(d)
    BY <1>1, <1>10
  <2>6. \A f \in {e} : f.journal \in {Disk.journal, None} /\ Worth(f, r.wg, txn.kept)
    BY <1>8, <1>11
  <2>7. QED
    BY <1>4, <2>1, <2>2, <2>3, <2>4, <2>5, <2>6, KinLeaves
<1>13. \A d \in Img \cup {e} : ~Settled(d)
  BY <1>1, <1>10
<1>14. QED
  BY <1>3, <1>8, <1>9, <1>12, <1>13 DEF e

\* Activate keeps SInv.
LEMMA ActivateSound ==
  ASSUME SInv, Shut, Activate
  PROVE  HostInv' /\ RunInv' /\ Timed' /\ verdict' # "stuck"
<1>1. /\ pc = "activate" /\ UNCHANGED <<timer, txn>>
      /\ Calls(ActivationResults, Go("markActivated", run), Raise(run))
  BY HostFacts, ActivateLands
<1>2. /\ run.caller = "apply" /\ pc \in ApplySteps /\ pc # "prepare"
      /\ pc \notin {"idle", "enter", "stop"}
      /\ ~txn.kept /\ Img = {Disk} /\ Disk.staging = {}
      /\ Disk.journal = run.journal /\ Disk.configPrevious # None
      /\ Disk.credentialPrevious # None <=> KeepsKey(run.journal)
  BY <1>1, FilingFacts
<1>3. verdict # "stuck" /\ txn'.kept = txn.kept
  BY <1>1 DEF SInv
<1>4. ASSUME NEW r \in ActivationResults
      PROVE  LET e == Sourced(r.source)
             IN /\ r \in ResultType /\ Leaves({e}, r.wg, txn.kept) /\ Leaves({e}, r.wg, txn'.kept)
                /\ \A d \in Img \cup {e} : ~Settled(d)
                /\ e \in Directory /\ e.journal = Disk.journal /\ e.credential = Disk.credential
                /\ e.configPrevious = Disk.configPrevious
                /\ e.credentialPrevious = Disk.credentialPrevious /\ e.staging = Disk.staging
                /\ r.ok => e # Disk
  BY <1>1, <1>3, ActivateLeaves
<1>5. ASSUME NEW r \in ActivationResults, CallEnds(r), r.ok, Go("markActivated", run)
      PROVE  HostInv' /\ RunInv' /\ Timed' /\ verdict' # "stuck"
  <2> DEFINE e == Sourced(r.source)
  <2>1. wg' = r.wg /\ images' = LeftOf(r) /\ pc' = "markActivated" /\ run' = run /\ verdict' = verdict
    BY <1>5 DEF CallEnds, Go
  <2>2. /\ HostInv' /\ Fits(Img', wg') /\ Disk' = e /\ Len(images') = 1 /\ Img' = {e}
    BY <1>4, <1>5, <2>1, CallLeft
  <2>3. /\ e.journal = Disk.journal /\ e.credential = Disk.credential
        /\ e.configPrevious = Disk.configPrevious
        /\ e.credentialPrevious = Disk.credentialPrevious /\ e.staging = Disk.staging
    BY <1>4
  <2> HIDE DEF e
  <2> DEFINE one == Len(images') = 1
             next == "markActivated"
  <2>4. one /\ one \in BOOLEAN /\ next \in {"activate", "markActivated"} /\ next # "activate"
    BY <2>2
  <2> HIDE DEF one, next
  <2>5. Runs(next, run, e, Img', one, wg', txn.kept)
    BY <1>1, <1>2, <2>2, <2>3, <2>4, ContinueRuns
  <2>6. RunInv'
    BY <1>3, <2>1, <2>2, <2>5 DEF RunInv, one, next
  <2>7. QED
    BY <1>1, <1>2, <1>3, <2>1, <2>2, <2>6, Untimed, HostFacts DEF SInv
<1>6. ASSUME NEW r \in ActivationResults, CallEnds(r), Raise(run)
      PROVE  HostInv' /\ RunInv' /\ Timed' /\ verdict' # "stuck"
  <2> DEFINE e == Sourced(r.source)
  <2>1. /\ Leaves({e}, r.wg, txn.kept) /\ e.journal = Disk.journal
        /\ e.configPrevious = Disk.configPrevious
        /\ e.credentialPrevious = Disk.credentialPrevious
        /\ \A d \in Img \cup {e} : ~Settled(d)
    BY <1>4, <1>6
  <2> HIDE DEF e
  <2>2. /\ e \in Img \cup {e} /\ Fits(Img \cup {e}, r.wg) /\ pc \in ApplySteps \cup ProofSteps
    BY <1>2, <2>1 DEF Leaves
  <2>3. Rises(run, e, Img \cup {e}, r.wg, txn.kept)
    BY <1>2, <2>1, <2>2, ApplyRises
  <2>4. QED
    BY <1>1, <1>2, <1>3, <1>4, <1>6, <2>3, CallRaised DEF e
<1>7. ASSUME NEW r \in ActivationResults, CallCut(r)
      PROVE  HostInv' /\ RunInv' /\ Timed' /\ verdict' # "stuck"
  BY <1>1, <1>2, <1>4, <1>7, CallCutSound
<1>8. QED
  BY <1>1, <1>5, <1>6, <1>7 DEF Calls

\* A static profile the runtime is asked to restore.
LEMMA RestoringFacts ==
  ASSUME SInv, pc = "restoreStatic"
  PROVE  /\ run.journal.operation = "static-restore" /\ run.journal.phase = "activating"
         /\ Underway(Disk) /\ Disk.configPrevious # None
  BY FilingFacts DEF SInv, TInv, Control, JournalAt, Underway

\* What the restoration may leave.
LEMMA RestoreStaticLeaves ==
  ASSUME SInv, pc = "restoreStatic", NEW r \in RestoreStaticResults,
         None \notin {wg.profile, wg.preManaged}
  PROVE  LET e == Sourced(r.source)
         IN /\ r \in ResultType /\ Leaves({e}, r.wg, txn.kept)
            /\ \A d \in Img \cup {e} : ~Settled(d)
            /\ Underway(e)
            /\ e \in Directory /\ e.journal = Disk.journal /\ e.credential = Disk.credential
            /\ e.configPrevious = Disk.configPrevious
            /\ e.credentialPrevious = Disk.credentialPrevious /\ e.staging = Disk.staging
            /\ r.ok => e.config.source = "static" /\ Visible(r.wg)
<1> DEFINE e == Sourced(r.source)
<1>1. /\ ~txn.kept /\ Img = {Disk} /\ Disk.journal = run.journal
      /\ Open(Disk) /\ Worth(Disk, wg, txn.kept) /\ ~Settled(Disk)
      /\ Disk.configPrevious # None
  BY FilingFacts
<1>2. run.journal.operation = "static-restore" /\ Underway(Disk)
  BY RestoringFacts
<1>3. /\ r \in ResultType /\ r.source \in {Disk.config.source, "static"}
      /\ r.wg.profile # None /\ r.wg.preManaged = wg.preManaged
      /\ r.ok => /\ r.wg.profile = wg.preManaged /\ r.wg.switching = {}
                 /\ r.source = "static"
  BY RestoreStaticParts
<1>4. /\ HostInv /\ Disk \in Img /\ Hosts(Img, Disk, wg, txn.kept) /\ Disk \in Directory
      /\ txn.kept \in BOOLEAN
  BY HostFacts DEF HostInv
<1>5. r.source \in {"static", "api"}
  BY <1>3 DEF ResultType
<1>6. Hosts(Img, Disk, r.wg, txn.kept)
  BY <1>1, <1>3, <1>4, HostsMoved
<1>7. /\ e \in Directory /\ e.journal = Disk.journal /\ e.credential = Disk.credential
      /\ e.configPrevious = Disk.configPrevious
      /\ e.credentialPrevious = Disk.credentialPrevious /\ e.staging = Disk.staging
      /\ e.config.source = r.source
  BY <1>5, SourcedForms
<1> HIDE DEF e
<1>8. Underway(e) /\ ~Settled(e) /\ Open(e)
  BY <1>1, <1>2, <1>7 DEF Underway, Settled, Open
<1>9. Worth(e, r.wg, txn.kept)
  <2>1. Worth(Disk, r.wg, txn.kept)
    BY <1>4, <1>6 DEF Hosts
  <2>2. Former(e) = Former(Disk) /\ FormerKey(e) = FormerKey(Disk)
    BY <1>1, <1>7 DEF Former, FormerKey
  <2>3. ~Disk.journal.keyChanged => e.credentialPrevious = None
    BY <1>1, <1>7, <2>1 DEF Worth, Open
  <2>4. \/ e.config.source = Disk.config.source
        \/ e.config.source = "static" /\ Disk.journal.operation # "api-update"
    BY <1>1, <1>2, <1>3, <1>7
  <2>5. QED
    BY <1>1, <1>7, <2>1, <2>2, <2>3, <2>4, FiledWorth
<1>10. Leaves({e}, r.wg, txn.kept)
  <2>1. Fits(Img, r.wg)
    BY <1>3 DEF Fits
  <2>2. \A d \in Img : Worth(d, r.wg, txn.kept)
    BY <1>6 DEF Hosts
  <2>3. Stands(Img, Disk, r.wg, txn.kept)
    BY <1>6 DEF Hosts
  <2>4. {e} \in SUBSET Directory
    BY <1>7
  <2>5. ~\E d \in Img \cup {e} : Settled(d)
    BY <1>1, <1>8
  <2>6. \A f \in {e} : f.journal \in {Disk.journal, None} /\ Worth(f, r.wg, txn.kept)
    BY <1>7, <1>9
  <2>7. QED
    BY <1>4, <2>1, <2>2, <2>3, <2>4, <2>5, <2>6, KinLeaves
<1>11. \A d \in Img \cup {e} : ~Settled(d)
  BY <1>1, <1>8
<1>12. r.ok => e.config.source = "static" /\ Visible(r.wg)
  BY <1>3, <1>7 DEF Visible
<1>13. QED
  BY <1>3, <1>7, <1>8, <1>10, <1>11, <1>12 DEF e

\* From here on the restoration stands.
LEMMA KeptMore ==
  ASSUME NEW e, NEW w, NEW k, NEW m, ~k, Hosts({e}, e, w, k), Visible(w), Underway(e),
         e.config.source = "static"
  PROVE  Hosts({e}, e, w, m)
<1>1. Worth(e, w, k)
  BY DEF Hosts
<1>2. Worth(e, w, m)
  BY <1>1 DEF Worth
<1>3. Stands({e}, e, w, m)
  BY DEF Stands
<1>4. QED
  BY <1>2, <1>3 DEF Hosts

\* The runtime refuses, as a profile it needs is not there: the try block fails.
LEMMA RefusedSound ==
  ASSUME SInv, Shut, pc = "restoreStatic", None \in {wg.profile, wg.preManaged},
         images' = images, wg' = wg, timer' = timer, txn' = txn, Raise(run)
  PROVE  HostInv' /\ RunInv' /\ Timed' /\ verdict' # "stuck"
<1> DEFINE self == [run EXCEPT !.caller = "undo"]
           one == Len(images) = 1
<1>1. /\ run.caller = "apply" /\ ~txn.kept /\ Img = {Disk} /\ Len(images) = 1
      /\ Disk.staging = {} /\ Disk.journal = run.journal /\ run.journal # None
      /\ Open(Disk) /\ ~Settled(Disk) /\ Disk.configPrevious # None
      /\ Disk.credentialPrevious # None <=> KeepsKey(run.journal)
      /\ run \in RunType /\ run.caller \in Callers /\ pc \notin {"idle", "enter", "stop"}
  BY FilingFacts DEF Callers
<1>2. run.journal.operation = "static-restore" /\ run.journal.phase = "activating"
  BY RestoringFacts
<1>3. Disk' = Disk /\ Hosts(Img, Disk, wg, txn.kept) /\ txn.kept \in BOOLEAN /\ verdict # "stuck"
  BY HostFacts DEF Disk, HostInv, SInv
<1>4. pc' = "restoreConfig" /\ run' = self /\ verdict' = verdict
  <2>1. images'[Len(images')] = Disk
    BY DEF Disk
  <2>2. run.journal.operation \notin ApiOperations /\ Disk.journal # None
    BY <1>1, <1>2 DEF ApiOperations
  <2>3. QED
    BY <1>1, <2>1, <2>2 DEF Raise, Go
<1>5. self.caller = "undo" /\ self.journal = run.journal
  BY <1>1 DEF RunType
<1>6. one /\ one \in BOOLEAN
  BY <1>1
<1> HIDE DEF self, one
<1>7. Refusing("restoreConfig", self, Disk, one)
  BY <1>1, <1>2, <1>5, <1>6 DEF Refusing
<1>8. "restoreConfig" \in RollbackSteps /\ run.journal.phase \notin ClosedPhases
  BY <1>2 DEF RollbackSteps, ClosedPhases
<1>9. Underway(Disk) => \A d \in Img : ~Settled(d)
  BY <1>1
<1> DEFINE next == "restoreConfig"
<1>10. /\ next \in RollbackSteps /\ next \notin {"restoreKey", "dropPreManaged", "markRolledBack"}
       /\ Refusing(next, self, Disk, one) /\ pc' = next
  BY <1>4, <1>7, <1>8
<1> HIDE DEF next
<1>11. /\ self.caller \in {"rollback", "undo"} /\ self.caller # "rollback"
       /\ Disk.journal # None /\ Record(self.journal) = Record(Disk.journal)
       /\ self.journal = Disk.journal
       /\ self.journal.phase \notin ClosedPhases
       /\ self.journal.phase # "prepared" =>
            Disk.configPrevious # None /\ (KeepsKey(self.journal) => Disk.credentialPrevious # None)
  BY <1>1, <1>2, <1>5, <1>8
<1>12. Runs(next, self, Disk, Img, one, wg, txn.kept)
  <2>1. next \in {"restoreKey", "dropPreManaged", "markRolledBack"} =>
          Disk.config.source = Former(Disk).source
    BY <1>10
  <2>2. self.caller = "rollback" => Disk.staging \subseteq Snapshots
    BY <1>11
  <2>3. Fits(Img, wg) \/ Refusing(next, self, Disk, one)
    BY <1>10
  <2>4. Open(Disk) /\ ~Settled(Disk) /\ ~txn.kept /\ txn.kept \in BOOLEAN /\ one \in BOOLEAN
        /\ next \in RollbackSteps
    BY <1>1, <1>3, <1>6, <1>10
  <2>5. self.caller # "undo" => self.journal = Disk.journal
    BY <1>11
  <2>6. QED
    BY <1>9, <1>11, <2>1, <2>2, <2>3, <2>4, <2>5, RollbackRuns
<1>13. QED
  BY <1>1, <1>3, <1>4, <1>10, <1>12, SkipSound DEF one

\* The runtime has restored the static profile.
LEMMA RestoredSound ==
  ASSUME SInv, Shut, pc = "restoreStatic", timer' = timer, txn'.kept = TRUE,
         NEW r \in RestoreStaticResults, r.ok, CallEnds(r), Go("markActivated", run)
  PROVE  HostInv' /\ RunInv' /\ Timed' /\ verdict' # "stuck"
<1> DEFINE e == Sourced(r.source)
           one == Len(images') = 1
           next == "markActivated"
           kept == txn'.kept
<1>1. /\ run.caller = "apply" /\ ~txn.kept /\ txn.kept \in BOOLEAN /\ Img = {Disk} /\ Len(images) = 1
      /\ Disk.staging = {} /\ Disk.journal = run.journal
      /\ Disk.configPrevious # None
      /\ Disk.credentialPrevious # None <=> KeepsKey(run.journal)
      /\ run.journal.keyChanged => run.supplied # None
      /\ pc \notin {"idle", "enter", "stop"}
  BY FilingFacts, HostFacts
<1>2. run.journal.operation = "static-restore"
  BY RestoringFacts
<1>3. None \notin {wg.profile, wg.preManaged}
  BY RestoreStaticParts
<1>4. /\ r \in ResultType /\ Leaves({e}, r.wg, txn.kept) /\ Underway(e)
      /\ e \in Directory /\ e.journal = Disk.journal
      /\ e.configPrevious = Disk.configPrevious
      /\ e.credentialPrevious = Disk.credentialPrevious /\ e.staging = Disk.staging
      /\ e.config.source = "static" /\ Visible(r.wg)
  BY <1>3, RestoreStaticLeaves
<1>5. wg' = r.wg /\ images' = LeftOf(r) /\ pc' = next /\ run' = run /\ verdict' = verdict
  BY DEF CallEnds, Go
<1>6. images \in Seq(Directory) /\ Len(images) >= 1 /\ verdict # "stuck" /\ timer \in BOOLEAN
  BY HostFacts DEF SInv, TInv, Typed
<1>7. Img' = {e} /\ Disk' = e /\ Len(images') = 1
  <2>1. CASE e # Disk
    <3>1. images' = <<e>>
      BY <1>5, <2>1 DEF LeftOf
    <3>2. QED
      BY <1>4, <3>1, OneImage
  <2>2. CASE e = Disk
    <3>1. images' = images
      BY <1>5, <2>2 DEF LeftOf, Dirty
    <3>2. Img' = Img /\ Disk' = Disk
      BY <3>1 DEF Img, Disk
    <3>3. QED
      BY <1>1, <2>2, <3>1, <3>2
  <2>3. QED
    BY <2>1, <2>2
<1> HIDE DEF e
<1>8. Hosts({e}, e, wg', txn.kept) /\ Fits({e}, wg')
  BY <1>4, <1>5, LeavesAfter
<1>9. /\ one /\ one \in BOOLEAN /\ kept /\ kept \in BOOLEAN
      /\ next \in Standing /\ next \in ApplySteps
      /\ next \notin {"prepare", "snapshotConfig", "snapshotKey", "markKey", "revalidate", "activate"}
  BY <1>7 DEF Standing, ApplySteps
<1> HIDE DEF one, kept, next
<1>10. Hosts({e}, e, wg', kept)
  BY <1>1, <1>4, <1>5, <1>8, KeptMore
<1>11. Applied(next, run, e, one, wg', kept)
  <2>1. kept <=> run.journal.operation = "static-restore"
    BY <1>2, <1>9
  <2>2. e.staging = {} /\ e.journal = run.journal /\ Visible(wg')
    BY <1>1, <1>4, <1>5
  <2>3. (next = "snapshotConfig") <=> e.configPrevious = None
    BY <1>1, <1>4, <1>9
  <2>4. e.credentialPrevious # None <=>
          KeepsKey(run.journal) /\ next \notin {"snapshotConfig", "snapshotKey"}
    BY <1>1, <1>4, <1>9
  <2>5. QED
    BY <1>4, <1>9, <2>1, <2>2, <2>3, <2>4 DEF Applied
<1>12. next \notin CleanSteps \cup Deciding \cup PostSteps /\ next \notin {"ready", "validate", "prepare"}
  BY DEF CleanSteps, Deciding, RollbackSteps, PostSteps, next
<1>13. Recorded(next, run, e)
  BY <1>1, <1>4, <1>12 DEF Recorded
<1>14. Backed(next, run, e, {e}, wg', kept)
  BY <1>1, <1>12 DEF Backed, Rolling, Deciding, RollbackSteps
<1>15. Cleaning(next, run, e, wg', kept)
  BY <1>1, <1>12 DEF Cleaning, CleanSteps
<1>16. Starting(next, run, e, wg', kept) /\ Posted(next, run, e, one)
  BY <1>1, <1>12 DEF Starting, Posted
<1>17. Runs(next, run, e, {e}, one, wg', kept)
  BY <1>8, <1>11, <1>13, <1>14, <1>15, <1>16 DEF Runs
<1>18. RunInv'
  BY <1>5, <1>7, <1>17 DEF RunInv, one, kept
<1>19. HostInv'
  BY <1>7, <1>10 DEF HostInv, kept
<1>20. QED
  BY <1>1, <1>5, <1>6, <1>18, <1>19, Untimed DEF SInv

\* RestoreStatic keeps SInv.
LEMMA RestoreStaticSound ==
  ASSUME SInv, Shut, RestoreStatic
  PROVE  HostInv' /\ RunInv' /\ Timed' /\ verdict' # "stuck"
<1>1. /\ pc = "restoreStatic" /\ timer' = timer
      /\ \/ /\ Calls({r \in RestoreStaticResults : r.ok}, Go("markActivated", run), FALSE)
            /\ txn' = [txn EXCEPT !.kept = pc' # "idle"]
         \/ /\ Calls({r \in RestoreStaticResults : ~r.ok}, FALSE, Raise(run))
            /\ txn' = txn
  BY HostFacts, RestoreStaticLands
<1>2. /\ run.caller = "apply" /\ ~txn.kept /\ txn.kept \in BOOLEAN /\ Disk.journal = run.journal
      /\ Disk.configPrevious # None
      /\ Disk.credentialPrevious # None <=> KeepsKey(run.journal)
      /\ pc \in ApplySteps /\ pc # "prepare" /\ pc \notin {"idle", "enter", "stop"}
  BY <1>1, FilingFacts, HostFacts
<1>3. run.journal.operation = "static-restore"
  BY <1>1, RestoringFacts
<1>4. ASSUME txn' = [txn EXCEPT !.kept = pc' # "idle"]
      PROVE  txn'.kept = (pc' # "idle")
  BY <1>4, HostFacts DEF Typed, TxnType
<1>5. ASSUME NEW r \in RestoreStaticResults, None \notin {wg.profile, wg.preManaged}, CallCut(r),
             txn'.kept = txn.kept
      PROVE  HostInv' /\ RunInv' /\ Timed' /\ verdict' # "stuck"
  <2>1. r \in ResultType /\ Leaves({Sourced(r.source)}, r.wg, txn'.kept)
    BY <1>1, <1>5, RestoreStaticLeaves
  <2>2. QED
    BY <1>1, <1>2, <1>5, <2>1, CallCutSound
<1>6. CASE /\ Calls({r \in RestoreStaticResults : r.ok}, Go("markActivated", run), FALSE)
           /\ txn' = [txn EXCEPT !.kept = pc' # "idle"]
  <2>1. PICK r \in {r \in RestoreStaticResults : r.ok} :
          \/ CallEnds(r) /\ (IF r.ok THEN Go("markActivated", run) ELSE FALSE)
          \/ CallCut(r)
    BY <1>6 DEF Calls
  <2>2. r \in RestoreStaticResults /\ r.ok /\ None \notin {wg.profile, wg.preManaged}
    BY <2>1, RestoreStaticParts
  <2>3. CASE CallEnds(r) /\ Go("markActivated", run)
    <3>1. txn'.kept = TRUE
      BY <1>4, <1>6, <2>3 DEF Go
    <3>2. QED
      BY <1>1, <2>2, <2>3, <3>1, RestoredSound
  <2>4. CASE CallCut(r)
    <3>1. txn'.kept = FALSE
      BY <1>4, <1>6, <2>4 DEF CallCut, End
    <3>2. QED
      BY <1>2, <1>5, <2>2, <2>4, <3>1
  <2>5. QED
    BY <2>1, <2>2, <2>3, <2>4
<1>7. CASE /\ Calls({r \in RestoreStaticResults : ~r.ok}, FALSE, Raise(run))
           /\ txn' = txn
  <2>1. PICK r \in {r \in RestoreStaticResults : ~r.ok} :
          \/ CallEnds(r) /\ (IF r.ok THEN FALSE ELSE Raise(run))
          \/ CallCut(r)
    BY <1>7 DEF Calls
  <2>2. r \in RestoreStaticResults /\ ~r.ok /\ r \in ResultType /\ txn'.kept = txn.kept
    BY <1>7, <2>1, RestoreStaticParts
  <2>3. CASE CallEnds(r) /\ Raise(run) /\ None \in {wg.profile, wg.preManaged}
    <3>1. r.wg = wg /\ r.source = Disk.config.source
      BY <2>2, <2>3, RestoreStaticParts
    <3>2. images' = images /\ wg' = wg
      BY <2>2, <2>3, <3>1, SourceKept
    <3>3. QED
      BY <1>1, <1>7, <2>3, <3>2, RefusedSound
  <2>4. CASE CallEnds(r) /\ Raise(run) /\ None \notin {wg.profile, wg.preManaged}
    <3> DEFINE e == Sourced(r.source)
    <3>1. /\ Leaves({e}, r.wg, txn.kept) /\ e.journal = Disk.journal
          /\ e.configPrevious = Disk.configPrevious
          /\ e.credentialPrevious = Disk.credentialPrevious
          /\ \A d \in Img \cup {e} : ~Settled(d)
      BY <1>1, <2>2, <2>4, RestoreStaticLeaves
    <3> HIDE DEF e
    <3>2. /\ e \in Img \cup {e} /\ Fits(Img \cup {e}, r.wg) /\ pc \in ApplySteps \cup ProofSteps
      BY <1>2, <3>1 DEF Leaves
    <3>3. Rises(run, e, Img \cup {e}, r.wg, txn.kept)
      BY <1>2, <3>1, <3>2, ApplyRises
    <3>4. QED
      BY <1>1, <1>2, <2>2, <2>4, <3>1, <3>3, CallRaised DEF e
  <2>5. CASE CallCut(r) /\ None \in {wg.profile, wg.preManaged}
    <3>1. Unmanaged
      BY <1>1, <1>3, <2>5 DEF Unmanaged
    <3>2. Spend("kill")
      BY <2>5 DEF CallCut
    <3>3. QED
      BY <3>1, <3>2, NoFault
  <2>6. CASE CallCut(r) /\ None \notin {wg.profile, wg.preManaged}
    BY <1>5, <2>2, <2>6
  <2>7. QED
    BY <2>1, <2>2, <2>3, <2>4, <2>5, <2>6
<1>8. QED
  BY <1>1, <1>6, <1>7

(* ---------------------------- after the commit -------------------------- *)

\* Nothing of the transaction is left.
LEMMA PostFacts ==
  ASSUME SInv, pc \in PostSteps
  PROVE  /\ run.caller = "post" /\ run.caller \in Callers /\ run \in RunType
         /\ SetupArtifactsClear(Disk) /\ Img = {Disk} /\ Len(images) = 1
         /\ run.request.mode = "static" => Disk.config.source = "static"
         /\ Fits(Img, wg) /\ Hosts(Img, Disk, wg, txn.kept)
         /\ pc \notin {"idle", "enter", "stop"} /\ txn.kept \in BOOLEAN /\ Disk \in Directory
         /\ Worth(Disk, wg, txn.kept) /\ Disk \in Img /\ verdict # "stuck" /\ timer \in BOOLEAN
<1>1. run.caller = "post"
  BY DEF SInv, TInv, Control, CallerAt
<1>2. Posted(pc, run, Disk, Len(images) = 1)
  BY DEF SInv, RunInv, Runs
<1>3. /\ SetupArtifactsClear(Disk) /\ Len(images) = 1
      /\ run.request.mode = "static" => Disk.config.source = "static"
  BY <1>2 DEF Posted
<1>4. Img = {Disk}
  BY <1>3 DEF Img, Disk
<1>5. pc \notin {"idle", "enter", "stop"} /\ Fits(Img, wg)
  BY FitsElse DEF PostSteps
<1>6. QED
  BY <1>1, <1>3, <1>4, <1>5, HostFacts, RunFacts DEF Callers, HostInv, SInv

\* After the commit the next step is sound.
LEMMA PostRuns ==
  ASSUME NEW p \in PostSteps, NEW r, NEW D, NEW S, NEW one \in BOOLEAN, one, NEW w, NEW k,
         r.caller = "post", SetupArtifactsClear(D), Fits(S, w),
         r.request.mode = "static" => D.config.source = "static"
  PROVE  Runs(p, r, D, S, one, w, k)
<1>1. p \notin CleanSteps \cup Deciding \cup Standing /\ p \notin {"ready", "validate", "prepare"}
  BY DEF CleanSteps, Deciding, RollbackSteps, PostSteps, Standing
<1>2. Recorded(p, r, D)
  BY <1>1 DEF Recorded
<1>3. Backed(p, r, D, S, w, k)
  BY <1>1 DEF Backed, Rolling, Deciding, RollbackSteps
<1>4. Cleaning(p, r, D, w, k)
  BY <1>1 DEF Cleaning, CleanSteps
<1>5. Starting(p, r, D, w, k) /\ Posted(p, r, D, one)
  BY <1>1 DEF Starting, Posted
<1>6. Applied(p, r, D, one, w, k)
  BY DEF Applied
<1>7. QED
  BY <1>2, <1>3, <1>4, <1>5, <1>6 DEF Runs

\* Reset keeps SInv.
LEMMA ResetSound ==
  ASSUME SInv, Shut, ResetApiState
  PROVE  HostInv' /\ RunInv' /\ Timed' /\ verdict' # "stuck"
<1> DEFINE one == Len(images) = 1
           next == "removeKey"
<1>1. /\ pc = "reset" /\ UNCHANGED <<timer, txn>> /\ pc \in PostSteps
      /\ \/ UNCHANGED <<images, status, faults, wg>> /\ Go(next, run)
         \/ Calls(ResetResults, Go(next, run), Raise(run))
  BY HostFacts, ResetLands DEF PostSteps
<1>2. /\ run.caller = "post" /\ SetupArtifactsClear(Disk) /\ Len(images) = 1
      /\ run.request.mode = "static" => Disk.config.source = "static"
      /\ Fits(Img, wg) /\ Hosts(Img, Disk, wg, txn.kept)
      /\ pc \notin {"idle", "enter", "stop"} /\ verdict # "stuck" /\ txn'.kept = txn.kept
  BY <1>1, PostFacts
<1>3. one /\ one \in BOOLEAN /\ next \in PostSteps
  BY <1>2 DEF PostSteps
<1> HIDE DEF one, next
<1>4. Runs(next, run, Disk, Img, one, wg, txn.kept)
  BY <1>2, <1>3, PostRuns
<1>5. ASSUME images' = images, wg' = wg, Go(next, run)
      PROVE  HostInv' /\ RunInv' /\ Timed' /\ verdict' # "stuck"
  BY <1>1, <1>2, <1>4, <1>5, SkipSound DEF Go, one
<1>6. ASSUME NEW r \in ResetResults
      PROVE  r \in ResultType /\ r.wg = wg /\ r.source = Disk.config.source
  <2>1. r \in ResultType
    BY HostFacts, ResetTypes
  <2>2. CASE r = Result(wg, Disk.config.source, status, TRUE, FALSE)
    BY <2>1, <2>2 DEF Result
  <2>3. CASE r \in Failures({wg}, {Disk.config.source})
    BY <2>1, <2>3, FailureParts
  <2>4. QED
    BY <1>6, <2>2, <2>3 DEF ResetResults
<1>7. ASSUME NEW r \in ResetResults, CallEnds(r), Go(next, run)
      PROVE  HostInv' /\ RunInv' /\ Timed' /\ verdict' # "stuck"
  BY <1>5, <1>6, <1>7, SourceKept
<1>8. ASSUME NEW r \in ResetResults, CallEnds(r), Raise(run)
      PROVE  HostInv' /\ RunInv' /\ Timed' /\ verdict' # "stuck"
  <2>1. images' = images /\ wg' = wg /\ run.caller # "apply"
    BY <1>2, <1>6, <1>8, SourceKept
  <2>2. QED
    BY <1>1, <1>2, <1>8, <2>1, RaiseHere
<1>9. ASSUME NEW r \in ResetResults, CallCut(r)
      PROVE  HostInv' /\ RunInv' /\ Timed' /\ verdict' # "stuck"
  <2>1. /\ wg' = wg /\ pc' = "idle" /\ run' = NoRun /\ verdict' = "killed"
        /\ images' = images \/ Lost({Disk})
    BY <1>6, <1>9, SourceKept
  <2>2. QED
    BY <1>1, <1>2, <2>1, EndOrLost
<1>10. QED
  BY <1>1, <1>5, <1>7, <1>8, <1>9 DEF Calls

\* RemoveKey keeps SInv.
LEMMA RemoveKeySound ==
  ASSUME SInv, Shut, RemoveKey
  PROVE  HostInv' /\ RunInv' /\ Timed' /\ verdict' # "stuck"
<1> DEFINE removes == run.request.mode = "static" /\ run.request.remove
           leaves == RemoveLeaves(Disk, "credential")
           after == Removed(Disk, "credential")
           next == "enable"
<1>1. /\ pc = "removeKey" /\ UNCHANGED <<wg, timer>> /\ pc \in PostSteps
      /\ txn' = IF removes THEN [txn EXCEPT !.after.key = None, !.removes = TRUE] ELSE txn
      /\ \/ /\ IF removes THEN Gone("credential") ELSE UNCHANGED <<images, status, faults>>
            /\ pc' = next /\ run' = run /\ verdict' = verdict
         \/ removes /\ NotDone(run, leaves)
  BY HostFacts, RemoveKeyLands DEF PostSteps
<1>2. /\ run.caller = "post" /\ run.caller \in Callers /\ run.caller # "apply"
      /\ SetupArtifactsClear(Disk) /\ Len(images) = 1
      /\ Img = {Disk} /\ Disk \in Directory /\ Worth(Disk, wg, txn.kept)
      /\ run.request.mode = "static" => Disk.config.source = "static"
      /\ Fits(Img, wg) /\ Hosts(Img, Disk, wg, txn.kept)
      /\ pc \notin {"idle", "enter", "stop"} /\ verdict # "stuck"
  BY <1>1, PostFacts
<1>3. txn'.kept = txn.kept
  BY <1>1, HostFacts DEF Typed, TxnType, Triples
<1>4. next \in PostSteps
  BY DEF PostSteps
<1>5. CASE images' = images /\ pc' = next /\ run' = run /\ verdict' = verdict
  <2> DEFINE one == Len(images) = 1
  <2>1. one /\ one \in BOOLEAN
    BY <1>2
  <2> HIDE DEF one, next
  <2>2. Runs(next, run, Disk, Img, one, wg, txn.kept)
    BY <1>2, <1>4, <2>1, PostRuns
  <2>3. QED
    BY <1>1, <1>2, <1>3, <1>5, <2>2, SkipSound DEF one
<1>6. ASSUME removes,
             \/ Completed(after) /\ pc' = next /\ run' = run /\ verdict' = verdict
             \/ NotDone(run, leaves)
      PROVE  HostInv' /\ RunInv' /\ Timed' /\ verdict' # "stuck"
  <2>1. /\ Disk.config.source = "static" /\ Disk.journal = None /\ Disk.configPrevious = None
        /\ Disk.credentialPrevious = None /\ Disk.staging = {}
    BY <1>2, <1>6 DEF SetupArtifactsClear
  <2>2. leaves \subseteq Directory /\ Disk \in leaves /\ after \in leaves
    BY <1>2, RemoveTypes DEF RemoveLeaves
  <2>3. \A e \in leaves :
          /\ e.journal = None /\ e.config = Disk.config /\ e.staging = {}
          /\ e.configPrevious = None /\ e.credentialPrevious = None
    <3>1. ASSUME NEW e \in leaves
          PROVE  (SameFiles(e, Disk) /\ e.staging \subseteq Disk.staging) \/ e = after
      BY <1>2, <3>1, RemoveForms
    <3>2. /\ after.journal = Disk.journal /\ after.config = Disk.config
          /\ after.configPrevious = Disk.configPrevious
          /\ after.credentialPrevious = Disk.credentialPrevious /\ after.staging = Disk.staging
      BY <1>2, RemoveForms
    <3> HIDE DEF leaves, after
    <3>3. QED
      BY <2>1, <3>1, <3>2 DEF SameFiles
  <2> HIDE DEF leaves, after, removes
  <2>4. ASSUME NEW e \in leaves PROVE ~Open(e) /\ ~Settled(e) /\ Worth(e, wg, txn.kept)
    BY <1>2, <2>1, <2>3, <2>4 DEF Worth, Open, Settled, Underway
  <2>5. Leaves(leaves, wg, txn.kept)
    <3>1. /\ HostInv /\ Disk \in Img /\ \A d \in Img : Worth(d, wg, txn.kept)
          /\ Stands(Img, Disk, wg, txn.kept)
      BY HostFacts
    <3>2. \A d \in Img \cup leaves : ~Settled(d)
      BY <1>2, <2>1, <2>4 DEF Settled, Underway, Open
    <3>3. \A e \in leaves : e.journal \in {Disk.journal, None} /\ Worth(e, wg, txn.kept)
      BY <2>3, <2>4
    <3>4. QED
      BY <1>2, <2>2, <3>1, <3>2, <3>3, KinLeaves
  <2>6. \A one \in BOOLEAN : one => Runs(next, run, after, {after}, one, wg, txn.kept)
    <3>1. SUFFICES ASSUME NEW one \in BOOLEAN, one
                   PROVE  Runs(next, run, after, {after}, one, wg, txn.kept)
      OBVIOUS
    <3>2. Fits({after}, wg) /\ SetupArtifactsClear(after) /\ after.config.source = "static"
      BY <2>1, <2>2, <2>3, <2>5, LeavesAfter DEF SetupArtifactsClear
    <3> HIDE DEF next
    <3>3. QED
      BY <1>2, <1>4, <3>1, <3>2, PostRuns
  <2> HIDE DEF next
  <2>7. QED
    BY <1>1, <1>2, <1>3, <1>6, <2>2, <2>5, <2>6, StoreSound
<1>7. QED
  BY <1>1, <1>5, <1>6 DEF Gone

\* Enable keeps SInv.
LEMMA EnableSound ==
  ASSUME SInv, Shut, EnableTimer
  PROVE  HostInv' /\ RunInv' /\ Timed' /\ verdict' # "stuck"
<1>1. /\ pc = "enable" /\ UNCHANGED <<wg, txn>> /\ pc \in PostSteps
      /\ pc' = "idle" /\ run' = NoRun /\ verdict' # "stuck"
      /\ images' = images \/ Killed(images, status)
  BY DEF EnableTimer, Skip, End, Killed, PostSteps
<1>2. /\ SetupArtifactsClear(Disk) /\ Img = {Disk} /\ Fits(Img, wg)
      /\ Hosts(Img, Disk, wg, txn.kept)
  BY <1>1, PostFacts
<1>3. images \in Seq(Directory) /\ Len(images) >= 1
  BY HostFacts DEF Typed
<1>4. Img' = {Disk} /\ Disk' = Disk
  <2>1. CASE images' = images
    BY <1>2, <2>1 DEF Img, Disk
  <2>2. CASE Lost({})
    <3>1. PICK d \in Directory : images' = <<d>> /\ d \in Img
      BY <2>2 DEF Lost, Shut
    <3>2. QED
      BY <1>2, <3>1, OneImage
  <2>3. QED
    BY <1>1, <1>3, <2>1, <2>2, KilledImages
<1>5. HostInv' /\ Fits(Img', wg')
  BY <1>1, <1>2, <1>4 DEF HostInv
<1>6. Timed'
  BY <1>1, <1>2, <1>4 DEF Timed
<1>7. QED
  BY <1>1, <1>5, <1>6, IdleRuns

(* ------------------- between and before invocations --------------------- *)

Quiet == {"idle", "enter", "stop"}

\* What the invariant says outside a transaction.
LEMMA QuietFacts ==
  ASSUME SInv, pc \in Quiet
  PROVE  /\ run.caller = "none" /\ run \in RunType /\ Fits(Img, wg)
         /\ Hosts(Img, Disk, wg, txn.kept) /\ verdict # "stuck" /\ timer \in BOOLEAN
<1>1. run.caller = "none"
  BY DEF SInv, TInv, Control, CallerAt, NoRun, Quiet
<1>2. Fits(Img, wg)
  BY FitsElse DEF Quiet
<1>3. QED
  BY <1>1, <1>2, HostFacts, RunFacts DEF HostInv, SInv

\* An invocation that has not begun owes nothing.
LEMMA QuietRuns ==
  ASSUME NEW p \in Quiet \cup {"discard"}, NEW r, NEW D, NEW S, NEW one, NEW w, NEW k,
         r.caller = "none", Fits(S, w)
  PROVE  Runs(p, r, D, S, one, w, k)
<1>1. p \notin CleanSteps \cup Deciding \cup Standing \cup PostSteps
      /\ p \notin {"ready", "validate", "prepare"}
  BY DEF CleanSteps, Deciding, RollbackSteps, PostSteps, Standing, Quiet
<1>2. Recorded(p, r, D)
  BY <1>1 DEF Recorded
<1>3. Backed(p, r, D, S, w, k)
  BY <1>1 DEF Backed, Rolling, Deciding, RollbackSteps
<1>4. Cleaning(p, r, D, w, k)
  BY <1>1 DEF Cleaning, CleanSteps
<1>5. Starting(p, r, D, w, k) /\ Posted(p, r, D, one)
  BY <1>1 DEF Starting, Posted
<1>6. Applied(p, r, D, one, w, k)
  BY DEF Applied
<1>7. QED
  BY <1>2, <1>3, <1>4, <1>5, <1>6 DEF Runs

\* Before the units are stopped nothing is written, and a power loss may choose an image.
LEMMA QuietSound ==
  ASSUME SInv, pc \in Quiet, pc' \in Quiet \cup {"discard"}, run'.caller = "none",
         images' = images \/ \E d \in Img : images' = <<d>>,
         timer' = timer \/ ~timer', pc' = "discard" => ~timer',
         Hosts(Img, Disk, wg', txn'.kept), Fits(Img, wg'), verdict' # "stuck"
  PROVE  HostInv' /\ RunInv' /\ Timed' /\ verdict' # "stuck"
<1>1. Img' \subseteq Img /\ HostInv' /\ Fits(Img', wg')
  <2>1. CASE images' = images
    BY <2>1 DEF Img, Disk, HostInv
  <2>2. ASSUME NEW d \in Img, images' = <<d>>
        PROVE  Img' \subseteq Img /\ HostInv' /\ Fits(Img', wg')
    <3>1. d \in Directory
      BY HostFacts
    <3>2. Img' = {d} /\ Disk' = d
      BY <2>2, <3>1, OneImage
    <3>3. Hosts({d}, d, wg', txn'.kept)
      BY LoneHosts
    <3>4. Fits({d}, wg')
      BY ShrinkFits
    <3>5. QED
      BY <3>2, <3>3, <3>4 DEF HostInv
  <2>3. QED
    BY <2>1, <2>2
<1>2. RunInv'
  BY <1>1, QuietRuns DEF RunInv
<1>3. Timed'
  BY <1>1 DEF Timed, SInv, Quiet
<1>4. QED
  BY <1>1, <1>2, <1>3

\* A power loss chooses among the images.
LEMMA SurvivorsHere == ASSUME Shut PROVE Survivors(images) = Img
<1>1. "reordered" \notin Windows
  BY DEF Shut
<1>2. QED
  BY <1>1 DEF Survivors, Img

\* Enter keeps SInv.
LEMMA EnterSound ==
  ASSUME SInv, Enter
  PROVE  HostInv' /\ RunInv' /\ Timed' /\ verdict' # "stuck"
<1>1. /\ pc = "enter" /\ pc \in Quiet /\ UNCHANGED <<images, wg, status, timer, txn, faults>>
      /\ pc' \in {"idle", "stop"}
      /\ \/ run' = NoRun /\ verdict' = "refused"
         \/ run' = [run EXCEPT !.recovering = (Disk.journal # None)] /\ verdict' = verdict
  BY DEF Enter, End, Go, Quiet
<1>2. /\ run.caller = "none" /\ run \in RunType /\ Fits(Img, wg)
      /\ Hosts(Img, Disk, wg, txn.kept) /\ verdict # "stuck"
  BY <1>1, QuietFacts
<1>3. run'.caller = "none" /\ verdict' # "stuck"
  BY <1>1, <1>2 DEF NoRun, RunType
<1>4. pc' \in Quiet /\ pc' # "discard"
  BY <1>1 DEF Quiet
<1>5. QED
  BY <1>1, <1>2, <1>3, <1>4, QuietSound

\* Stop keeps SInv.
LEMMA StopSound ==
  ASSUME SInv, Shut, StopUnits
  PROVE  HostInv' /\ RunInv' /\ Timed' /\ verdict' # "stuck"
<1>1. /\ pc = "stop" /\ pc \in Quiet /\ UNCHANGED <<wg, txn>>
      /\ \/ timer' = FALSE /\ pc' = "discard" /\ run' = run /\ verdict' = verdict /\ images' = images
         \/ /\ timer' \in {timer, FALSE} /\ pc' = "idle" /\ run' = NoRun
            /\ verdict' \in {"refused", "killed"}
            /\ images' = images \/ \E d \in Survivors(images) : images' = <<d>>
  BY DEF StopUnits, End, Go, Quiet, Killed
<1>2. /\ run.caller = "none" /\ run \in RunType /\ Fits(Img, wg)
      /\ Hosts(Img, Disk, wg, txn.kept) /\ verdict # "stuck"
  BY <1>1, QuietFacts
<1>3. run'.caller = "none" /\ verdict' # "stuck" /\ pc' \in Quiet \cup {"discard"}
  <2>1. NoRun.caller = "none" /\ "idle" \in Quiet
    BY DEF NoRun, Quiet
  <2>2. CASE pc' = "discard" /\ run' = run /\ verdict' = verdict
    BY <1>2, <2>2
  <2>3. CASE pc' = "idle" /\ run' = NoRun /\ verdict' \in {"refused", "killed"}
    BY <2>1, <2>3
  <2>4. QED
    BY <1>1, <2>2, <2>3
<1>4. /\ images' = images \/ \E d \in Img : images' = <<d>>
      /\ timer' = timer \/ ~timer'
      /\ pc' = "discard" => ~timer'
  BY <1>1, SurvivorsHere
<1>5. QED
  BY <1>1, <1>2, <1>3, <1>4, QuietSound

\* What happens between two invocations keeps SInv.
LEMMA BetweenSound ==
  ASSUME SInv, Shut, Preview \/ Check \/ PowerLoss \/ (\E r \in Requests : Ask(r)),
         ~RotatesRestoration
  PROVE  HostInv' /\ RunInv' /\ Timed' /\ verdict' # "stuck"
<1>1. CASE Preview
  <2> DEFINE lone == [wg EXCEPT !.candidate = TRUE]
  <2>1. /\ pc = "idle" /\ pc \in Quiet /\ wg' = lone
        /\ UNCHANGED <<images, status, timer, pc, run, verdict, txn>>
    BY <1>1 DEF Preview, Quiet
  <2>2. run.caller = "none" /\ Fits(Img, wg) /\ verdict # "stuck"
    BY <2>1, QuietFacts
  <2>3. Hosts(Img, Disk, lone, txn.kept) /\ Fits(Img, lone)
    BY <2>2, CandidateKeeps
  <2> HIDE DEF lone
  <2>4. QED
    BY <2>1, <2>2, <2>3, QuietSound DEF Quiet
<1>2. CASE Check
  <2>1. /\ pc \in Quiet /\ UNCHANGED <<images, timer, pc, run, verdict, txn>> /\ pc # "discard"
        /\ \E r \in CheckResults : wg' = r.wg
    BY <1>2 DEF Check, Quiet
  <2>0. SparesRestored(wg')
    BY <1>2, SparesRestoredHere DEF Check
  <2>2. run.caller = "none" /\ Fits(Img, wg) /\ verdict # "stuck"
    BY <2>1, QuietFacts
  <2>3. Hosts(Img, Disk, wg', txn.kept) /\ Fits(Img, wg')
    BY <2>0, <2>1, <2>2, CheckKeeps
  <2>4. QED
    BY <2>1, <2>2, <2>3, QuietSound
<1>3. CASE PowerLoss
  <2>1. /\ pc \in Quiet /\ UNCHANGED <<wg, timer, txn>> /\ pc' = "idle" /\ run' = NoRun
        /\ verdict' \in Committed \cup {"killed"}
        /\ \E d \in Survivors(images) : images' = <<d>>
    BY <1>3 DEF PowerLoss, End, Quiet
  <2>2. Fits(Img, wg) /\ Hosts(Img, Disk, wg, txn.kept)
    BY <2>1, QuietFacts
  <2>3. run'.caller = "none" /\ verdict' # "stuck" /\ pc' \in Quiet /\ pc' # "discard"
    BY <2>1 DEF NoRun, Quiet, Committed
  <2>4. \E d \in Img : images' = <<d>>
    BY <2>1, SurvivorsHere
  <2>5. QED
    BY <2>1, <2>2, <2>3, <2>4, QuietSound
<1>4. ASSUME NEW r \in Requests, Ask(r)
      PROVE  HostInv' /\ RunInv' /\ Timed' /\ verdict' # "stuck"
  <2>0. /\ pc \in Quiet /\ UNCHANGED <<images, wg, timer, txn>>
        /\ \/ End("inadmissible") \/ End("refused")
           \/ /\ pc' = "enter"
              /\ verdict' \in {verdict, "none"}
              /\ \E key : run' = [NoRun EXCEPT !.request = r, !.supplied = key]
    BY <1>4 DEF Ask, Quiet
  <2>1. /\ pc' \in {"idle", "enter"} /\ run'.caller = "none"
        /\ verdict' \in {"inadmissible", "refused", verdict, "none"}
    <3>1. NoRun.caller = "none" /\ \A key : [NoRun EXCEPT !.request = r, !.supplied = key].caller = "none"
      BY DEF NoRun
    <3>2. CASE End("inadmissible") \/ End("refused")
      BY <3>1, <3>2 DEF End
    <3>3. CASE /\ pc' = "enter"
               /\ verdict' \in {verdict, "none"}
               /\ \E key : run' = [NoRun EXCEPT !.request = r, !.supplied = key]
      BY <3>1, <3>3
    <3>4. QED
      BY <2>0, <3>2, <3>3
  <2>2. Fits(Img, wg) /\ Hosts(Img, Disk, wg, txn.kept) /\ verdict # "stuck"
    BY <2>0, QuietFacts
  <2>3. verdict' # "stuck" /\ pc' \in Quiet /\ pc' # "discard"
    BY <2>1, <2>2 DEF Quiet
  <2>4. QED
    BY <2>0, <2>1, <2>2, <2>3, QuietSound
<1>5. QED
  BY <1>1, <1>2, <1>3, <1>4

(* --------------------------- the invariant ------------------------------ *)

\* Every step of the engine keeps the invariant,
LEMMA StepSound ==
  ASSUME SInv, Shut, Next, ~RotatesRestoration
  PROVE  HostInv' /\ RunInv' /\ Timed' /\ verdict' # "stuck"
<1>1. CASE Recovery
  BY <1>1, DiscardSound, ReconcileSound, CleanupCandidateSound, ClassifySound DEF Recovery
<1>2. CASE RollingBack
  BY <1>2, UnadoptSound, RestoreConfigSound, RestoreKeySound, DropSound, MarkRolledBackSound
     DEF RollingBack
<1>3. CASE CleanUp
  BY <1>3, CleanUpSound
<1>4. CASE Applying
  <2>1. CASE Begin \/ Validate \/ Prepare \/ SnapshotConfig \/ SnapshotKey \/ WriteConfig
    BY <2>1, BeginSound, ValidateSound, PrepareSound, SnapshotConfigSound, SnapshotKeySound,
       WriteConfigSound
  <2>2. CASE MarkConfig \/ WriteKey \/ MarkKey \/ Revalidate \/ Activate
    BY <2>2, MarkConfigSound, WriteKeySound, MarkKeySound, RevalidateSound, ActivateSound
  <2>3. CASE MarkActivating \/ RestoreStatic \/ MarkActivated
    BY <2>3, MarkActivatingSound, RestoreStaticSound, MarkActivatedSound
  <2>4. QED
    BY <1>4, <2>1, <2>2, <2>3 DEF Applying
<1>5. CASE Proving
  BY <1>5, BeginProofSound, MarkVerifyingSound, VerifySound, MarkVerifiedSound DEF Proving
<1>6. CASE Ending
  BY <1>6, ResetSound, RemoveKeySound, EnableSound DEF Ending
<1>7. CASE Enter \/ StopUnits
  BY <1>7, EnterSound, StopSound
<1>8. CASE Preview \/ Check \/ PowerLoss \/ (\E r \in Requests : Ask(r))
  BY <1>8, BetweenSound
<1>9. QED
  BY <1>1, <1>2, <1>3, <1>4, <1>5, <1>6, <1>7, <1>8 DEF Next, Proceed

\* and so does a stutter.
LEMMA StutterSound ==
  ASSUME SInv, UNCHANGED vars
  PROVE  HostInv' /\ RunInv' /\ Timed' /\ verdict' # "stuck"
<1>1. UNCHANGED <<images, wg, timer, pc, run, verdict, txn>>
  BY DEF vars
<1>2. Img' = Img /\ Disk' = Disk
  BY <1>1 DEF Img, Disk
<1>3. QED
  BY <1>1, <1>2 DEF SInv, HostInv, RunInv, Timed

\* Every step keeps it.
LEMMA SoundStep == ASSUME SInv, Shut, [Next]_vars, [~RotatesRestoration]_vars PROVE SInv'
<1>1. TInv'
  BY TypedStep DEF SInv
<1>2. CASE UNCHANGED vars
  BY <1>1, <1>2, StutterSound DEF SInv
<1>3. CASE Next /\ ~RotatesRestoration
  BY <1>1, <1>3, StepSound DEF SInv
<1>4. QED
  BY <1>2, <1>3

\* It holds initially.
LEMMA SoundInit == ASSUME Init PROVE SInv
<1>1. PICK i \in Initial :
        /\ images = <<[journal |-> None, config |-> i.config, credential |-> i.credential,
                       configPrevious |-> None, credentialPrevious |-> None, staging |-> {}]>>
        /\ wg = [profile |-> i.profile, preManaged |-> i.preManaged,
                 candidate |-> FALSE, switching |-> {}]
  BY DEF Init
<1> DEFINE d == [journal |-> None, config |-> i.config, credential |-> i.credential,
                 configPrevious |-> None, credentialPrevious |-> None, staging |-> {}]
<1>2. Img = {d} /\ Disk = d
  BY <1>1 DEF Img, Disk
<1>3. d.config.source = "api" => d.credential # None /\ wg.profile # None
  BY <1>1, ApplyAssumption
<1>4. /\ d.journal = None /\ d.configPrevious = None /\ d.credentialPrevious = None
      /\ d.staging = {}
  OBVIOUS
<1> HIDE DEF d
<1>5. /\ pc = "idle" /\ run = NoRun /\ ~timer /\ verdict = "none" /\ txn.kept = FALSE
  BY DEF Init
<1>6. ~Open(d) /\ ~Settled(d) /\ ~Underway(d)
  BY <1>4 DEF Open, Settled, Underway
<1>7. Worth(d, wg, txn.kept)
  BY <1>3, <1>4, <1>5, <1>6 DEF Worth
<1>8. HostInv
  <2>1. Stands({d}, d, wg, txn.kept) /\ Alone({d})
    BY <1>5, <1>6 DEF Stands, Alone
  <2>2. QED
    BY <1>2, <1>7, <2>1 DEF HostInv, Hosts
<1>9. RunInv
  <2>1. Fits(Img, wg)
    BY <1>2, <1>6 DEF Fits
  <2>2. run.caller = "none" /\ pc \in Quiet \cup {"discard"}
    BY <1>5 DEF NoRun, Quiet
  <2>3. QED
    BY <2>1, <2>2, QuietRuns DEF RunInv
<1>10. Timed
  BY <1>5 DEF Timed
<1>11. QED
  BY <1>5, <1>8, <1>9, <1>10, TypedInit DEF SInv

\* The invariant: every directory a power loss may leave is one recovery can bring
\* back, and the invocation's memory agrees with it.
THEOREM EngineSound ==
  ASSUME Windows \subseteq {"moved restore"}
  PROVE  Spec /\ [][~RotatesRestoration]_vars => []SInv
<1>1. Init => SInv
  BY SoundInit
<1>2. SInv /\ [Next]_vars /\ [~RotatesRestoration]_vars => SInv'
  BY SoundStep DEF Shut
<1>3. QED
  BY <1>1, <1>2, PTL DEF Spec

\* With the window "moved restore" closed there is no such rotation: a check does none,
\* and nothing else that may come then touches the profiles.
LEMMA ClosedStep ==
  ASSUME TInv, Windows = {}, Next
  PROVE  ~RotatesRestoration
<1>1. wg \in Host
  BY DEF TInv, Typed
<1>2. CASE Verify \/ Check
  BY <1>2 DEF Verify, Check
<1>3. CASE Preview
  BY <1>1, <1>3 DEF Preview, RotatesRestoration, Host
<1>4. CASE PowerLoss \/ Enter \/ (\E r \in Requests : Ask(r))
  BY <1>4 DEF PowerLoss, Enter, Ask, RotatesRestoration
<1>5. CASE pc \notin {"idle", "enter", "verify"}
  BY <1>5 DEF RotatesRestoration
<1>6. CASE Recovery \/ RollingBack \/ CleanUp \/ StopUnits
  <2>1. pc \notin {"idle", "enter", "verify"}
    BY <1>6 DEF Recovery, DiscardStaging, Reconcile, CleanupCandidate, Classify,
       RollingBack, Unadopt, RestoreConfig, RestoreKey, DropPreManaged, MarkRolledBack,
       CleanUp, CleanConfig, CleanKey, CleanJournal, StopUnits
  <2>2. QED
    BY <1>5, <2>1
<1>7. CASE Applying \/ Ending
  <2>1. pc \notin {"idle", "enter", "verify"}
    BY <1>7 DEF Applying, Begin, Validate, Prepare, SnapshotConfig, SnapshotKey, WriteConfig,
       MarkConfig, WriteKey, MarkKey, Revalidate, Activate, MarkActivating, RestoreStatic,
       MarkActivated, Mark, Ending, ResetApiState, RemoveKey, EnableTimer
  <2>2. QED
    BY <1>5, <2>1
<1>8. CASE BeginProof \/ MarkVerifying \/ MarkVerified
  <2>1. pc \notin {"idle", "enter", "verify"}
    BY <1>8 DEF BeginProof, MarkVerifying, MarkVerified, Mark
  <2>2. QED
    BY <1>5, <2>1
<1>9. QED
  BY <1>2, <1>3, <1>4, <1>6, <1>7, <1>8 DEF Next, Proceed, Proving

LEMMA NoRotation == ASSUME Windows = {} PROVE Spec => [][~RotatesRestoration]_vars
<1>1. TInv /\ [Next]_vars => [~RotatesRestoration]_vars
  BY ClosedStep
<1>2. QED
  BY <1>1, TypedInit, TypedStep, PTL DEF Spec

\* So the invariant holds whatever happens.
LEMMA ClosedSound == ASSUME Windows = {} PROVE Spec => []SInv
<1>1. Windows \subseteq {"moved restore"}
  OBVIOUS
<1>2. QED
  BY <1>1, EngineSound, NoRotation, PTL

\* However a setup was cut and whatever failed, recovery finds the files it needs: it
\* never ends with a record it can neither roll back nor finish (_recover_setup_transaction).
THEOREM RecoveryNeverStuck == ASSUME Windows = {} PROVE Spec => []NeverStuck
<1>1. SInv => NeverStuck
  BY DEF SInv, NeverStuck
<1>2. QED
  BY <1>1, ClosedSound, PTL

\* The timer is on only while no invocation is under way and no image recovery may find
\* holds anything of a transaction (stop_units, enable_timer_after_commit).
THEOREM TimerStaysClosed == ASSUME Windows = {} PROVE Spec => []TimerFailClosed
<1>1. SInv => TimerFailClosed
  <2>1. SUFFICES ASSUME SInv, timer, NEW i \in 1..Len(images)
                 PROVE  SetupArtifactsClear(images[i])
    BY DEF TimerFailClosed
  <2>2. images[i] \in Img
    BY DEF Img
  <2>3. QED
    BY <2>1, <2>2 DEF SInv, Timed
<1>2. QED
  BY <1>1, ClosedSound, PTL

\* In every image the API source has its key and a profile to run from.
THEOREM ApiAlwaysHasKey == ASSUME Windows = {} PROVE Spec => []ApiSourceHasKey
<1>1. SInv => ApiSourceHasKey
  <2>1. SUFFICES ASSUME SInv, NEW i \in 1..Len(images), images[i].config.source = "api"
                 PROVE  images[i].credential # None /\ wg.profile # None
    BY DEF ApiSourceHasKey
  <2>2. images[i] \in Img
    BY DEF Img
  <2>3. Worth(images[i], wg, txn.kept)
    BY <2>1, <2>2, HostFacts
  <2>4. QED
    BY <2>1, <2>3 DEF Worth
<1>2. QED
  BY <1>1, ClosedSound, PTL

\* Once the runtime has restored the static profile, no image and no later recovery
\* leads back to the API source until another request is made, as application.py:541-544
\* has it: however the setup is cut, unless a check rotates the restored profile while
\* its record is there (rotate_static_endpoint, application.py:256).
THEOREM RestorationStays ==
  ASSUME Windows \subseteq {"moved restore"}
  PROVE  Spec /\ [][~RotatesRestoration]_vars => []RestoredStaysStatic
<1>1. SInv => RestoredStaysStatic
  <2>1. SUFFICES ASSUME SInv, txn.kept, NEW i \in 1..Len(images)
                 PROVE  images[i].config.source = "static"
    BY DEF RestoredStaysStatic
  <2>2. images[i] \in Img
    BY DEF Img
  <2>3. Worth(images[i], wg, txn.kept)
    BY <2>1, <2>2, HostFacts
  <2>4. QED
    BY <2>1, <2>3 DEF Worth
<1>2. QED
  BY <1>1, EngineSound, PTL
=============================================================================
