-------------------------- MODULE SetupExact_proof --------------------------
(***************************************************************************)
(* Theorems about SetupApply: it implements SetupAtomic, what it leaves    *)
(* and tells the operator is what was found or what was asked for, and an  *)
(* adoption that is rolled back leaves the operator's own profile, without *)
(* the windows.                                                            *)
(*                                                                         *)
(* The invariant joins SInv of SetupSound_proof to the history of the      *)
(* transaction (txn) in two parts.  TxnInv, of the images: by their order  *)
(* they lead from what is durably in force towards what was asked for, in  *)
(* one step (Ordered); each is accounted for by what was found or asked    *)
(* for (Bounded); without a record they agree (Cleared); and one that      *)
(* recovery may take for committed is whole, but for the directories a     *)
(* rollback leaves on its way, which no proof reaches (Whole, Excused).    *)
(* WorkInv, of the invocation: how much of the request is on disk at each  *)
(* step (Halfway, Aims), how far a rollback has come (Undoes) and what the *)
(* verdict stands for (Told).                                              *)
(* AdoptInv, for as long as the last request is an adoption: where the     *)
(* profiles and the snapshot of the operator's own are (Adopted), what     *)
(* each image shows of them (Pictured: the snapshot is there only with the *)
(* record of the adoption or under the API source) and how far the         *)
(* invocation has come with it (Adopting).                                 *)
(***************************************************************************)
EXTENDS SetupProposal_proof

\* What recovery could still take for committed.
MayCommit(d) == Open(d) /\ (d.journal.operation \in StaticOperations \/ MayStillCommit(d))

\* A rollback of the engine is under way, or was cut where no proof can follow:
\* the files of an open record may be half of each.
Midway == {"restoreConfig", "restoreKey", "dropPreManaged", "markRolledBack"}
Before == {"idle", "enter", "stop", "discard", "reconcile", "unstage", "classify", "unadopt"}
Excused(d) ==
  /\ d.journal = Disk.journal /\ d.journal.operation \in ApiOperations
  /\ txn.undone /\ wg.switching = {}
  /\ \/ pc \in Midway
     \/ d.journal.phase = "verifying" /\ status = "stale" /\ pc \in Before

Keyless(t) == [t EXCEPT !.key = None]

\* In one step, y may take the place of x.
Follows(x, y, a) == y \in {x, a} \/ (x.source = "static" /\ y = Keyless(x))

\* What is durable, and what the other images say beside it.
Ordered == \A d \in Img : Follows(InForce(images[1]), InForce(d), txn.after)

\* x is what was found or asked for; only a key given up in static mode may be gone.
Accounted(x, t) ==
  \/ x \in {t.before, t.after}
  \/ /\ t.removes /\ x.source = "static"
     /\ Keyless(x) \in {Keyless(t.before), Keyless(t.after)}
Bounded == \A d \in Img : Accounted(InForce(d), txn)

\* Without a record every image says itself what is in force, and the same.
Plain(d, o, t) ==
  /\ Recovered(d) = Triple(d)
  /\ Triple(d) = o \/ (t.removes /\ o.source = "static" /\ Triple(d) = Keyless(o))
Cleared == Disk.journal = None => \A d \in Img : Plain(d, Triple(images[1]), txn)

\* What may still be taken for committed is whole: all of what was asked for, or
\* all of what was found.
Settles(d, t) == Triple(d) \in {t.after, Recovered(d)}
Whole == ~txn.kept => \A d \in Img : MayCommit(d) => Settles(d, txn) \/ Excused(d)

TxnInv == Ordered /\ Bounded /\ Cleared /\ Whole

\* The steps at which no file of the request is written yet, and those after the first.
Unwritten == {"prepare", "snapshotConfig", "snapshotKey", "writeConfig", "markActivating",
              "restoreStatic"}
Filed == {"markConfig", "writeKey", "markKey", "revalidate", "activate"}

\* How far a rollback has come.
Undoes(p, r, D, one, w) ==
  /\ p \in {"restoreKey", "dropPreManaged", "markRolledBack"} =>
       /\ D.config = Former(D)
       /\ D.journal.phase # "prepared" => one
  /\ p \in {"dropPreManaged", "markRolledBack"} => D.credential = FormerKey(D)
  /\ r.caller = "undo" /\ MayStillCommit(D) => D.staging \cap {"config", "credential"} = {}
  /\ p \in RollbackSteps /\ D.journal.operation \in ApiOperations /\ MayStillCommit(D) => w.switching = {}

\* What the request is to install.
Aims(p, r, t) ==
  p = "validate" \/ r.caller \in {"apply", "finalize"} =>
    t.after = IF r.request.mode = "api"
                THEN [source |-> "api", settings |-> r.request.settings,
                      key |-> IF r.journal.keyChanged THEN r.supplied ELSE t.before.key]
                ELSE [t.before EXCEPT !.source = "static"]

\* How far it has come.
Halfway(p, r, D, t) ==
  /\ p \in {"validate"} \cup Unwritten => Triple(D) = t.before
  /\ p \in Filed =>
       /\ D.config = [source |-> t.before.source, settings |-> t.after.settings]
       /\ D.credential = IF p \in {"markConfig", "writeKey"} THEN t.before.key ELSE t.after.key
  /\ p \in Standing /\ r.caller \in {"apply", "finalize"} => Triple(D) = t.after
  /\ r.caller \in {"finalize", "post"} => Triple(D) = t.after
  /\ r.caller \in {"apply", "undo"} /\ ~t.kept =>
       Recovered(D) = t.before
  /\ r.caller = "keep" => t.kept
  /\ r.caller = "undo" => ~t.kept
  /\ p \in {"beginProof", "markVerifying"} /\ r.caller = "recovery" =>
       r.journal.operation \in {"api-update", "static"}

\* What the verdict stands for.
Told(p, v, D, one, t) ==
  /\ p = "idle" =>
       /\ v = "failed" => Triple(D) = t.before
       /\ v = "done" => one /\ D.journal = None /\ Triple(D) = t.after
       /\ v = "kept" => t.kept
  /\ p = "enter" => v \notin {"failed", "done", "kept"}

WorkInv ==
  /\ Undoes(pc, run, Disk, Len(images) = 1, wg) /\ Aims(pc, run, txn)
  /\ Halfway(pc, run, Disk, txn) /\ Told(pc, verdict, Disk, Len(images) = 1, txn)

(* --------------------- what an image says is in force ------------------ *)

\* What recovery makes of a directory, by the state of its record.
LEMMA RecoveredIs ==
  ASSUME NEW d \in Directory
  PROVE  /\ Open(d) => Recovered(d) = [source |-> Former(d).source, settings |-> Former(d).settings,
                                       key |-> FormerKey(d)]
         /\ ~Open(d) => Recovered(d) = Triple(d)
         /\ Triple(d) = [source |-> d.config.source, settings |-> d.config.settings,
                         key |-> d.credential]
         /\ Open(d) /\ d.config = Former(d) /\ d.credential = FormerKey(d) => Recovered(d) = Triple(d)
<1>1. CASE d.journal = None
  BY <1>1 DEF Recovered, Open, Triple
<1>2. CASE d.journal # None /\ d.journal.phase \in ClosedPhases
  BY <1>2 DEF Recovered, Open, Triple
<1>3. CASE Open(d)
  <2>1. d.journal # None /\ d.journal.phase \notin ClosedPhases
    BY <1>3 DEF Open
  <2>2. d.journal \in JournalRecord
    BY <2>1, JournalRecords DEF Directory
  <2>3. d.journal.keyChanged \in BOOLEAN /\ d.journal.hadKey \in BOOLEAN
    BY <2>2 DEF JournalRecord
  <2>4. Recovered(d) = [source |-> Former(d).source, settings |-> Former(d).settings,
                        key |-> FormerKey(d)]
    <3>1. CASE ~d.journal.keyChanged
      BY <2>1, <3>1 DEF Recovered, Former, FormerKey
    <3>2. CASE d.journal.keyChanged /\ ~d.journal.hadKey
      BY <2>1, <3>2 DEF Recovered, Former, FormerKey
    <3>3. CASE d.journal.keyChanged /\ d.journal.hadKey
      BY <2>1, <3>3 DEF Recovered, Former, FormerKey
    <3>4. QED
      BY <2>3, <3>1, <3>2, <3>3
  <2>5. QED
    BY <1>3, <2>4 DEF Triple
<1>4. QED
  BY <1>1, <1>2, <1>3 DEF Open

\* Triples have their types.
LEMMA InForceTypes ==
  ASSUME NEW d \in Directory
  PROVE  Triple(d) \in Triples /\ Recovered(d) \in Triples
<1>1. Triple(d) \in Triples
  BY TripleTypes
<1>2. ASSUME Open(d) PROVE Recovered(d) \in Triples
  <2>1. Former(d) \in Config
    BY DEF Former, Directory
  <2>2. FormerKey(d) \in Keys \cup {None}
    BY DEF FormerKey, Directory
  <2>3. QED
    BY <1>2, <2>1, <2>2, RecoveredIs DEF Triples, Config
<1>3. QED
  BY <1>1, <1>2, RecoveredIs

\* The same files say the same.
LEMMA SameForce ==
  ASSUME NEW d \in Directory, NEW e \in Directory, SameFiles(e, d)
  PROVE  /\ Triple(e) = Triple(d) /\ Recovered(e) = Recovered(d) /\ Open(e) = Open(d)
         /\ MayCommit(e) = MayCommit(d) /\ MayStillCommit(e) = MayStillCommit(d)
<1>1. Former(e) = Former(d) /\ FormerKey(e) = FormerKey(d)
  BY DEF SameFiles, Former, FormerKey
<1>2. Open(e) = Open(d) /\ Triple(e) = Triple(d) /\ MayStillCommit(e) = MayStillCommit(d)
  BY DEF SameFiles, Open, Triple, MayStillCommit
<1>3. Recovered(e) = Recovered(d)
  BY <1>1, <1>2, RecoveredIs
<1>4. QED
  BY <1>1, <1>2, <1>3 DEF MayCommit, SameFiles

\* The same record, and the same to be put back.
LEMMA SameRecovered ==
  ASSUME NEW d \in Directory, NEW e \in Directory, Open(d), e.journal # None,
         Record(e.journal) = Record(d.journal), e.journal.phase \notin ClosedPhases,
         Former(e) = Former(d), FormerKey(e) = FormerKey(d)
  PROVE  Open(e) /\ Recovered(e) = Recovered(d)
BY RecoveredIs DEF Open

(* ------------------------ what a step leaves --------------------------- *)

\* The images of before, and more; or one of these alone.
Shaped(leaves) ==
  \/ Extends(leaves)
  \/ \E d \in Img \cup leaves : images' = <<d>>
  \/ images' = images

\* An image that says the same as the present directory, or that what was asked for
\* is in force.
Kin(e) == InForce(e) \in {InForce(Disk), txn.after}

\* What a step makes of the triple in force.
Advances ==
  \/ txn'.after = txn.after /\ Follows(InForce(images[1]), InForce(images[1])', txn.after)
  \/ InForce(images[1])' = InForce(images[1])
  \/ /\ InForce(images[1]).source = "static"
     /\ InForce(images[1])' = Keyless(InForce(images[1])) /\ txn'.after = InForce(images[1])'

\* The images a step leaves are shaped by what its call may leave.
LEMMA ShapedImages ==
  ASSUME Typed, NEW leaves \in SUBSET Directory, Disk \in leaves, Shaped(leaves)
  PROVE  /\ Img' \subseteq Img \cup leaves /\ Disk' \in Img' /\ images'[1] \in Img'
         /\ \/ \E d \in Img \cup leaves : images' = <<d>> /\ Img' = {d} /\ Disk' = d /\ images'[1] = d
            \/ images'[1] = images[1] /\ Disk' \in leaves
<1>1. images \in Seq(Directory) /\ Len(images) >= 1 /\ Disk \in Img /\ images[1] \in Img
      /\ (\A d \in Img : d \in Directory)
  BY TypedFacts DEF Typed
<1>2. CASE Extends(leaves)
  <2>1. images' \in Seq(Directory) /\ Len(images') >= 1 /\ images'[1] = images[1]
        /\ Img' \subseteq Img \cup leaves /\ Disk' \in leaves
    BY <1>1, <1>2 DEF Extends
  <2>2. Disk' \in Img' /\ images'[1] \in Img'
    BY <2>1 DEF Disk, Img
  <2>3. QED
    BY <2>1, <2>2
<1>3. ASSUME NEW d \in Img \cup leaves, images' = <<d>>
      PROVE  /\ Img' \subseteq Img \cup leaves /\ Disk' \in Img' /\ images'[1] \in Img'
             /\ Img' = {d} /\ Disk' = d /\ images'[1] = d
  <2>1. d \in Directory
    BY <1>1, <1>3
  <2>2. Img' = {d} /\ Disk' = d /\ Len(images') = 1
    BY <1>3, <2>1, OneImage
  <2>3. images'[1] = d
    BY <1>3
  <2>4. QED
    BY <2>2, <2>3
<1>4. CASE images' = images
  BY <1>1, <1>4 DEF Disk, Img
<1>5. QED
  BY <1>2, <1>3, <1>4 DEF Shaped

\* What was in force before can follow what is durable,
LEMMA KinFollows ==
  ASSUME TInv, TxnInv, NEW x, x \in {InForce(Disk), txn.after}
  PROVE  Follows(InForce(images[1]), x, txn.after) /\ Accounted(x, txn)
<1>1. Disk \in Img
  BY TypedFacts DEF TInv
<1>2. Follows(InForce(images[1]), InForce(Disk), txn.after) /\ Accounted(InForce(Disk), txn)
  BY <1>1 DEF TxnInv, Ordered, Bounded
<1>3. CASE x = txn.after
  BY <1>3 DEF Follows, Accounted
<1>4. QED
  BY <1>2, <1>3

\* and a step that leaves its like keeps what the images say of the transaction.
LEMMA Carried ==
  ASSUME TInv, TxnInv, NEW leaves \in SUBSET Directory, Disk \in leaves, Shaped(leaves),
         txn'.before = txn.before, txn'.after = txn.after, txn'.removes = txn.removes,
         txn'.kept = txn.kept,
         \A e \in leaves : Kin(e),
         \A e \in leaves :
           e.journal = None => \A d \in Img \cup leaves : Plain(d, Triple(images[1]), txn),
         \A d \in Img' : ~txn.kept /\ MayCommit(d) => Settles(d, txn) \/ Excused(d)'
  PROVE  TxnInv' /\ Advances
<1>1. /\ Img' \subseteq Img \cup leaves /\ Disk' \in Img' /\ images'[1] \in Img'
      /\ \/ \E d \in Img \cup leaves : images' = <<d>> /\ Img' = {d} /\ Disk' = d /\ images'[1] = d
         \/ images'[1] = images[1] /\ Disk' \in leaves
  BY ShapedImages DEF TInv
<1>2. \A d : InForce(d)' = InForce(d)
  BY DEF InForce
<1>3. InForce(images[1])' = InForce(images'[1])
  BY <1>2 DEF InForce
<1>4. \A d \in Img \cup leaves : Follows(InForce(images[1]), InForce(d), txn.after)
                                 /\ Accounted(InForce(d), txn)
  <2>1. ASSUME NEW d \in Img
        PROVE  Follows(InForce(images[1]), InForce(d), txn.after) /\ Accounted(InForce(d), txn)
    BY <2>1 DEF TxnInv, Ordered, Bounded
  <2>2. QED
    BY <2>1, KinFollows DEF Kin
<1>5. Ordered'
  <2>1. SUFFICES ASSUME NEW d \in Img' PROVE Follows(InForce(images'[1]), InForce(d), txn.after)
    BY <1>2, <1>3 DEF Ordered
  <2>2. CASE images'[1] = images[1]
    BY <1>1, <1>4, <2>2
  <2>3. CASE images'[1] = d
    BY <2>3 DEF Follows
  <2>4. QED
    BY <1>1, <2>2, <2>3
<1>6. Bounded'
  <2>1. \A d \in Img' : Accounted(InForce(d), txn)
    BY <1>1, <1>4
  <2>2. QED
    BY <1>2, <2>1 DEF Bounded, Accounted
<1>7. Cleared'
  <2>1. SUFFICES ASSUME Disk'.journal = None, NEW d \in Img' PROVE Plain(d, Triple(images'[1]), txn')
    BY DEF Cleared
  <2>2. CASE images'[1] = images[1] /\ Disk' \in leaves
    <3>1. Plain(d, Triple(images[1]), txn)
      BY <1>1, <2>1, <2>2
    <3>2. QED
      BY <2>2, <3>1 DEF Plain
  <2>3. CASE Disk' = d /\ images'[1] = d
    <3>1. Recovered(d) = Triple(d)
      BY <2>1, <2>3 DEF Recovered
    <3>2. QED
      BY <2>3, <3>1 DEF Plain
  <2>4. QED
    BY <1>1, <2>2, <2>3
<1>8. Whole'
  <2>1. ASSUME ~txn'.kept, NEW d \in Img', MayCommit(d) PROVE Settles(d, txn') \/ Excused(d)'
    BY <1>1, <2>1 DEF Settles
  <2>2. QED
    BY <2>1 DEF Whole, MayCommit, Open, MayStillCommit
<1>9. Advances
  BY <1>1, <1>3, <1>4 DEF Advances
<1>10. QED
  BY <1>5, <1>6, <1>7, <1>8, <1>9 DEF TxnInv

\* A step of an invocation with a record, of which no rollback is under way.
Firm(d) == MayCommit(d) => Settles(d, txn)
\* A step on the files of an open record carries the transaction, if no image that
\* may be taken for committed is less than whole.
LEMMA CarriedFirm ==
  ASSUME TInv, TxnInv, NEW leaves \in SUBSET Directory, Disk \in leaves, Shaped(leaves),
         txn'.before = txn.before, txn'.after = txn.after, txn'.removes = txn.removes,
         txn'.kept = txn.kept,
         \A e \in leaves : Kin(e) /\ e.journal # None,
         ~txn.kept => \A d \in Img \cup leaves : Firm(d)
  PROVE  TxnInv' /\ Advances
<1>1. Img' \subseteq Img \cup leaves
  BY ShapedImages DEF TInv
<1>2. QED
  BY <1>1, Carried DEF Firm

\* Outside a recovery and a rollback nothing is excused.
LEMMA FirmImages ==
  ASSUME TxnInv, ~txn.kept, NEW d \in Img,
         \/ pc \notin Midway \cup Before
         \/ d.journal.operation \notin ApiOperations
         \/ ~MayStillCommit(d)
  PROVE  Firm(d)
<1>1. MayCommit(d) /\ d.journal.operation \in ApiOperations => MayStillCommit(d)
  BY DEF MayCommit, StaticOperations, ApiOperations
<1>2. MayCommit(d) => Settles(d, txn) \/ Excused(d)
  BY DEF TxnInv, Whole
<1>3. QED
  BY <1>1, <1>2 DEF Firm, Excused

(* ------------------------- shapes of the calls ------------------------- *)

\* Without the windows every outcome of a call is shaped: of the store,
LEMMA StoreShaped ==
  ASSUME Windows = {}, NEW self, NEW leaves \in SUBSET Directory
  PROVE  /\ NotDone(self, leaves) => Shaped(leaves)
         /\ \A d \in leaves : Completed(d) => Shaped(leaves)
         /\ Lost(leaves) => Shaped(leaves)
BY DEF NotDone, Fails, Cuts, Refuses, Completed, Shaped, Lost

\* and of the runtime.
LEMMA CallShaped ==
  ASSUME Windows = {}, Typed, NEW r, r.source \in {"static", "api"}, r.ok \in BOOLEAN,
         NEW leaves \in SUBSET Directory, Sourced(r.source) \in leaves
  PROVE  CallEnds(r) \/ CallCut(r) => Shaped(leaves)
<1>1. images \in Seq(Directory) /\ Len(images) >= 1
  BY TypedFacts DEF Typed
<1>2. ASSUME images' = LeftOf(r) PROVE Shaped(leaves)
  <2>1. CASE images' = <<Sourced(r.source)>>
    BY <2>1 DEF Shaped
  <2>2. CASE Extends({Sourced(r.source)})
    BY <2>2 DEF Extends, Shaped
  <2>3. QED
    BY <1>1, <1>2, <2>1, <2>2, LeftLands DEF Shaped
<1>3. ASSUME Lost({Sourced(r.source)}) PROVE Shaped(leaves)
  BY <1>3 DEF Lost, Shaped
<1>4. QED
  BY <1>2, <1>3 DEF CallEnds, CallCut

\* A step that writes nothing: a power loss may choose among the images.
LEMMA StillCarried ==
  ASSUME TInv, TxnInv, Shaped({Disk}),
         txn'.before = txn.before, txn'.after = txn.after, txn'.removes = txn.removes,
         txn'.kept = txn.kept,
         \A d \in Img : ~txn.kept /\ MayCommit(d) /\ Excused(d) /\ d.journal = Disk'.journal
                          => Excused(d)'
  PROVE  TxnInv' /\ Advances
<1>1. Disk \in Directory /\ Disk \in Img
  BY TypedFacts DEF TInv
<1>2. /\ Img' \subseteq Img \cup {Disk}
      /\ \/ \E d \in Img \cup {Disk} : images' = <<d>> /\ Img' = {d} /\ Disk' = d
         \/ images'[1] = images[1] /\ Disk' \in {Disk}
  BY <1>1, ShapedImages DEF TInv
<1>3. ASSUME NEW d \in Img', ~txn.kept, MayCommit(d) PROVE Settles(d, txn) \/ Excused(d)'
  <2>1. d \in Img /\ (Disk' = d \/ Disk' = Disk)
    BY <1>1, <1>2, <1>3
  <2>2. Settles(d, txn) \/ Excused(d)
    BY <1>3, <2>1 DEF TxnInv, Whole
  <2>3. Excused(d) => d.journal = Disk'.journal
    BY <2>1 DEF Excused
  <2>4. QED
    BY <1>3, <2>1, <2>2, <2>3
<1>4. Kin(Disk)
  BY DEF Kin
<1>5. Disk.journal = None => \A d \in Img : Plain(d, Triple(images[1]), txn)
  BY DEF TxnInv, Cleared
<1>6. QED
  BY <1>1, <1>3, <1>4, <1>5, Carried

(* ---------------------- where a step leads ----------------------------- *)

\* An invocation that has ended is at work on nothing,
LEMMA IdleWorks ==
  ASSUME pc' = "idle", run' = NoRun, Told(pc, verdict, Disk, Len(images) = 1, txn)'
  PROVE  WorkInv'
<1>1. run'.caller = "none"
  BY DEF NoRun
<1>2. Undoes(pc, run, Disk, Len(images) = 1, wg)'
  BY <1>1 DEF Undoes, RollbackSteps
<1>3. Aims(pc, run, txn)'
  BY <1>1 DEF Aims
<1>4. Halfway(pc, run, Disk, txn)'
  BY <1>1 DEF Halfway, Unwritten, Filed, Standing
<1>5. QED
  BY <1>2, <1>3, <1>4 DEF WorkInv

\* and most ends tell the operator nothing of what is in force.
LEMMA SilentWorks ==
  ASSUME pc' = "idle", run' = NoRun, verdict' \notin {"failed", "done", "kept"}
  PROVE  WorkInv'
BY IdleWorks DEF Told

\* Before an invocation has a record it is at work on nothing,
LEMMA BareWorks ==
  ASSUME pc' \in {"enter", "stop", "discard", "ready"}, run'.caller = "none",
         pc' = "enter" => verdict' \notin {"failed", "done", "kept"}
  PROVE  WorkInv'
BY DEF WorkInv, Undoes, Aims, Halfway, Told, RollbackSteps, Unwritten, Filed, Standing

\* and neither is the part of recovery that decides or proves.
LEMMA RecoveryWorks ==
  ASSUME pc' \in {"reconcile", "unstage", "classify"} \cup CleanSteps \cup Standing,
         run'.caller \in {"recovery", "rollback"},
         pc' \in {"beginProof", "markVerifying"} =>
           run'.journal.operation \in {"api-update", "static"}
  PROVE  WorkInv'
BY DEF WorkInv, Undoes, Aims, Halfway, Told, RollbackSteps, Unwritten, Filed, Standing, CleanSteps

\* An error out of the try block leads to a rollback of what the request found.
LEMMA RaiseWorks ==
  ASSUME NEW self \in RunType, Raise(self), txn'.kept = txn.kept, Disk' \in Directory,
         self.caller = "apply" /\ ~txn.kept =>
           /\ Recovered(Disk') = txn'.before
           /\ MayStillCommit(Disk') => Disk'.staging \cap {"config", "credential"} = {}
           /\ Disk'.journal # None => Disk'.journal.operation = self.journal.operation
  PROVE  WorkInv'
<1>1. CASE /\ pc' = "idle" /\ run' = NoRun
           /\ verdict' \in {"refused", "incomplete", "unfinalized", "committed"}
  BY <1>1, SilentWorks
<1>2. CASE /\ pc' = "idle" /\ run' = NoRun /\ self.caller = "apply" /\ ~txn.kept
           /\ verdict' = "failed" /\ Disk'.journal = None
  <2>1. Triple(Disk') = Recovered(Disk')
    BY <1>2 DEF Recovered
  <2>2. Told(pc, verdict, Disk, Len(images) = 1, txn)'
    BY <1>2, <2>1 DEF Told, Triple
  <2>3. QED
    BY <1>2, <2>2, IdleWorks
<1>3. CASE /\ self.caller = "apply" /\ txn.kept
           /\ pc' = "cleanConfig" /\ run' = [self EXCEPT !.caller = "keep"]
  <2>1. run'.caller = "keep" \/ run'.caller = self.caller
    BY <1>3
  <2>2. QED
    BY <1>3, <2>1 DEF WorkInv, Undoes, Aims, Halfway, Told, RollbackSteps, Unwritten, Filed, Standing
<1>4. CASE /\ self.caller = "apply" /\ ~txn.kept /\ Disk'.journal # None
           /\ pc' = IF self.journal.operation \in ApiOperations THEN "reconcile" ELSE "restoreConfig"
           /\ run' = [self EXCEPT !.caller = "undo"]
  <2>1. run'.caller = "undo" /\ run'.journal = self.journal
    BY <1>4 DEF RunType
  <2>2. pc' = "reconcile" \/ (pc' = "restoreConfig" /\ self.journal.operation \notin ApiOperations)
    BY <1>4
  <2>3. Undoes(pc, run, Disk, Len(images) = 1, wg)'
    BY <1>4, <2>1, <2>2 DEF Undoes, RollbackSteps
  <2>4. Aims(pc, run, txn)'
    BY <2>1, <2>2 DEF Aims
  <2>5. Halfway(pc, run, Disk, txn)'
    BY <1>4, <2>1, <2>2 DEF Halfway, Unwritten, Filed, Standing
  <2>6. Told(pc, verdict, Disk, Len(images) = 1, txn)'
    BY <2>2 DEF Told
  <2>7. QED
    BY <2>3, <2>4, <2>5, <2>6 DEF WorkInv
<1>5. self.caller \in Callers
  BY DEF RunType
<1>6. QED
  BY <1>1, <1>2, <1>3, <1>4, <1>5, RaiseLands

\* A call that is not done ends the invocation, or leads to that rollback.
LEMMA NotDoneWorks ==
  ASSUME TInv, NEW self \in RunType, NEW leaves \in SUBSET Directory, Disk \in leaves,
         NotDone(self, leaves), txn'.kept = txn.kept, txn'.before = txn.before,
         self.caller = "apply" /\ ~txn.kept => \A e \in leaves :
           /\ Recovered(e) = txn.before
           /\ MayStillCommit(e) => e.staging \cap {"config", "credential"} = {}
           /\ e.journal # None => e.journal.operation = self.journal.operation
  PROVE  WorkInv'
<1>1. CASE Cuts(leaves, status)
  BY <1>1, SilentWorks DEF Cuts, End
<1>2. CASE Raise(self) /\ Disk' \in leaves
  BY <1>2, RaiseWorks
<1>3. CASE Fails(self, leaves)
  BY <1>2, <1>3 DEF Fails, Extends
<1>4. CASE Refuses(self)
  BY <1>2, <1>4 DEF Refuses, Disk
<1>5. QED
  BY <1>1, <1>3, <1>4 DEF NotDone

\* The same for a command of the runtime.
LEMMA CallsWork ==
  ASSUME SInv, NEW results, results \subseteq ResultType, NEW ACTION Done, NEW ACTION Failed,
         Calls(results, Done, Failed),
         \A r \in results : r.ok /\ CallEnds(r) /\ Done => WorkInv',
         \A r \in results : ~r.ok /\ CallEnds(r) /\ Failed => WorkInv'
  PROVE  WorkInv'
<1>1. PICK r \in results : \/ CallEnds(r) /\ (IF r.ok THEN Done ELSE Failed)
                           \/ CallCut(r)
  BY DEF Calls
<1>2. CASE CallCut(r)
  BY <1>2, SilentWorks DEF CallCut, End
<1>3. CASE CallEnds(r) /\ (IF r.ok THEN Done ELSE Failed)
  BY <1>1, <1>3
<1>4. QED
  BY <1>1, <1>2, <1>3

\* A completed call leaves one image, of which nothing need be said but itself.
LEMMA CarriedDone ==
  ASSUME TInv, TxnInv, NEW e \in Directory, images' = <<e>>,
         txn'.before = txn.before, txn'.after = txn.after, txn'.removes = txn.removes,
         txn'.kept = txn.kept, Kin(e),
         ~txn.kept /\ MayCommit(e) => Settles(e, txn) \/ Excused(e)'
  PROVE  TxnInv' /\ Advances
<1>1. Img' = {e} /\ Disk' = e /\ images'[1] = e
  BY OneImage
<1>2. \A d : InForce(d)' = InForce(d)
  BY DEF InForce
<1>3. InForce(images[1])' = InForce(e)
  BY <1>1, <1>2 DEF InForce
<1>4. Follows(InForce(images[1]), InForce(e), txn.after) /\ Accounted(InForce(e), txn)
  BY KinFollows DEF Kin
<1>5. Ordered'
  BY <1>1, <1>2, <1>3 DEF Ordered, Follows
<1>6. Bounded'
  BY <1>1, <1>2, <1>4 DEF Bounded, Accounted
<1>7. Cleared'
  BY <1>1 DEF Cleared, Plain, Recovered
<1>8. Whole'
  <2>1. ASSUME ~txn.kept, MayCommit(e) PROVE Settles(e, txn') \/ Excused(e)'
    BY <2>1 DEF Settles
  <2>2. QED
    BY <1>1, <2>1 DEF Whole, MayCommit, Open, MayStillCommit
<1>9. Advances
  BY <1>3, <1>4 DEF Advances
<1>10. QED
  BY <1>5, <1>6, <1>7, <1>8, <1>9 DEF TxnInv

\* A step that keeps the record, and leaves its excuse to what is half done.
LEMMA CarriedHalf ==
  ASSUME TInv, TxnInv, NEW leaves \in SUBSET Directory, Disk \in leaves, Shaped(leaves),
         txn'.before = txn.before, txn'.after = txn.after, txn'.removes = txn.removes,
         txn'.kept = txn.kept,
         \A e \in leaves : Kin(e) /\ e.journal = Disk.journal,
         Disk.journal = None => \A e \in leaves : SameFiles(e, Disk),
         \A e \in leaves : ~txn.kept /\ MayCommit(e) /\ e.journal = Disk'.journal
                             => Settles(e, txn) \/ Excused(e)',
         \A d \in Img : ~txn.kept /\ MayCommit(d) /\ Excused(d) /\ d.journal = Disk'.journal
                          => Excused(d)'
  PROVE  TxnInv' /\ Advances
<1>1. Disk \in Directory /\ Disk \in Img /\ (\A d \in Img : d \in Directory)
  BY TypedFacts DEF TInv
<1>2. /\ Img' \subseteq Img \cup leaves
      /\ \/ \E d \in Img \cup leaves : images' = <<d>> /\ Img' = {d} /\ Disk' = d
         \/ images'[1] = images[1] /\ Disk' \in leaves
  BY ShapedImages DEF TInv
<1>3. ASSUME NEW d \in Img', ~txn.kept, MayCommit(d) PROVE Settles(d, txn) \/ Excused(d)'
  <2>1. CASE d \in leaves
    <3>1. d.journal = Disk'.journal
      BY <1>2, <1>3, <2>1
    <3>2. QED
      BY <1>3, <2>1, <3>1
  <2>2. CASE d \in Img
    <3>1. Settles(d, txn) \/ Excused(d)
      BY <1>3, <2>2 DEF TxnInv, Whole
    <3>2. Disk' = d \/ Disk'.journal = Disk.journal
      BY <1>2, <1>3
    <3>3. Excused(d) => d.journal = Disk'.journal
      BY <3>2 DEF Excused
    <3>4. QED
      BY <1>3, <2>2, <3>1, <3>3
  <2>3. QED
    BY <1>2, <1>3, <2>1, <2>2
<1>4. ASSUME NEW e \in leaves, e.journal = None, NEW d \in Img \cup leaves
      PROVE  Plain(d, Triple(images[1]), txn)
  <2>1. Disk.journal = None
    BY <1>4
  <2>2. \A x \in Img : Plain(x, Triple(images[1]), txn)
    BY <2>1 DEF TxnInv, Cleared
  <2>3. CASE d \in leaves
    <3>1. SameFiles(d, Disk) /\ d \in Directory
      BY <2>1, <2>3
    <3>2. Triple(d) = Triple(Disk) /\ Recovered(d) = Recovered(Disk)
      BY <1>1, <3>1, SameForce
    <3>3. QED
      BY <1>1, <2>2, <3>2 DEF Plain
  <2>4. QED
    BY <1>4, <2>2, <2>3
<1>5. QED
  BY <1>3, <1>4, Carried

\* What makes a directory of the engine a kin of the present one.
LEMMA KinAs ==
  ASSUME NEW d \in Directory, NEW e \in Directory
  PROVE  /\ Triple(e) = Triple(d) /\ Recovered(e) = Recovered(d) => InForce(e) = InForce(d)
         /\ ~txn.kept /\ Recovered(e) = Recovered(d) => InForce(e) = InForce(d)
         /\ SameFiles(e, d) => InForce(e) = InForce(d)
BY SameForce DEF InForce

(* ------------------------ between two invocations ---------------------- *)

\* Without a write, a call leaves the images or one of them.
LEMMA StillShaped ==
  ASSUME SInv, Windows = {}
  PROVE  /\ images' = images => Shaped({Disk})
         /\ \A d \in Img : images' = <<d>> => Shaped({Disk})
         /\ Lost({Disk}) => Shaped({Disk})
         /\ Lost({}) => Shaped({Disk})
BY DEF Shaped, Lost

\* A quiet step: it does not touch the record, and takes no proof from a rollback.
LEMMA QuietCarried ==
  ASSUME SInv, TxnInv, Shut, Windows = {}, pc \in Quiet, pc' \in Quiet \cup {"discard"},
         images' = images \/ \E d \in Img : images' = <<d>>,
         UNCHANGED txn,
         \/ wg'.switching = wg.switching /\ status' \in {status, "stale"}
         \/ ~(txn.undone /\ MayStillCommit(Disk))
  PROVE  TxnInv' /\ Advances
<1>1. TInv /\ Shaped({Disk})
  BY StillShaped DEF SInv
<1>2. ASSUME NEW d \in Img, MayCommit(d), Excused(d), d.journal = Disk'.journal
      PROVE  Excused(d)'
  <2>1. /\ d.journal = Disk.journal /\ d.journal.operation \in ApiOperations /\ txn.undone
        /\ d.journal.phase = "verifying" /\ status = "stale" /\ wg.switching = {}
    BY <1>2 DEF Excused, Midway, Quiet
  <2>2. MayStillCommit(Disk)
    BY <1>2, <2>1 DEF MayCommit, MayStillCommit, Open
  <2>3. wg'.switching = {} /\ status' = "stale"
    BY <2>1, <2>2
  <2>4. pc' \in Before
    BY DEF Quiet, Before
  <2>5. QED
    BY <1>2, <2>1, <2>3, <2>4 DEF Excused
<1>3. QED
  BY <1>1, <1>2, StillCarried

\* A request that is asked for changes nothing on disk and is told nothing yet.
LEMMA AskExact ==
  ASSUME SInv, TxnInv, WorkInv, Shut, Windows = {}, NEW r \in Requests, Ask(r)
  PROVE  TxnInv' /\ WorkInv' /\ Advances
<1>1. /\ pc = "idle" /\ UNCHANGED <<images, wg, status, txn>>
      /\ \/ pc' = "idle" /\ run' = NoRun /\ verdict' \in {"inadmissible", "refused"}
         \/ /\ pc' = "enter" /\ verdict' \in {"unfinalized", "none"}
            /\ run' = [NoRun EXCEPT !.request = r, !.supplied = run'.supplied]
  BY Zenon DEF Ask, End
<1>2. TxnInv' /\ Advances
  BY <1>1, QuietCarried DEF Quiet
<1>3. CASE pc' = "idle" /\ run' = NoRun /\ verdict' \in {"inadmissible", "refused"}
  BY <1>2, <1>3, SilentWorks
<1>4. CASE pc' = "enter" /\ verdict' \in {"unfinalized", "none"}
           /\ run' = [NoRun EXCEPT !.request = r, !.supplied = run'.supplied]
  BY <1>2, <1>4, BareWorks DEF NoRun
<1>5. QED
  BY <1>1, <1>3, <1>4

\* Entering a transaction changes neither the directory nor the request.
LEMMA EnterExact ==
  ASSUME SInv, TxnInv, WorkInv, Shut, Windows = {}, Enter
  PROVE  TxnInv' /\ WorkInv' /\ Advances
<1>1. /\ pc = "enter" /\ UNCHANGED <<images, wg, status, txn>>
      /\ \/ pc' = "idle" /\ run' = NoRun /\ verdict' = "refused"
         \/ pc' = "stop" /\ \E b \in BOOLEAN : run' = [run EXCEPT !.recovering = b]
  <2>1. (Disk.journal # None) \in BOOLEAN
    OBVIOUS
  <2>2. QED
    BY <2>1 DEF Enter, End, Go
<1>2. TxnInv' /\ Advances
  BY <1>1, QuietCarried DEF Quiet
<1>3. CASE pc' = "idle" /\ run' = NoRun /\ verdict' = "refused"
  BY <1>2, <1>3, SilentWorks
<1>4. ASSUME pc' = "stop", NEW b \in BOOLEAN, run' = [run EXCEPT !.recovering = b]
      PROVE  WorkInv'
  <2>1. run.caller = "none" /\ run \in RunType
    BY <1>1, QuietFacts DEF Quiet
  <2>2. run'.caller = "none"
    BY <1>4, <2>1 DEF RunType
  <2>3. QED
    BY <1>4, <2>2, BareWorks
<1>5. QED
  BY <1>1, <1>2, <1>3, <1>4

\* Nor does stopping the units.
LEMMA StopExact ==
  ASSUME SInv, TxnInv, WorkInv, Shut, Windows = {}, StopUnits
  PROVE  TxnInv' /\ WorkInv' /\ Advances
<1>1. /\ pc = "stop" /\ UNCHANGED <<wg, txn>>
      /\ \/ pc' = "discard" /\ run' = run /\ UNCHANGED <<images, status>>
         \/ pc' = "idle" /\ run' = NoRun /\ verdict' = "refused" /\ UNCHANGED <<images, status>>
         \/ Killed(images, status)
  BY DEF StopUnits, End, Go
<1>2. Survivors(images) = Img
  BY SurvivorsHere
<1>3. Killed(images, status) =>
        /\ pc' = "idle" /\ run' = NoRun /\ verdict' = "killed"
        /\ \/ images' = images /\ status' = status
           \/ status' = "stale" /\ \E d \in Img : images' = <<d>>
  BY <1>2 DEF Killed, End
<1>4. TxnInv' /\ Advances
  BY <1>1, <1>3, QuietCarried DEF Quiet
<1>5. CASE pc' = "idle" /\ run' = NoRun /\ verdict' \in {"refused", "killed"}
  BY <1>4, <1>5, SilentWorks
<1>6. CASE pc' = "discard" /\ run' = run
  <2>1. run.caller = "none"
    BY <1>1, QuietFacts DEF Quiet
  <2>2. QED
    BY <1>4, <1>6, <2>1, BareWorks
<1>7. QED
  BY <1>1, <1>3, <1>4, <1>5, <1>6

\* A dry run changes nothing the transaction is about.
LEMMA PreviewExact ==
  ASSUME SInv, TxnInv, WorkInv, Shut, Windows = {}, Preview
  PROVE  TxnInv' /\ WorkInv' /\ Advances
<1>1. pc = "idle" /\ UNCHANGED <<images, status, pc, run, verdict, txn>>
      /\ wg' = [wg EXCEPT !.candidate = TRUE]
  BY DEF Preview
<1>2. wg'.switching = wg.switching
  BY <1>1 DEF SInv, TInv, Typed, Host
<1>3. TxnInv' /\ Advances
  BY <1>1, <1>2, QuietCarried DEF Quiet
<1>4. run = NoRun
  BY <1>1 DEF SInv, TInv, Control, CallerAt
<1>5. Told(pc, verdict, Disk, Len(images) = 1, txn)'
  BY <1>1 DEF WorkInv, Told, Disk, Triple
<1>6. QED
  BY <1>1, <1>3, <1>4, <1>5, IdleWorks

\* Nor does a health check between two invocations.
LEMMA CheckExact ==
  ASSUME SInv, TxnInv, WorkInv, Shut, Windows = {}, Check
  PROVE  TxnInv' /\ WorkInv' /\ Advances
<1>1. /\ pc \in {"idle", "enter"} /\ UNCHANGED <<images, pc, run, verdict, txn>>
      /\ ~(txn.undone /\ MayStillCommit(Disk))
  BY DEF Check
<1>2. TxnInv' /\ Advances
  BY <1>1, QuietCarried DEF Quiet
<1>3. Told(pc, verdict, Disk, Len(images) = 1, txn)'
  BY <1>1 DEF WorkInv, Told, Disk, Triple
<1>4. CASE pc = "idle"
  <2>1. run = NoRun
    BY <1>4 DEF SInv, TInv, Control, CallerAt
  <2>2. QED
    BY <1>1, <1>2, <1>3, <1>4, <2>1, IdleWorks
<1>5. CASE pc = "enter"
  <2>1. run'.caller = "none"
    BY <1>1, <1>5, QuietFacts DEF Quiet
  <2>2. verdict' \notin {"failed", "done", "kept"}
    BY <1>1, <1>5 DEF WorkInv, Told
  <2>3. QED
    BY <1>1, <1>2, <1>5, <2>1, <2>2, BareWorks
<1>6. QED
  BY <1>1, <1>4, <1>5

\* After a power loss one of the images is the directory, and any of them was in force already.
LEMMA PowerLossExact ==
  ASSUME SInv, TxnInv, WorkInv, Shut, Windows = {}, PowerLoss
  PROVE  TxnInv' /\ WorkInv' /\ Advances
<1>1. /\ pc \in {"idle", "enter"} /\ status' = "stale" /\ UNCHANGED <<wg, txn>>
      /\ pc' = "idle" /\ run' = NoRun
      /\ verdict' = IF verdict \in Committed THEN verdict ELSE "killed"
  BY DEF PowerLoss, End
<1>2. PICK d \in Img : images' = <<d>>
  BY SurvivorsHere DEF PowerLoss
<1>3. TxnInv' /\ Advances
  BY <1>1, <1>2, QuietCarried DEF Quiet
<1>4. d \in Directory /\ Img' = {d} /\ Disk' = d /\ Len(images') = 1
  BY <1>2, OneImage, HostFacts
<1>5. CASE verdict' \notin {"failed", "done", "kept"}
  BY <1>1, <1>3, <1>5, SilentWorks
<1>6. CASE verdict' \in {"failed", "done", "kept"}
  <2>1. verdict' = verdict /\ verdict \in {"done", "kept"} /\ pc = "idle"
    BY <1>1, <1>6 DEF Committed, WorkInv, Told
  <2>2. verdict = "done" => Img = {Disk}
    <3>1. verdict = "done" => Len(images) = 1
      BY <2>1 DEF WorkInv, Told
    <3>2. QED
      BY <3>1 DEF Img, Disk
  <2>3. Told(pc, verdict, Disk, Len(images) = 1, txn)'
    BY <1>1, <1>4, <2>1, <2>2 DEF WorkInv, Told, Triple
  <2>4. QED
    BY <1>1, <1>3, <2>3, IdleWorks
<1>7. QED
  BY <1>5, <1>6

(* ------------------------------ recovery ------------------------------- *)

\* What is excused of an image is said of the record in place,
LEMMA ExcusedFacts ==
  ASSUME NEW d, MayCommit(d), Excused(d)
  PROVE  /\ d.journal = Disk.journal /\ Open(Disk) /\ MayCommit(Disk)
         /\ d.journal.operation \in ApiOperations /\ MayStillCommit(Disk)
         /\ txn.undone /\ wg.switching = {}
         /\ pc \in Midway \/ (d.journal.phase = "verifying" /\ status = "stale" /\ pc \in Before)
<1>1. d.journal.operation \notin StaticOperations
  BY DEF Excused, ApiOperations, StaticOperations
<1>2. QED
  BY <1>1 DEF Excused, MayCommit, MayStillCommit, Open

\* and is said as long as a rollback is under way, or no proof follows.
LEMMA ExcusedStays ==
  ASSUME NEW d, d.journal = Disk'.journal, d.journal.operation \in ApiOperations,
         txn'.undone, wg'.switching = {},
         pc' \in Midway \/ (d.journal.phase = "verifying" /\ status' = "stale" /\ pc' \in Before)
  PROVE  Excused(d)'
BY DEF Excused

\* A command that leaves the source writes nothing.
LEMMA CallsCarried ==
  ASSUME SInv, TxnInv, Shut, Windows = {}, UNCHANGED txn,
         NEW results, \A r \in results : r \in ResultType /\ r.source = Disk.config.source,
         NEW ACTION Done, NEW ACTION Failed, Calls(results, Done, Failed),
         \A d \in Img : ~txn.kept /\ MayCommit(d) /\ Excused(d) /\ d.journal = Disk'.journal
                          => Excused(d)'
  PROVE  TxnInv' /\ Advances
<1>1. PICK r \in results : CallEnds(r) \/ CallCut(r)
  BY DEF Calls
<1>2. images' = images \/ Lost({Disk})
  BY <1>1, SourceKept
<1>3. Shaped({Disk}) /\ TInv
  BY <1>2, StillShaped DEF SInv
<1>4. QED
  BY <1>3, StillCarried

\* The two steps of recovery that call on the runtime, whatever comes of the call.
LEMMA RecoveryExact ==
  ASSUME SInv, TxnInv, WorkInv, Shut, Windows = {}, pc \in {"reconcile", "unstage"}, UNCHANGED txn,
         NEW next \in {"unstage", "classify", "unadopt"},
         next = "classify" => run.caller = "recovery",
         next = "unadopt" => run.caller # "recovery",
         NEW results,
         \A r \in results : /\ r \in ResultType /\ r.source = Disk.config.source
                            /\ r.ok => r.wg.switching = {}
                            /\ wg.switching = {} => r.wg.switching = {} /\ r.status = status,
         \/ Calls(results, Go(next, run), Raise(run))
         \/ /\ wg.switching = {} /\ UNCHANGED <<images, status, faults, wg>> /\ Go(next, run)
  PROVE  TxnInv' /\ WorkInv' /\ Advances
<1>1. /\ TInv /\ run.caller \in {"recovery", "rollback", "undo"} /\ run \in RunType
      /\ Disk \in Directory
  BY RecoveringFacts, RunFacts, HostFacts
<1>2. ASSUME images' = images, Go(next, run), wg'.switching = {} PROVE WorkInv'
  <2>1. Disk' = Disk /\ pc' = next /\ run' = run
    BY <1>2 DEF Disk, Go
  <2>2. Undoes(pc, run, Disk, Len(images) = 1, wg)'
    BY <1>2, <2>1 DEF WorkInv, Undoes, MayStillCommit
  <2>3. Aims(pc, run, txn)'
    BY <1>1, <2>1 DEF Aims
  <2>4. Halfway(pc, run, Disk, txn)'
    BY <1>1, <2>1 DEF WorkInv, Halfway, Unwritten, Filed, Standing, Recovered, Triple
  <2>5. Told(pc, verdict, Disk, Len(images) = 1, txn)'
    BY <2>1 DEF Told
  <2>6. QED
    BY <2>2, <2>3, <2>4, <2>5 DEF WorkInv
<1>3. ASSUME Raise(run) PROVE pc' = "idle" /\ run' = NoRun /\ verdict' \in {"refused", "incomplete"}
  BY <1>1, <1>3, RaiseLands DEF RunType
<1>4. ASSUME NEW d \in Img, MayCommit(d), Excused(d), d.journal = Disk'.journal,
             wg'.switching = {}, status' \in {status, "stale"}, pc' \in {next, "idle"}
      PROVE  Excused(d)'
  <2>1. /\ d.journal.operation \in ApiOperations /\ txn.undone
        /\ d.journal.phase = "verifying" /\ status = "stale"
    BY <1>4, ExcusedFacts DEF Midway
  <2>2. pc' \in Before /\ status' = "stale"
    BY <1>4, <2>1 DEF Before
  <2>3. QED
    BY <1>4, <2>1, <2>2, ExcusedStays
<1>5. CASE wg.switching = {} /\ UNCHANGED <<images, status, faults, wg>> /\ Go(next, run)
  <2>1. Shaped({Disk})
    BY <1>5, StillShaped
  <2>2. pc' = next
    BY <1>5 DEF Go
  <2>3. TxnInv' /\ Advances
    BY <1>1, <1>4, <1>5, <2>1, <2>2, StillCarried
  <2>4. QED
    BY <1>2, <1>5, <2>3
<1>6. CASE Calls(results, Go(next, run), Raise(run))
  <2>1. PICK r \in results : \/ CallEnds(r) /\ (IF r.ok THEN Go(next, run) ELSE Raise(run))
                             \/ CallCut(r)
    BY <1>6 DEF Calls
  <2>2. /\ r \in ResultType /\ r.source = Disk.config.source
        /\ r.ok => r.wg.switching = {}
        /\ wg.switching = {} => r.wg.switching = {} /\ r.status = status
    OBVIOUS
  <2>3. wg' = r.wg /\ status' \in {r.status, "stale"} /\ pc' \in {next, "idle"}
    BY <1>3, <2>1 DEF CallEnds, CallCut, Go, End
  <2>4. ASSUME NEW d \in Img, MayCommit(d), Excused(d), d.journal = Disk'.journal
        PROVE  Excused(d)'
    <3>1. wg.switching = {}
      BY <2>4, ExcusedFacts
    <3>2. QED
      BY <1>4, <2>2, <2>3, <2>4, <3>1
  <2>5. TxnInv' /\ Advances
    BY <1>6, <2>4, CallsCarried
  <2>6. ASSUME NEW s \in results, s.ok, CallEnds(s), Go(next, run) PROVE WorkInv'
    BY <1>2, <2>6, CallStill DEF CallEnds
  <2>7. ASSUME NEW s \in results, ~s.ok, CallEnds(s), Raise(run) PROVE WorkInv'
    BY <1>3, <2>7, SilentWorks
  <2>8. results \subseteq ResultType
    OBVIOUS
  <2> HIDE DEF Calls
  <2>9. WorkInv'
    BY <1>6, <2>6, <2>7, <2>8, CallsWork
  <2>10. QED
    BY <2>5, <2>9
<1>7. QED
  BY <1>5, <1>6

\* Reconcile keeps what the images and the invocation say of the transaction.
LEMMA ReconcileExact ==
  ASSUME SInv, TxnInv, WorkInv, Shut, Windows = {}, Reconcile
  PROVE  TxnInv' /\ WorkInv' /\ Advances
<1>1. /\ pc = "reconcile" /\ UNCHANGED <<timer, txn>>
      /\ \/ /\ wg.switching = {} /\ UNCHANGED <<images, status, faults, wg>>
            /\ Go("unstage", run)
         \/ wg.switching # {} /\ Calls(CheckResults, Go("unstage", run), Raise(run))
  BY HostFacts, ReconcileLands
<1>2. CASE wg.switching = {} /\ UNCHANGED <<images, status, faults, wg>> /\ Go("unstage", run)
  <2>1. \A r \in {} : /\ r \in ResultType /\ r.source = Disk.config.source
                      /\ r.ok => r.wg.switching = {}
                      /\ wg.switching = {} => r.wg.switching = {} /\ r.status = status
    OBVIOUS
  <2>2. QED
    BY <1>1, <1>2, <2>1, RecoveryExact
<1>3. CASE wg.switching # {} /\ Calls(CheckResults, Go("unstage", run), Raise(run))
  <2>1. \A r \in CheckResults : /\ r \in ResultType /\ r.source = Disk.config.source
                                /\ r.ok => r.wg.switching = {}
                                /\ wg.switching = {} => r.wg.switching = {} /\ r.status = status
    BY <1>3, CheckKeeps DEF SparesRestored
  <2>2. QED
    BY <1>1, <1>3, <2>1, RecoveryExact
<1>4. QED
  BY <1>1, <1>2, <1>3

\* CleanupCandidate keeps what the images and the invocation say of the transaction.
LEMMA CleanupCandidateExact ==
  ASSUME SInv, TxnInv, WorkInv, Shut, Windows = {}, CleanupCandidate
  PROVE  TxnInv' /\ WorkInv' /\ Advances
<1> DEFINE next == IF run.caller = "recovery" THEN "classify" ELSE "unadopt"
<1>1. /\ pc = "unstage" /\ UNCHANGED <<timer, txn>>
      /\ \/ /\ ~wg.candidate /\ UNCHANGED <<images, status, faults, wg>>
            /\ Go(next, run)
         \/ wg.candidate /\ Calls(CandidateResults, Go(next, run), Raise(run))
  BY HostFacts, CleanupCandidateLands
<1>2. wg.switching = {}
  BY <1>1 DEF SInv, RunInv, Runs, Backed
<1>3. ASSUME NEW r \in CandidateResults
      PROVE  /\ r \in ResultType /\ r.source = Disk.config.source
             /\ r.wg.switching = {} /\ r.status = status
  <2>1. r \in ResultType
    BY CandidateTypes, HostFacts
  <2>2. /\ r.source = Disk.config.source /\ r.wg \in {wg, [wg EXCEPT !.candidate = FALSE]}
        /\ r.status = status
    BY DEF CandidateResults, Failures, Result
  <2>3. r.wg.switching = wg.switching
    BY <2>2, CandidateKeeps
  <2>4. QED
    BY <1>2, <2>1, <2>2, <2>3
<1>4. next \in {"classify", "unadopt"} /\ (next = "classify" => run.caller = "recovery")
      /\ (next = "unadopt" => run.caller # "recovery")
  OBVIOUS
<1> HIDE DEF next
<1>5. QED
  BY <1>1, <1>2, <1>3, <1>4, RecoveryExact

\* Discard keeps what the images and the invocation say of the transaction.
LEMMA DiscardExact ==
  ASSUME SInv, TxnInv, WorkInv, Shut, Windows = {}, DiscardStaging
  PROVE  TxnInv' /\ WorkInv' /\ Advances
<1> DEFINE after == [Disk EXCEPT !.staging = @ \ PrivateTargets]
<1> DEFINE leaves == {[Disk EXCEPT !.staging = @ \ gone] : gone \in SUBSET PrivateTargets}
<1> DEFINE Reads ==
      \/ /\ Disk.journal # None /\ pc' = "reconcile" /\ verdict' = verdict
         /\ run' = [run EXCEPT !.caller = "recovery", !.journal = Disk.journal]
      \/ /\ SetupArtifactsClear(after) /\ Disk.journal = None
         /\ pc' = "ready" /\ run' = run /\ verdict' = verdict
      \/ /\ Disk.journal = None /\ ~SetupArtifactsClear(after) /\ End("stuck")
<1>1. /\ pc = "discard" /\ UNCHANGED <<wg, timer, txn>>
      /\ \/ /\ Completed(after) \/ (after = Disk /\ UNCHANGED <<images, status, faults>>)
            /\ Reads
         \/ NotDone(run, leaves)
  BY HostFacts, DiscardLands
<1>2. Disk \in Directory /\ TInv /\ run \in RunType
  BY HostFacts, RunFacts
<1>3. run.caller = "none"
  BY <1>1, <1>2 DEF TInv, Control, CallerAt
<1>4. \A e \in leaves : e \in Directory /\ SameFiles(e, Disk)
  BY <1>2 DEF Directory, SameFiles
<1>5. after \in leaves /\ Disk \in leaves
  <2>1. PrivateTargets \in SUBSET PrivateTargets /\ {} \in SUBSET PrivateTargets
    OBVIOUS
  <2>2. Disk = [Disk EXCEPT !.staging = @ \ {}]
    BY <1>2 DEF Directory
  <2>3. QED
    BY <2>1, <2>2
<1> HIDE DEF after, leaves
<1>6. ASSUME Reads PROVE WorkInv' /\ (Disk.journal # None => pc' = "reconcile")
  <2>1. CASE pc' = "reconcile" /\ run' = [run EXCEPT !.caller = "recovery", !.journal = Disk.journal]
    <3>1. run'.caller = "recovery"
      BY <1>2, <2>1 DEF RunType
    <3>2. QED
      BY <2>1, <3>1, RecoveryWorks
  <2>2. CASE pc' = "ready" /\ run' = run
    BY <1>3, <1>6, <2>2, BareWorks
  <2>3. CASE End("stuck")
    BY <1>6, <2>3, SilentWorks DEF End
  <2>4. QED
    BY <1>6, <2>1, <2>2, <2>3
<1>7. WorkInv'
  BY <1>1, <1>2, <1>3, <1>4, <1>5, <1>6, NotDoneWorks
<1>8. Shaped(leaves) /\ status' \in {status, "stale"}
      /\ (Disk.journal # None => pc' \in {"reconcile", "idle"})
  <2>1. CASE NotDone(run, leaves)
    <3>1. Shaped(leaves)
      BY <1>4, <2>1, StoreShaped
    <3>2. Raise(run) => pc' = "idle"
      BY <1>2, <1>3, RaiseLands DEF RunType
    <3>3. QED
      BY <2>1, <3>1, <3>2 DEF NotDone, Fails, Cuts, Refuses, End
  <2>2. CASE (Completed(after) \/ (after = Disk /\ UNCHANGED <<images, status, faults>>)) /\ Reads
    <3>1. Shaped(leaves)
      BY <1>4, <1>5, <2>2, StoreShaped DEF Shaped
    <3>2. QED
      BY <1>6, <2>2, <3>1 DEF Completed
  <2>3. QED
    BY <1>1, <2>1, <2>2
<1>9. ASSUME NEW d, MayCommit(d), d.journal = Disk'.journal, Excused(d) PROVE Excused(d)'
  <2>1. /\ Disk.journal # None /\ d.journal.operation \in ApiOperations /\ txn.undone
        /\ d.journal.phase = "verifying" /\ status = "stale" /\ wg.switching = {}
    BY <1>1, <1>9, ExcusedFacts DEF Midway, Open
  <2>2. pc' \in Before /\ status' = "stale"
    BY <1>8, <2>1 DEF Before
  <2>3. QED
    BY <1>1, <1>9, <2>1, <2>2, ExcusedStays
<1>10. ASSUME NEW e \in leaves, ~txn.kept, MayCommit(e), e.journal = Disk'.journal
       PROVE  Settles(e, txn) \/ Excused(e)'
  <2>1. /\ Triple(e) = Triple(Disk) /\ Recovered(e) = Recovered(Disk) /\ MayCommit(Disk)
        /\ e.journal = Disk.journal
    BY <1>2, <1>4, <1>10, SameForce DEF SameFiles
  <2>2. Settles(Disk, txn) \/ Excused(Disk)
    BY <1>10, <2>1, HostFacts DEF TxnInv, Whole
  <2>3. Excused(Disk) => Excused(e)
    BY <2>1 DEF Excused
  <2>4. QED
    BY <1>9, <1>10, <2>1, <2>2, <2>3 DEF Settles
<1>11. \A e \in leaves : Kin(e) /\ e.journal = Disk.journal
  BY <1>2, <1>4, KinAs DEF Kin, SameFiles
<1>12. TxnInv' /\ Advances
  BY <1>1, <1>2, <1>4, <1>5, <1>8, <1>9, <1>10, <1>11, CarriedHalf
<1>13. QED
  BY <1>7, <1>12

\* Recovery takes a proof for one only when the status says so, and begins one
\* only for a request whose source does not change at the commit.
LEMMA ClassifyProves ==
  ASSUME SInv, Classify
  PROVE  /\ pc' = "markVerified" => status = "good" /\ run.journal.phase = "verifying"
         /\ pc' = "beginProof" =>
              run.journal.phase = "activated" /\ run.journal.operation \in {"api-update", "static"}
<1> DEFINE j == run.journal
<1> DEFINE restoring == /\ j.operation = "static-restore"
                        /\ j.phase \in {"activating", "activated", "verifying"}
<1> DEFINE keeps == restoring /\ StaticRestoreIsVisible
<1>1. pc = "classify" /\ ~(restoring /\ StaticRestoreIsUnreadable)
  <2>1. pc = "classify"
    BY DEF Classify
  <2>2. restoring <=> Underway(Disk)
    BY <2>1, ClassifyingFacts, RestoringUnderway DEF Restoring
  <2>3. QED
    BY <2>1, <2>2, StandingSeen
<1>2. CASE j.phase \in ClosedPhases \/ keeps
  <2>1. Go("cleanConfig", run)
    BY <1>1, <1>2 DEF Classify, ClosedPhases
  <2>2. QED
    BY <2>1 DEF Go
<1>3. CASE ~(j.phase \in ClosedPhases \/ keeps)
  <2>1. CASE j.phase = "verifying" /\ status = "good"
    BY <1>1, <1>3, <2>1 DEF Classify, ClosedPhases, Go
  <2>2. CASE j.phase = "activated" /\ j.operation \in {"api-update", "static"}
    BY <1>1, <1>3, <2>2 DEF Classify, ClosedPhases, Go
  <2>3. CASE /\ ~(j.phase = "verifying" /\ status = "good")
             /\ ~(j.phase = "activated" /\ j.operation \in {"api-update", "static"})
    <3>1. RollBack(run)
      BY <1>1, <1>3, <2>3 DEF Classify, ClosedPhases
    <3>2. pc' \in {"reconcile", "restoreConfig"}
      BY <3>1 DEF RollBack, Go
    <3>3. QED
      BY <3>2
  <2>4. QED
    BY <2>1, <2>2, <2>3
<1>4. QED
  BY <1>2, <1>3

\* Once a restored static profile is seen to stand it is in force.
LEMMA KeptInForce ==
  ASSUME TInv, TxnInv, ~txn.kept, txn'.kept, Img = {Disk}, images' = images,
         Disk.journal # None, Settles(Disk, txn), InForce(Disk) = Recovered(Disk),
         txn'.before = txn.before, txn'.after = txn.after, txn'.removes = txn.removes
  PROVE  TxnInv' /\ Advances
<1>1. images[1] = Disk /\ Img' = Img /\ Disk' = Disk /\ images'[1] = Disk /\ Disk \in Img
  BY TypedFacts DEF TInv, Img, Disk
<1>2. \A d : InForce(d)' = Triple(d)
  BY DEF InForce, Triple
<1>3. Triple(Disk) \in {txn.after, InForce(Disk)}
  BY DEF Settles
<1>4. InForce(images[1])' = Triple(Disk)
  BY <1>1, <1>2 DEF InForce
<1>5. Accounted(InForce(Disk), txn)
  BY <1>1 DEF TxnInv, Bounded
<1>6. Ordered'
  BY <1>1, <1>2, <1>4 DEF Ordered, Follows
<1>7. Bounded'
  BY <1>1, <1>2, <1>3, <1>5 DEF Bounded, Accounted
<1>8. Cleared' /\ Whole'
  BY <1>1 DEF Cleared, Whole
<1>9. Advances
  BY <1>1, <1>3, <1>4 DEF Advances, Follows
<1>10. QED
  BY <1>6, <1>7, <1>8, <1>9 DEF TxnInv

\* Classify keeps what the images and the invocation say of the transaction.
LEMMA ClassifyExact ==
  ASSUME SInv, TxnInv, WorkInv, Shut, Windows = {}, Classify
  PROVE  TxnInv' /\ WorkInv' /\ Advances
<1> DEFINE j == run.journal
<1> DEFINE keeps == Underway(Disk) /\ StaticRestoreIsVisible
<1>1. /\ pc = "classify" /\ UNCHANGED <<images, wg, status, timer, faults>>
      /\ txn'.kept = (txn.kept \/ (keeps /\ Len(images) = 1)) /\ verdict' = verdict
      /\ \/ /\ j.phase \in ClosedPhases \/ keeps
            /\ pc' = "cleanConfig" /\ run' = run
         \/ /\ ~keeps /\ j.phase \notin ClosedPhases /\ j.phase \in {"activated", "verifying"}
            /\ j.operation # "static-restore"
            /\ pc' \in {"markVerified", "beginProof"} /\ run' = run
         \/ /\ ~keeps /\ j.phase \notin ClosedPhases
            /\ pc' = UndoStep(run) /\ run' = [run EXCEPT !.caller = "rollback"]
  BY ClassifyLands
<1>2. /\ TInv /\ run.caller = "recovery" /\ run.journal = Disk.journal /\ Disk.journal # None
      /\ wg.switching = {} /\ run \in RunType /\ txn \in TxnType
      /\ Disk \in Directory /\ Disk \in Img /\ Disk' = Disk
  BY <1>1, ClassifyingFacts, HostFacts, Hosted DEF Disk
<1>3. txn'.before = txn.before /\ txn'.after = txn.after /\ txn'.removes = txn.removes
      /\ txn'.undone = txn.undone
  <2>1. \E k : txn' = [txn EXCEPT !.kept = k]
    BY DEF Classify
  <2>2. QED
    BY <1>2, <2>1 DEF TxnType
<1> HIDE DEF keeps
<1>4. WorkInv'
  <2>1. CASE pc' \in {"cleanConfig", "markVerified", "beginProof"} /\ run' = run
    BY <1>2, <2>1, ClassifyProves, RecoveryWorks DEF CleanSteps, Standing
  <2>2. CASE pc' = UndoStep(run) /\ run' = [run EXCEPT !.caller = "rollback"]
    <3>1. run'.caller = "rollback" /\ run'.journal = run.journal
      BY <1>2, <2>2 DEF RunType
    <3>2. CASE pc' = "reconcile"
      BY <3>1, <3>2, RecoveryWorks
    <3>3. CASE pc' = "restoreConfig" /\ Disk'.journal.operation \notin ApiOperations
      <4>1. Undoes(pc, run, Disk, Len(images) = 1, wg)'
        BY <3>1, <3>3 DEF Undoes
      <4>2. Aims(pc, run, txn)' /\ Halfway(pc, run, Disk, txn)' /\ Told(pc, verdict, Disk, Len(images) = 1, txn)'
        BY <3>1, <3>3 DEF Aims, Halfway, Told, Unwritten, Filed, Standing
      <4>3. QED
        BY <4>1, <4>2 DEF WorkInv
    <3>4. QED
      BY <1>2, <2>2, <3>2, <3>3 DEF UndoStep
  <2>3. QED
    BY <1>1, <2>1, <2>2
<1>5. CASE txn'.kept = txn.kept
  <2>1. ASSUME NEW d \in Img, MayCommit(d), Excused(d) PROVE Excused(d)'
    <3>1. /\ d.journal = Disk.journal /\ d.journal.operation \in ApiOperations /\ txn.undone
          /\ d.journal.phase = "verifying" /\ status = "stale" /\ Open(Disk)
      BY <1>1, <2>1, ExcusedFacts DEF Midway
    <3>2. ~keeps /\ j.phase \notin ClosedPhases
      BY <1>2, <3>1 DEF keeps, Underway, Open, ApiOperations
    <3>3. pc' = "reconcile"
      BY <1>1, <1>2, <3>1, <3>2, ClassifyProves DEF UndoStep
    <3>4. QED
      BY <1>1, <1>2, <1>3, <3>1, <3>3, ExcusedStays DEF Before
  <2>2. Shaped({Disk})
    BY <1>1, StillShaped
  <2>3. TxnInv' /\ Advances
    BY <1>2, <1>3, <1>5, <2>1, <2>2, StillCarried
  <2>4. QED
    BY <1>4, <2>3
<1>6. CASE txn'.kept # txn.kept
  <2>1. ~txn.kept /\ txn'.kept /\ keeps /\ Len(images) = 1
    BY <1>1, <1>2, <1>6 DEF TxnType
  <2>2. Img = {Disk}
    BY <2>1 DEF Img, Disk
  <2>3. MayCommit(Disk) /\ Disk.journal.operation \notin ApiOperations
    BY <2>1 DEF keeps, Underway, MayCommit, StaticOperations, ApiOperations
  <2>4. Settles(Disk, txn)
    BY <1>2, <2>1, <2>3 DEF TxnInv, Whole, Excused
  <2>5. InForce(Disk) = Recovered(Disk)
    BY <2>1 DEF InForce
  <2>6. QED
    BY <1>1, <1>2, <1>3, <1>4, <2>1, <2>2, <2>4, <2>5, KeptInForce
<1>7. QED
  BY <1>5, <1>6

(* ------------------------- applying a request -------------------------- *)

\* A step of the try block that leaves what is in force: completed, or given up.
LEMMA ApplyExact ==
  ASSUME SInv, TxnInv, WorkInv, Shut, Windows = {}, run.caller = "apply",
         pc \in ApplySteps \cup ProofSteps, UNCHANGED txn,
         NEW leaves \in SUBSET Directory, Disk \in leaves, NEW after \in leaves,
         NEW held \in RunType, held.caller = "apply",
         \A e \in leaves :
           /\ e.journal # None /\ e.journal.operation = held.journal.operation
           /\ txn.kept => Triple(e) = Triple(Disk)
           /\ ~txn.kept => /\ Recovered(e) = Recovered(Disk) /\ Firm(e)
                           /\ MayStillCommit(e) => e.staging \cap {"config", "credential"} = {},
         \/ Completed(after) /\ WorkInv'
         \/ NotDone(held, leaves)
  PROVE  TxnInv' /\ WorkInv' /\ Advances
<1>1. TInv /\ txn \in TxnType
  BY HostFacts, Hosted
<1>2. Shaped(leaves)
  BY StoreShaped
<1>3. \A e \in leaves : Kin(e) /\ e.journal # None
  BY <1>1 DEF Kin, InForce, TxnType
<1>4. pc \notin Midway \cup Before
  BY DEF ApplySteps, ProofSteps, Midway, Before
<1>5. ~txn.kept => \A d \in Img \cup leaves : Firm(d)
  BY <1>4, FirmImages
<1>6. TxnInv' /\ Advances
  BY <1>1, <1>2, <1>3, <1>5, CarriedFirm
<1>7. CASE NotDone(held, leaves)
  <2>1. ~txn.kept => Recovered(Disk) = txn.before
    BY DEF WorkInv, Halfway
  <2>2. WorkInv'
    BY <1>1, <1>7, <2>1, NotDoneWorks
  <2>3. QED
    BY <1>6, <2>2
<1>8. QED
  BY <1>6, <1>7

\* An invocation that goes on applying is as far as its step says.
LEMMA ApplyWorks ==
  ASSUME WorkInv, run.caller = "apply", run'.caller = "apply", run'.request = run.request,
         run'.supplied = run.supplied, run'.journal.keyChanged = run.journal.keyChanged,
         txn'.before = txn.before, txn'.after = txn.after,
         pc' \in ApplySteps \cup ProofSteps,
         ~txn'.kept => Recovered(Disk') = txn.before,
         pc' \in Unwritten => Triple(Disk') = txn.before,
         pc' \in Filed =>
           /\ Disk'.config = [source |-> txn.before.source, settings |-> txn.after.settings]
           /\ Disk'.credential = IF pc' \in {"markConfig", "writeKey"} THEN txn.before.key
                                                                      ELSE txn.after.key,
         pc' \in Standing => Triple(Disk') = txn.after
  PROVE  WorkInv'
<1>1. pc' \notin {"validate", "idle", "enter"} \cup RollbackSteps
  BY DEF ApplySteps, ProofSteps, RollbackSteps
<1>2. Undoes(pc, run, Disk, Len(images) = 1, wg)'
  BY <1>1 DEF Undoes, RollbackSteps
<1>3. Aims(pc, run, txn)'
  BY DEF WorkInv, Aims
<1>4. Halfway(pc, run, Disk, txn)'
  BY <1>1 DEF Halfway, Recovered, Triple
<1>5. Told(pc, verdict, Disk, Len(images) = 1, txn)'
  BY <1>1 DEF Told
<1>6. QED
  BY <1>2, <1>3, <1>4, <1>5 DEF WorkInv

\* The record moves to its next phase: what is in force stays.
LEMMA PhasedForms ==
  ASSUME NEW d \in Directory, Open(d), NEW j \in Journal, j # None, Record(j) = Record(d.journal),
         j.phase \notin ClosedPhases, NEW e \in WriteLeaves(d, "journal", j)
  PROVE  /\ e \in Directory /\ e.journal \in {d.journal, j} /\ e.config = d.config /\ e.credential = d.credential
         /\ Triple(e) = Triple(d) /\ Recovered(e) = Recovered(d)
         /\ e.staging \subseteq d.staging \cup {"journal"} /\ e.journal # None
         /\ e.journal.operation = d.journal.operation
         /\ SameFiles(e, d) \/ e.journal = j
<1>1. e \in Directory
  BY WriteTypes DEF Entry
<1>2. \/ StagesFrom(e, d, "journal")
      \/ /\ e = Written(d, "journal", j) /\ e.journal = j /\ e.config = d.config
         /\ e.credential = d.credential /\ e.configPrevious = d.configPrevious
         /\ e.credentialPrevious = d.credentialPrevious /\ e.staging = d.staging
  BY JournalForms
<1>3. CASE StagesFrom(e, d, "journal")
  BY <1>1, <1>3, SameForce DEF StagesFrom, SameFiles, Open
<1>4. CASE /\ e.journal = j /\ e.config = d.config
           /\ e.credential = d.credential /\ e.configPrevious = d.configPrevious
           /\ e.credentialPrevious = d.credentialPrevious /\ e.staging = d.staging
  <2>1. j.keyChanged = d.journal.keyChanged /\ j.hadKey = d.journal.hadKey
        /\ j.operation = d.journal.operation
    BY RecordsAgree
  <2>2. Former(e) = Former(d) /\ FormerKey(e) = FormerKey(d)
    BY <1>4, <2>1 DEF Former, FormerKey
  <2>3. Recovered(e) = Recovered(d)
    BY <1>1, <1>4, <2>2, SameRecovered
  <2>4. QED
    BY <1>1, <1>4, <2>1, <2>3 DEF Triple
<1>5. QED
  BY <1>2, <1>3, <1>4

\* A mark of the try block.
LEMMA MarkExact ==
  ASSUME SInv, TxnInv, WorkInv, Shut, Windows = {}, run.caller = "apply",
         pc \in {"markConfig", "markKey", "markActivating", "markActivated", "markVerifying"},
         UNCHANGED txn, Open(Disk),
         NEW held \in RunType, held.caller = "apply", held.journal.operation = run.journal.operation,
         NEW j \in Journal, j # None, Record(j) = Record(run.journal), j.phase \notin ClosedPhases,
         pc \in {"markConfig", "markKey"} => j.phase \in {"config", "credential"},
         \/ /\ Completed(Written(Disk, "journal", j))
            /\ run'.caller = "apply" /\ run'.request = run.request
            /\ run'.supplied = run.supplied /\ run'.journal = j
            /\ pc' \in ApplySteps \cup ProofSteps /\ pc' \notin {"prepare", "snapshotConfig", "snapshotKey", "writeConfig"}
            /\ pc' \in Unwritten => pc = "markActivating"
            /\ pc' \in Filed =>
                 /\ Disk.config = [source |-> txn.before.source, settings |-> txn.after.settings]
                 /\ Disk.credential = IF pc' \in {"markConfig", "writeKey"} THEN txn.before.key
                                                                         ELSE txn.after.key
            /\ pc' \in Standing => Triple(Disk) = txn.after
         \/ NotDone(held, WriteLeaves(Disk, "journal", j))
  PROVE  TxnInv' /\ WorkInv' /\ Advances
<1> DEFINE leaves == WriteLeaves(Disk, "journal", j)
<1> DEFINE after == Written(Disk, "journal", j)
<1>1. /\ Disk \in Directory /\ TInv /\ Disk.journal = run.journal /\ Disk.staging = {}
      /\ Img = {Disk} /\ Disk \in Img /\ txn.kept \in BOOLEAN
  BY HostFacts, ApplyFacts DEF CleanSteps
<1>2. \A e \in leaves :
        /\ e \in Directory /\ e.journal \in {Disk.journal, j} /\ e.config = Disk.config
        /\ e.credential = Disk.credential
        /\ Triple(e) = Triple(Disk) /\ Recovered(e) = Recovered(Disk)
        /\ e.staging \subseteq {"journal"} /\ e.journal # None
        /\ e.journal.operation = Disk.journal.operation
        /\ SameFiles(e, Disk) \/ e.journal = j
  BY <1>1, PhasedForms
<1>3. Disk \in leaves /\ after \in leaves
  BY DEF WriteLeaves
<1>4. ~txn.kept => Recovered(Disk) = txn.before
  BY DEF WorkInv, Halfway
<1>5. j.operation = run.journal.operation /\ j.keyChanged = run.journal.keyChanged
  BY RecordsAgree
<1>6. ASSUME ~txn.kept PROVE \A e \in leaves : Firm(e)
  <2>1. Firm(Disk)
    BY <1>1, <1>6, FirmImages DEF Midway, Before
  <2>2. ASSUME NEW e \in leaves PROVE Firm(e)
    <3>1. CASE SameFiles(e, Disk)
      <4>1. MayCommit(e) = MayCommit(Disk)
        BY <1>1, <1>2, <3>1, SameForce
      <4>2. QED
        BY <1>2, <2>1, <4>1 DEF Firm, Settles
    <3>2. CASE e.journal = j /\ pc \in {"markConfig", "markKey"}
      <4>1. run.journal.operation \in ApiOperations
        BY <1>1, <3>2 DEF TInv, Control, JournalAt
      <4>2. ~MayCommit(e)
        BY <1>5, <3>2, <4>1 DEF MayCommit, MayStillCommit, ApiOperations, StaticOperations
      <4>3. QED
        BY <4>2 DEF Firm
    <3>3. CASE e.journal = j /\ pc \in {"markActivated", "markVerifying"}
      <4>1. Triple(Disk) = txn.after
        BY <3>3 DEF WorkInv, Halfway, Standing
      <4>2. QED
        BY <1>2, <4>1 DEF Firm, Settles
    <3>4. CASE e.journal = j /\ pc = "markActivating"
      <4>1. Triple(Disk) = txn.before
        BY <3>4 DEF WorkInv, Halfway, Unwritten
      <4>2. QED
        BY <1>2, <1>4, <1>6, <4>1 DEF Firm, Settles
    <3>5. QED
      BY <1>2, <3>1, <3>2, <3>3, <3>4
  <2>3. QED
    BY <1>6, <2>2
<1>7. leaves \in SUBSET Directory /\ pc \in ApplySteps \cup ProofSteps
  BY <1>2 DEF ApplySteps, ProofSteps
<1>8. \A e \in leaves :
           /\ e.journal # None /\ e.journal.operation = held.journal.operation
           /\ txn.kept => Triple(e) = Triple(Disk)
           /\ ~txn.kept => /\ Recovered(e) = Recovered(Disk) /\ Firm(e)
                           /\ MayStillCommit(e) => e.staging \cap {"config", "credential"} = {}
  BY <1>1, <1>2, <1>6
<1> HIDE DEF leaves, after
<1>9. ASSUME Completed(after), run'.caller = "apply", run'.request = run.request,
             run'.supplied = run.supplied, run'.journal = j,
             pc' \in ApplySteps \cup ProofSteps, pc' \notin {"prepare", "snapshotConfig", "snapshotKey", "writeConfig"},
             pc' \in Unwritten => pc = "markActivating",
             pc' \in Filed =>
                 /\ Disk.config = [source |-> txn.before.source, settings |-> txn.after.settings]
                 /\ Disk.credential = IF pc' \in {"markConfig", "writeKey"} THEN txn.before.key
                                                                         ELSE txn.after.key,
             pc' \in Standing => Triple(Disk) = txn.after
      PROVE  WorkInv'
  <2>1. Disk' = after /\ after \in Directory
    BY <1>2, <1>3, <1>9, CompletedDisk
  <2>2. Triple(Disk') = Triple(Disk) /\ Recovered(Disk') = Recovered(Disk)
        /\ Disk'.config = Disk.config /\ Disk'.credential = Disk.credential
    BY <1>2, <1>3, <2>1
  <2>3. pc = "markActivating" => Triple(Disk) = txn.before
    BY DEF WorkInv, Halfway, Unwritten
  <2>4. QED
    BY <1>4, <1>5, <1>9, <2>2, <2>3, ApplyWorks
<1>10. (Completed(after) /\ WorkInv') \/ NotDone(held, leaves)
  BY <1>9 DEF after, leaves
<1>11. QED
  BY <1>3, <1>7, <1>8, <1>10, ApplyExact

\* What a mark of the try block does, apart from where it leads.
LEMMA MarkParts ==
  ASSUME SInv, pc \in ApplySteps, run.journal.phase \notin ProofPhases, pc # "prepare",
         pc = "markActivated" \/ run.journal.phase \notin ClosedPhases,
         NEW phase \in Phases \ ProofPhases, phase \in OperationPhases(run.journal.operation),
         NEW next, Mark(pc, phase, next)
  PROVE  LET self == Phased(phase)
         IN /\ run.caller = "apply" /\ Open(Disk) /\ UNCHANGED txn
            /\ self \in RunType /\ self.caller = "apply" /\ self.request = run.request
            /\ self.supplied = run.supplied /\ self.journal \in Journal /\ self.journal # None
            /\ Record(self.journal) = Record(run.journal) /\ self.journal.phase = phase
            /\ self.journal.operation = run.journal.operation
            /\ self.journal.keyChanged = run.journal.keyChanged
            /\ Disk.journal = run.journal
            /\ \/ /\ Completed(Written(Disk, "journal", self.journal))
                  /\ pc' = next /\ run' = self
               \/ NotDone(self, WriteLeaves(Disk, "journal", self.journal))
<1>1. TInv /\ run.caller = "apply" /\ run.journal # None /\ pc \notin CleanSteps
      /\ (pc = "markActivated" => run.journal.phase \in {"prepared", "config", "credential", "activating"})
  BY HostFacts DEF TInv, Control, CallerAt, JournalAt, ApplySteps, CleanSteps
<1>2. run.journal.proof <=> phase \in ProofPhases
  BY <1>1, Unproved
<1>3. /\ Disk.journal = run.journal /\ Open(Disk)
  BY <1>1, ApplyFacts DEF Open, ClosedPhases
<1>4. /\ Phased(phase) \in RunType /\ Phased(phase).caller = run.caller
      /\ Phased(phase).request = run.request /\ Phased(phase).supplied = run.supplied
      /\ Phased(phase).journal \in Journal /\ Phased(phase).journal # None
      /\ Record(Phased(phase).journal) = Record(run.journal)
      /\ Phased(phase).journal.phase = phase
      /\ Phased(phase).journal.operation = run.journal.operation
  BY <1>1, <1>2, PhasedKeeps
<1>5. Phased(phase).journal.keyChanged = run.journal.keyChanged
  BY <1>4, RecordsAgree
<1>6. /\ UNCHANGED txn
      /\ \/ /\ Completed(Written(Disk, "journal", Phased(phase).journal))
            /\ pc' = next /\ run' = Phased(phase) /\ verdict' = verdict
            /\ "journal" \notin Disk.staging
         \/ NotDone(Phased(phase), WriteLeaves(Disk, "journal", Phased(phase).journal))
  BY <1>1, <1>2, MarkLands
<1>7. QED
  BY <1>1, <1>3, <1>4, <1>5, <1>6

\* MarkKey keeps what the images and the invocation say of the transaction.
LEMMA MarkKeyExact ==
  ASSUME SInv, TxnInv, WorkInv, Shut, Windows = {}, MarkKey
  PROVE  TxnInv' /\ WorkInv' /\ Advances
<1> DEFINE self == Phased("credential")
<1>1. pc = "markKey" /\ Mark(pc, "credential", "revalidate")
  BY DEF MarkKey, Mark
<1>2. run.journal.phase = "config" /\ run.journal.operation \in ApiOperations
  BY <1>1 DEF SInv, TInv, Control, JournalAt
<1>3. /\ pc \in ApplySteps /\ run.journal.phase \notin ProofPhases \cup ClosedPhases
      /\ "credential" \in Phases \ ProofPhases
      /\ "credential" \in OperationPhases(run.journal.operation)
  BY <1>1, <1>2 DEF ApplySteps, ProofPhases, ClosedPhases, Phases, OperationPhases
<1>4. /\ run.caller = "apply" /\ Open(Disk) /\ UNCHANGED txn
      /\ self \in RunType /\ self.caller = "apply" /\ self.request = run.request
      /\ self.supplied = run.supplied /\ self.journal \in Journal /\ self.journal # None
      /\ Record(self.journal) = Record(run.journal) /\ self.journal.phase = "credential"
      /\ self.journal.operation = run.journal.operation
      /\ \/ /\ Completed(Written(Disk, "journal", self.journal))
            /\ pc' = "revalidate" /\ run' = self
         \/ NotDone(self, WriteLeaves(Disk, "journal", self.journal))
  BY <1>1, <1>3, MarkParts
<1> HIDE DEF self
<1>5. /\ Disk.config = [source |-> txn.before.source, settings |-> txn.after.settings]
      /\ Disk.credential = txn.after.key
  BY <1>1 DEF WorkInv, Halfway, Filed
<1>6. "revalidate" \in ApplySteps /\ "revalidate" \notin Unwritten \cup Standing
  BY DEF ApplySteps, Unwritten, Standing
<1>7. QED
  BY <1>1, <1>4, <1>5, <1>6, MarkExact DEF ClosedPhases

\* MarkActivating keeps what the images and the invocation say of the transaction.
LEMMA MarkActivatingExact ==
  ASSUME SInv, TxnInv, WorkInv, Shut, Windows = {}, MarkActivating
  PROVE  TxnInv' /\ WorkInv' /\ Advances
<1> DEFINE self == Phased("activating")
<1>1. pc = "markActivating" /\ Mark(pc, "activating", "restoreStatic")
  BY DEF MarkActivating, Mark
<1>2. run.journal.phase = "prepared" /\ run.journal.operation = "static-restore"
  BY <1>1 DEF SInv, TInv, Control, JournalAt
<1>3. /\ pc \in ApplySteps /\ run.journal.phase \notin ProofPhases \cup ClosedPhases
      /\ "activating" \in Phases \ ProofPhases
      /\ "activating" \in OperationPhases(run.journal.operation)
  BY <1>1, <1>2 DEF ApplySteps, ProofPhases, ClosedPhases, Phases, OperationPhases
<1>4. /\ run.caller = "apply" /\ Open(Disk) /\ UNCHANGED txn
      /\ self \in RunType /\ self.caller = "apply" /\ self.request = run.request
      /\ self.supplied = run.supplied /\ self.journal \in Journal /\ self.journal # None
      /\ Record(self.journal) = Record(run.journal) /\ self.journal.phase = "activating"
      /\ self.journal.operation = run.journal.operation
      /\ \/ /\ Completed(Written(Disk, "journal", self.journal))
            /\ pc' = "restoreStatic" /\ run' = self
         \/ NotDone(self, WriteLeaves(Disk, "journal", self.journal))
  BY <1>1, <1>3, MarkParts
<1> HIDE DEF self
<1>6. "restoreStatic" \in ApplySteps /\ "restoreStatic" \notin Filed \cup Standing
  BY DEF ApplySteps, Filed, Standing
<1>7. QED
  BY <1>1, <1>4, <1>6, MarkExact DEF ClosedPhases

\* MarkActivated keeps what the images and the invocation say of the transaction.
LEMMA MarkActivatedExact ==
  ASSUME SInv, TxnInv, WorkInv, Shut, Windows = {}, MarkActivated
  PROVE  TxnInv' /\ WorkInv' /\ Advances
<1> DEFINE self == Phased("activated")
<1>1. pc = "markActivated" /\ Mark(pc, "activated", "beginProof")
  BY DEF MarkActivated, Mark
<1>2. run.journal.phase \in {"prepared", "config", "credential", "activating"} /\ run.caller = "apply"
  BY <1>1 DEF SInv, TInv, Control, JournalAt, CallerAt, ApplySteps
<1>3. /\ pc \in ApplySteps /\ run.journal.phase \notin ProofPhases \cup ClosedPhases
      /\ "activated" \in Phases \ ProofPhases
      /\ "activated" \in OperationPhases(run.journal.operation)
  BY <1>1, <1>2 DEF ApplySteps, ProofPhases, ClosedPhases, Phases, OperationPhases
<1>4. /\ run.caller = "apply" /\ Open(Disk) /\ UNCHANGED txn
      /\ self \in RunType /\ self.caller = "apply" /\ self.request = run.request
      /\ self.supplied = run.supplied /\ self.journal \in Journal /\ self.journal # None
      /\ Record(self.journal) = Record(run.journal) /\ self.journal.phase = "activated"
      /\ self.journal.operation = run.journal.operation
      /\ \/ /\ Completed(Written(Disk, "journal", self.journal))
            /\ pc' = "beginProof" /\ run' = self
         \/ NotDone(self, WriteLeaves(Disk, "journal", self.journal))
  BY <1>1, <1>3, MarkParts
<1> HIDE DEF self
<1>5. Triple(Disk) = txn.after
  BY <1>1, <1>2 DEF WorkInv, Halfway, Standing
<1>6. "beginProof" \in ProofSteps /\ "beginProof" \notin Filed \cup Unwritten
  BY DEF ProofSteps, Unwritten, Filed
<1>7. QED
  BY <1>1, <1>4, <1>5, <1>6, MarkExact DEF ClosedPhases

\* MarkConfig keeps what the images and the invocation say of the transaction.
LEMMA MarkConfigExact ==
  ASSUME SInv, TxnInv, WorkInv, Shut, Windows = {}, MarkConfig
  PROVE  TxnInv' /\ WorkInv' /\ Advances
<1> DEFINE self == Phased("config")
           next == CASE run.journal.keyChanged -> "writeKey"
                     [] ~run.journal.keyChanged /\ Activates -> "activate"
                     [] OTHER -> "markActivated"
<1>1. pc = "markConfig" /\ Mark(pc, "config", next)
  BY DEF MarkConfig, Mark
<1>2. /\ run.journal.phase = "prepared" /\ run.journal.operation \in ApiOperations
      /\ run.request.mode = "api" /\ run.caller = "apply" /\ run.journal.keyChanged \in BOOLEAN
  BY <1>1, RunFacts DEF SInv, TInv, Control, JournalAt, CallerAt, ApplySteps, JournalRecord
<1>3. /\ pc \in ApplySteps /\ run.journal.phase \notin ProofPhases \cup ClosedPhases
      /\ "config" \in Phases \ ProofPhases
      /\ "config" \in OperationPhases(run.journal.operation)
  BY <1>1, <1>2 DEF ApplySteps, ProofPhases, ClosedPhases, Phases, OperationPhases
<1>4. \/ run.journal.keyChanged /\ next = "writeKey"
      \/ ~run.journal.keyChanged /\ Activates /\ next = "activate"
      \/ ~run.journal.keyChanged /\ ~Activates /\ next = "markActivated"
  BY <1>2
<1> HIDE DEF next
<1>5. /\ run.caller = "apply" /\ Open(Disk) /\ UNCHANGED txn
      /\ self \in RunType /\ self.caller = "apply" /\ self.request = run.request
      /\ self.supplied = run.supplied /\ self.journal \in Journal /\ self.journal # None
      /\ Record(self.journal) = Record(run.journal) /\ self.journal.phase = "config"
      /\ self.journal.operation = run.journal.operation
      /\ \/ /\ Completed(Written(Disk, "journal", self.journal))
            /\ pc' = next /\ run' = self
         \/ NotDone(self, WriteLeaves(Disk, "journal", self.journal))
  BY <1>1, <1>3, MarkParts
<1> HIDE DEF self
<1>6. /\ Disk.config = [source |-> txn.before.source, settings |-> txn.after.settings]
      /\ Disk.credential = txn.before.key
  BY <1>1 DEF WorkInv, Halfway, Filed
<1>7. txn.after = [source |-> "api", settings |-> run.request.settings,
                   key |-> IF run.journal.keyChanged THEN run.supplied ELSE txn.before.key]
  BY <1>2 DEF WorkInv, Aims
<1>8. ~run.journal.keyChanged => txn.after.key = txn.before.key
  BY <1>7
<1>9. next = "markActivated" => Triple(Disk) = txn.after
  <2>1. SUFFICES ASSUME next = "markActivated" PROVE Triple(Disk) = txn.after
    OBVIOUS
  <2>2. Disk.config.source = "api"
    BY <1>4, <2>1, HostFacts DEF Activates, Directory, Config
  <2>3. QED
    BY <1>4, <1>6, <1>7, <2>1, <2>2 DEF Triple
<1>10. /\ next \in ApplySteps /\ next \notin {"prepare", "snapshotConfig", "snapshotKey", "writeConfig"} \cup Unwritten
       /\ next \in Standing => next = "markActivated"
       /\ next \in Filed => next = "writeKey" \/ (next = "activate" /\ ~run.journal.keyChanged)
  BY <1>4 DEF ApplySteps, Unwritten, Standing, Filed
<1>11. QED
  BY <1>1, <1>5, <1>6, <1>8, <1>9, <1>10, MarkExact DEF ClosedPhases

(* --------------------------- the health proof -------------------------- *)

\* A rollback of recovery begins at work on nothing.
LEMMA RollBackWorks ==
  ASSUME run \in RunType, RollBack(run), Disk'.journal.operation = run.journal.operation
  PROVE  WorkInv'
<1>1. /\ pc' = IF run.journal.operation \in ApiOperations THEN "reconcile" ELSE "restoreConfig"
      /\ run' = [run EXCEPT !.caller = "rollback"]
  BY DEF RollBack, Go
<1>2. run'.caller = "rollback"
  BY <1>1 DEF RunType
<1>3. CASE pc' = "reconcile"
  BY <1>2, <1>3, RecoveryWorks DEF Standing
<1>4. CASE pc' = "restoreConfig" /\ Disk'.journal.operation \notin ApiOperations
  <2>1. Undoes(pc, run, Disk, Len(images) = 1, wg)'
    BY <1>2, <1>4 DEF Undoes
  <2>2. Aims(pc, run, txn)' /\ Halfway(pc, run, Disk, txn)' /\ Told(pc, verdict, Disk, Len(images) = 1, txn)'
    BY <1>2, <1>4 DEF Aims, Halfway, Told, Unwritten, Filed, Standing
  <2>3. QED
    BY <2>1, <2>2 DEF WorkInv
<1>5. QED
  BY <1>1, <1>3, <1>4

\* Once the proof is made the triple asked for is on the disk.
LEMMA FinalizeWorks ==
  ASSUME WorkInv, run.caller \in {"apply", "finalize"}, run'.caller = "finalize", run'.request = run.request,
         run'.supplied = run.supplied, run'.journal.keyChanged = run.journal.keyChanged,
         txn'.before = txn.before, txn'.after = txn.after,
         pc' \in {"markVerified"} \cup CleanSteps, Triple(Disk') = txn.after
  PROVE  WorkInv'
<1>1. pc' \notin {"validate", "idle", "enter"} \cup RollbackSteps \cup Unwritten \cup Filed
  BY DEF CleanSteps, RollbackSteps, Unwritten, Filed
<1>2. Undoes(pc, run, Disk, Len(images) = 1, wg)'
  BY <1>1 DEF Undoes, RollbackSteps
<1>3. Aims(pc, run, txn)'
  BY DEF WorkInv, Aims
<1>4. Halfway(pc, run, Disk, txn)'
  BY <1>1 DEF Halfway, Triple
<1>5. Told(pc, verdict, Disk, Len(images) = 1, txn)'
  BY <1>1 DEF Told
<1>6. QED
  BY <1>2, <1>3, <1>4, <1>5 DEF WorkInv

\* BeginProof keeps what the images and the invocation say of the transaction.
LEMMA BeginProofExact ==
  ASSUME SInv, TxnInv, WorkInv, Shut, Windows = {}, BeginProof
  PROVE  TxnInv' /\ WorkInv' /\ Advances
<1>1. pc = "beginProof" /\ pc' = "markVerifying" /\ run' = run /\ UNCHANGED <<images, wg, txn>>
  BY DEF BeginProof, Go
<1>2. TInv /\ run.caller \in {"recovery", "apply"}
  BY <1>1, HostFacts DEF TInv, Control, CallerAt, ProofSteps
<1>3. TxnInv' /\ Advances
  <2>1. Shaped({Disk})
    BY <1>1, StillShaped
  <2>2. \A d \in Img : ~Excused(d)
    BY <1>1 DEF Excused, Midway, Before
  <2>3. QED
    BY <1>1, <1>2, <2>1, <2>2, StillCarried
<1>4. CASE run.caller = "recovery"
  <2>1. run'.journal.operation \in {"api-update", "static"}
    BY <1>1, <1>4 DEF WorkInv, Halfway
  <2>2. QED
    BY <1>1, <1>3, <1>4, <2>1, RecoveryWorks DEF Standing
<1>5. CASE run.caller = "apply"
  <2>1. Disk' = Disk
    BY <1>1 DEF Disk
  <2>2. Triple(Disk) = txn.after /\ (~txn.kept => Recovered(Disk) = txn.before)
    BY <1>1, <1>5 DEF WorkInv, Halfway, Standing
  <2>3. "markVerifying" \in ProofSteps /\ "markVerifying" \notin Unwritten \cup Filed
    BY DEF ProofSteps, Unwritten, Filed
  <2>4. QED
    BY <1>1, <1>3, <1>5, <2>1, <2>2, <2>3, ApplyWorks
<1>6. QED
  BY <1>2, <1>4, <1>5

\* MarkVerifying keeps what the images and the invocation say of the transaction.
LEMMA MarkVerifyingExact ==
  ASSUME SInv, TxnInv, WorkInv, Shut, Windows = {}, MarkVerifying
  PROVE  TxnInv' /\ WorkInv' /\ Advances
<1> DEFINE j == [run.journal EXCEPT !.phase = "verifying", !.proof = TRUE]
<1>1. /\ pc = "markVerifying" /\ UNCHANGED <<wg, timer, txn>>
      /\ j \in Journal /\ run.journal \in Journal
      /\ \/ /\ "journal" \notin Disk.staging
            /\ Completed(Written(Disk, "journal", j))
            /\ pc' = "verify" /\ run' = [run EXCEPT !.journal = j] /\ verdict' = verdict
         \/ NotDone(run, WriteLeaves(Disk, "journal", j))
  BY HostFacts, MarkVerifyingLands
<1>2. TInv /\ run.caller \in {"recovery", "apply"} /\ run \in RunType /\ run.journal # None
      /\ run.journal.phase = "activated" /\ Disk \in Directory
  BY <1>1, HostFacts, RunFacts DEF TInv, Control, CallerAt, JournalAt, ProofSteps
<1>3. /\ Record(j) = Record(run.journal) /\ j.phase = "verifying" /\ j # None
      /\ j.operation = run.journal.operation
  <2>1. run.journal \in JournalRecord
    BY <1>1, JournalRecords
  <2>2. QED
    BY <1>1, <2>1, NoneApart DEF Record, JournalRecord
<1>4. run' = [run EXCEPT !.journal = j] =>
        /\ run'.caller = run.caller /\ run'.request = run.request
        /\ run'.supplied = run.supplied /\ run'.journal = j
  BY <1>2 DEF RunType
<1> HIDE DEF j
<1>5. CASE run.caller = "apply"
  <2>1. Open(Disk)
    BY <1>1, <1>2, <1>5, ApplyFacts DEF Open, ClosedPhases, CleanSteps
  <2>2. Triple(Disk) = txn.after
    BY <1>1, <1>5 DEF WorkInv, Halfway, Standing
  <2>3. "verify" \in ProofSteps /\ "verify" \notin Filed \cup Unwritten
    BY DEF ProofSteps, Unwritten, Filed
  <2>4. QED
    BY <1>1, <1>2, <1>3, <1>4, <1>5, <2>1, <2>2, <2>3, MarkExact DEF ClosedPhases
<1>6. CASE run.caller = "recovery"
  <2>1. run.journal = Disk.journal /\ Open(Disk) /\ ~txn.kept
    BY <1>1, <1>6, ProvingFacts
  <2>2. run.journal.operation \in {"api-update", "static"}
    BY <1>1, <1>6 DEF WorkInv, Halfway
  <2>3. MayCommit(Disk)
    BY <1>2, <2>1, <2>2 DEF MayCommit, MayStillCommit, StaticOperations
  <2>4. \A d \in Img : Firm(d)
    BY <1>1, <2>1, FirmImages DEF Midway, Before
  <2>5. Settles(Disk, txn)
    BY <2>3, <2>4, HostFacts DEF Firm
  <2>6. \A e \in WriteLeaves(Disk, "journal", j) :
          /\ e \in Directory /\ e.journal # None
          /\ Triple(e) = Triple(Disk) /\ Recovered(e) = Recovered(Disk)
    BY <1>1, <1>2, <1>3, <2>1, PhasedForms DEF ClosedPhases
  <2>7. \A e \in WriteLeaves(Disk, "journal", j) : Kin(e) /\ Firm(e)
    BY <2>5, <2>6 DEF Kin, InForce, Firm, Settles
  <2>8. Written(Disk, "journal", j) \in WriteLeaves(Disk, "journal", j)
        /\ Disk \in WriteLeaves(Disk, "journal", j)
    BY DEF WriteLeaves
  <2>9. Shaped(WriteLeaves(Disk, "journal", j))
    BY <1>1, <2>6, <2>8, StoreShaped
  <2>10. TxnInv' /\ Advances
    BY <1>1, <1>2, <2>4, <2>6, <2>7, <2>8, <2>9, CarriedFirm
  <2>11. WorkInv'
    <3>1. CASE pc' = "verify" /\ run' = [run EXCEPT !.journal = j]
      BY <1>4, <1>6, <3>1, RecoveryWorks DEF Standing
    <3>2. CASE NotDone(run, WriteLeaves(Disk, "journal", j))
      BY <1>1, <1>2, <1>6, <2>6, <2>8, <3>2, NotDoneWorks
    <3>3. QED
      BY <1>1, <3>1, <3>2
  <2>12. QED
    BY <2>10, <2>11
<1>7. QED
  BY <1>2, <1>5, <1>6

\* Verify keeps what the images and the invocation say of the transaction.
LEMMA VerifyExact ==
  ASSUME SInv, TxnInv, WorkInv, Shut, Windows = {}, Verify
  PROVE  TxnInv' /\ WorkInv' /\ Advances
<1>1. pc = "verify" /\ UNCHANGED <<timer, txn>> /\ Calls(CheckResults, ProofEnds, ProofFails)
  BY HostFacts, VerifyLands
<1>2. TInv /\ run.caller \in {"recovery", "apply"} /\ run \in RunType /\ txn.kept \in BOOLEAN
      /\ Disk \in Directory /\ run.journal # None
  BY <1>1, HostFacts, RunFacts DEF TInv, Control, CallerAt, ProofSteps
<1>3. \A r \in CheckResults : r \in ResultType /\ r.source = Disk.config.source
  BY <1>2, CheckTypes DEF TInv
<1>4. TxnInv' /\ Advances
  <2>1. \A d \in Img : ~Excused(d)
    BY <1>1 DEF Excused, Midway, Before
  <2> HIDE DEF Calls
  <2>2. QED
    BY <1>1, <1>3, <2>1, CallsCarried
<1>5. Disk.journal = run.journal
  <2>1. run.caller = "recovery" => Disk.journal = run.journal
    BY <1>1, ProvingFacts
  <2>2. run.caller = "apply" => Disk.journal = run.journal
    BY <1>1, ApplyFacts DEF CleanSteps
  <2>3. QED
    BY <1>2, <2>1, <2>2
<1>6. ASSUME images' = images, ProofFails PROVE WorkInv'
  <2>1. Disk' = Disk
    BY <1>6 DEF Disk
  <2>2. CASE run.caller = "recovery" /\ RollBack(run)
    BY <1>2, <1>5, <2>1, <2>2, RollBackWorks
  <2>3. CASE run.caller = "apply" /\ Raise(run)
    <3>1. Disk.staging = {}
      BY <1>1, <2>3, ApplyFacts
    <3>2. ~txn.kept => Recovered(Disk) = txn.before
      BY <2>3 DEF WorkInv, Halfway
    <3>3. QED
      BY <1>1, <1>2, <1>5, <2>1, <2>3, <3>1, <3>2, RaiseWorks
  <2>4. QED
    BY <1>2, <1>6, <2>2, <2>3 DEF ProofFails
<1>7. ASSUME images' = images, ProofEnds PROVE WorkInv'
  <2>1. Disk' = Disk
    BY <1>7 DEF Disk
  <2>2. CASE run.caller = "recovery" /\ pc' = "markVerified" /\ run' = run
    BY <2>2, RecoveryWorks DEF Standing
  <2>3. CASE run.caller = "apply" /\ pc' = "markVerified" /\ run' = [run EXCEPT !.caller = "finalize"]
    <3>1. /\ run'.caller = "finalize" /\ run'.request = run.request
          /\ run'.supplied = run.supplied /\ run'.journal = run.journal
      BY <1>2, <2>3 DEF RunType
    <3>2. Triple(Disk) = txn.after
      BY <1>1, <2>3 DEF WorkInv, Halfway, Standing
    <3>3. QED
      BY <1>1, <2>1, <2>3, <3>1, <3>2, FinalizeWorks
  <2>4. CASE ProofFails
    BY <1>6, <1>7, <2>4
  <2>5. QED
    BY <1>2, <1>7, <2>2, <2>3, <2>4 DEF ProofEnds, Go
<1>8. WorkInv'
  <2>1. \A r \in CheckResults : CallEnds(r) => images' = images
    BY <1>3, CallStill
  <2>2. \A r \in CheckResults : r.ok /\ CallEnds(r) /\ ProofEnds => WorkInv'
    BY <1>7, <2>1
  <2>3. \A r \in CheckResults : ~r.ok /\ CallEnds(r) /\ ProofFails => WorkInv'
    BY <1>6, <2>1
  <2>4. CheckResults \subseteq ResultType
    BY <1>3
  <2> HIDE DEF Calls
  <2>5. QED
    BY <1>1, <2>2, <2>3, <2>4, CallsWork
<1>9. QED
  BY <1>4, <1>8

\* MarkVerified keeps what the images and the invocation say of the transaction.
LEMMA MarkVerifiedExact ==
  ASSUME SInv, TxnInv, WorkInv, Shut, Windows = {}, MarkVerified
  PROVE  TxnInv' /\ WorkInv' /\ Advances
<1> DEFINE self == Phased("verified")
<1>1. pc = "markVerified" /\ Mark("markVerified", "verified", "cleanConfig")
  BY DEF MarkVerified, Mark
<1>2. TInv /\ run.caller \in {"recovery", "finalize"} /\ run \in RunType /\ run.journal # None
      /\ run.journal.phase = "verifying" /\ Disk \in Directory /\ Disk \in Img /\ run.journal \in Journal
  BY <1>1, HostFacts, RunFacts DEF TInv, Control, CallerAt, JournalAt, ApplySteps
<1>3. "verified" \in Phases /\ "verified" \in OperationPhases(run.journal.operation)
      /\ (run.journal.proof <=> "verified" \in ProofPhases)
  BY <1>2, Unproved DEF Phases, OperationPhases, ProofPhases
<1>4. /\ self \in RunType /\ self.caller = run.caller /\ self.request = run.request
      /\ self.supplied = run.supplied /\ self.journal \in Journal /\ self.journal # None
      /\ Record(self.journal) = Record(run.journal) /\ self.journal.phase = "verified"
      /\ self.journal.keyChanged = run.journal.keyChanged
  BY <1>2, <1>3, PhasedKeeps, PhasedAt
<1>5. /\ UNCHANGED <<wg, timer, txn>>
      /\ \/ /\ Completed(Written(Disk, "journal", self.journal))
            /\ pc' = "cleanConfig" /\ run' = self
         \/ NotDone(self, WriteLeaves(Disk, "journal", self.journal))
  BY <1>1, <1>2, <1>3, MarkLands
<1> HIDE DEF self
<1> DEFINE leaves == WriteLeaves(Disk, "journal", self.journal)
<1>6. Disk.journal = run.journal
  <2>1. run.caller = "recovery" => Disk.journal = run.journal
    BY <1>1, ProvingFacts
  <2>2. run.caller = "finalize" => Disk.journal = run.journal
    BY <1>1, ApplyFacts DEF CleanSteps
  <2>3. QED
    BY <1>2, <2>1, <2>2
<1>7. ~txn.kept => \A d \in Img : Firm(d)
  BY <1>1, FirmImages DEF Midway, Before
<1>8. Triple(Disk) \in {txn.after, InForce(Disk)}
  <2>1. CASE run.caller = "finalize"
    BY <1>1, <2>1 DEF WorkInv, Halfway
  <2>2. CASE run.caller = "recovery"
    <3>1. ~txn.kept /\ Open(Disk)
      BY <1>1, <2>2, ProvingFacts
    <3>2. MayCommit(Disk)
      BY <1>2, <1>6, <3>1 DEF MayCommit, MayStillCommit
    <3>3. QED
      BY <1>2, <1>7, <3>1, <3>2 DEF Firm, Settles, InForce
  <2>3. QED
    BY <1>2, <2>1, <2>2
<1>9. ASSUME NEW e \in leaves
      PROVE  /\ e \in Directory /\ Kin(e) /\ e.journal # None /\ (~txn.kept => Firm(e))
             /\ Triple(e) = Triple(Disk)
  <2>1. e \in Directory
    BY <1>2, <1>4, WriteTypes DEF Entry
  <2>2. \/ StagesFrom(e, Disk, "journal")
        \/ /\ e = Written(Disk, "journal", self.journal) /\ e.journal = self.journal /\ e.config = Disk.config
           /\ e.credential = Disk.credential /\ e.configPrevious = Disk.configPrevious
           /\ e.credentialPrevious = Disk.credentialPrevious /\ e.staging = Disk.staging
    BY <1>2, JournalForms
  <2>3. CASE StagesFrom(e, Disk, "journal")
    <3>1. SameFiles(e, Disk)
      BY <2>3 DEF StagesFrom
    <3>2. Triple(e) = Triple(Disk) /\ Recovered(e) = Recovered(Disk) /\ MayCommit(e) = MayCommit(Disk)
      BY <1>2, <2>1, <3>1, SameForce
    <3>3. Kin(e)
      BY <1>2, <2>1, <3>2, KinAs DEF Kin
    <3>4. QED
      BY <1>2, <1>6, <1>7, <2>1, <3>1, <3>2, <3>3 DEF Firm, Settles, SameFiles
  <2>4. CASE e.journal = self.journal /\ e.config = Disk.config /\ e.credential = Disk.credential
    <3>1. ~Open(e) /\ ~MayCommit(e)
      BY <1>4, <2>4 DEF Open, MayCommit, ClosedPhases
    <3>2. Recovered(e) = Triple(e) /\ Triple(e) = Triple(Disk)
      BY <2>1, <2>4, <3>1, RecoveredIs DEF Triple
    <3>3. InForce(e) = Triple(Disk)
      BY <3>2 DEF InForce
    <3>4. QED
      BY <1>4, <1>8, <2>1, <2>4, <3>1, <3>2, <3>3 DEF Firm, Kin
  <2>5. QED
    BY <2>2, <2>3, <2>4
<1>10. Written(Disk, "journal", self.journal) \in leaves /\ Disk \in leaves
  BY DEF WriteLeaves
<1>11. leaves \in SUBSET Directory
  BY <1>9
<1> HIDE DEF leaves
<1>12. Shaped(leaves)
  BY <1>5, <1>10, <1>11, StoreShaped DEF leaves
<1>13. TxnInv' /\ Advances
  BY <1>2, <1>5, <1>7, <1>9, <1>10, <1>11, <1>12, CarriedFirm
<1>14. CASE Completed(Written(Disk, "journal", self.journal)) /\ pc' = "cleanConfig" /\ run' = self
  <2>1. Disk' = Written(Disk, "journal", self.journal)
    BY <1>10, <1>11, <1>14, CompletedDisk
  <2>2. Triple(Disk') = Triple(Disk)
    BY <1>9, <1>10, <2>1
  <2>3. CASE run.caller = "recovery"
    BY <1>4, <1>13, <1>14, <2>3, RecoveryWorks DEF CleanSteps
  <2>4. CASE run.caller = "finalize"
    <3>1. Triple(Disk) = txn.after
      BY <1>1, <2>4 DEF WorkInv, Halfway
    <3>2. QED
      BY <1>4, <1>5, <1>13, <1>14, <2>2, <2>4, <3>1, FinalizeWorks DEF CleanSteps
  <2>5. QED
    BY <1>2, <2>3, <2>4
<1>15. CASE NotDone(self, leaves)
  BY <1>2, <1>4, <1>5, <1>10, <1>11, <1>13, <1>15, NotDoneWorks
<1>16. QED
  BY <1>5, <1>14, <1>15 DEF leaves

(* ------------------------- after the commit ---------------------------- *)

\* The actions after the commit find what was asked for.
LEMMA PostWorks ==
  ASSUME run'.caller = "post", pc' \in PostSteps, Triple(Disk') = txn'.after
  PROVE  WorkInv'
BY DEF WorkInv, Undoes, Aims, Halfway, Told, RollbackSteps, Unwritten, Filed, Standing, PostSteps, Triple

\* Reset keeps what the images and the invocation say of the transaction.
LEMMA ResetExact ==
  ASSUME SInv, TxnInv, WorkInv, Shut, Windows = {}, ResetApiState
  PROVE  TxnInv' /\ WorkInv' /\ Advances
<1>1. /\ pc = "reset" /\ UNCHANGED <<timer, txn>>
      /\ \/ UNCHANGED <<images, status, faults, wg>> /\ Go("removeKey", run)
         \/ Calls(ResetResults, Go("removeKey", run), Raise(run))
  BY HostFacts, ResetLands
<1>2. /\ TInv /\ run.caller = "post" /\ run \in RunType /\ SetupArtifactsClear(Disk)
  BY <1>1, PostFacts, HostFacts DEF PostSteps
<1>3. \A r \in ResetResults : r \in ResultType /\ r.source = Disk.config.source
  BY <1>2, ResetTypes DEF TInv, ResetResults, Failures, Result
<1>4. \A d \in Img : ~Excused(d)
  BY <1>1 DEF Excused, Midway, Before
<1>5. TxnInv' /\ Advances
  <2>1. CASE UNCHANGED <<images, status, faults, wg>>
    BY <1>1, <1>2, <1>4, <2>1, StillShaped, StillCarried
  <2>2. CASE Calls(ResetResults, Go("removeKey", run), Raise(run))
    <3> HIDE DEF Calls
    <3>1. QED
      BY <1>1, <1>3, <1>4, <2>2, CallsCarried
  <2>3. QED
    BY <1>1, <2>1, <2>2
<1>6. ASSUME images' = images, Go("removeKey", run) PROVE WorkInv'
  <2>1. Disk' = Disk /\ Triple(Disk) = txn.after
    BY <1>2, <1>6 DEF Disk, WorkInv, Halfway
  <2>2. QED
    BY <1>1, <1>2, <1>6, <2>1, PostWorks DEF Go, PostSteps
<1>7. ASSUME Raise(run) PROVE WorkInv'
  BY <1>1, <1>2, <1>7, RaiseLands, SilentWorks DEF RunType
<1>8. WorkInv'
  <2>1. CASE UNCHANGED <<images, status, faults, wg>> /\ Go("removeKey", run)
    BY <1>6, <2>1
  <2>2. CASE Calls(ResetResults, Go("removeKey", run), Raise(run))
    <3>1. \A r \in ResetResults : CallEnds(r) => images' = images
      BY <1>3, CallStill
    <3>2. \A r \in ResetResults : r.ok /\ CallEnds(r) /\ Go("removeKey", run) => WorkInv'
      BY <1>6, <3>1
    <3>3. \A r \in ResetResults : ~r.ok /\ CallEnds(r) /\ Raise(run) => WorkInv'
      BY <1>7
    <3>4. ResetResults \subseteq ResultType
      BY <1>3
    <3> HIDE DEF Calls
    <3>5. QED
      BY <2>2, <3>2, <3>3, <3>4, CallsWork
  <2>3. QED
    BY <1>1, <2>1, <2>2
<1>9. QED
  BY <1>5, <1>8

\* Enable keeps what the images and the invocation say of the transaction.
LEMMA EnableExact ==
  ASSUME SInv, TxnInv, WorkInv, Shut, Windows = {}, EnableTimer
  PROVE  TxnInv' /\ WorkInv' /\ Advances
<1>1. /\ pc = "enable" /\ UNCHANGED <<wg, txn>>
      /\ \/ UNCHANGED <<images, status>> /\ End("done")
         \/ UNCHANGED <<images, status>> /\ End("committed")
         \/ Spend("kill") /\ Killed(images, status)
  BY DEF EnableTimer, Skip
<1>2. /\ TInv /\ run.caller = "post" /\ SetupArtifactsClear(Disk) /\ Len(images) = 1
      /\ images \in Seq(Directory)
  BY <1>1, PostFacts, HostFacts DEF PostSteps, TInv, Typed
<1>3. \A d \in Img : ~Excused(d)
  BY <1>1 DEF Excused, Midway, Before
<1>4. Killed(images, status) => End("killed") /\ (images' = images \/ Lost({}))
  BY <1>2, KilledImages
<1>5. Shaped({Disk})
  BY <1>1, <1>4, StillShaped
<1>6. TxnInv' /\ Advances
  BY <1>1, <1>2, <1>3, <1>5, StillCarried
<1>7. CASE UNCHANGED <<images, status>> /\ End("done")
  <2>1. Disk' = Disk /\ Triple(Disk) = txn.after /\ Disk.journal = None
    BY <1>2, <1>7 DEF Disk, WorkInv, Halfway, SetupArtifactsClear
  <2>2. Told(pc, verdict, Disk, Len(images) = 1, txn)'
    BY <1>1, <1>2, <1>7, <2>1 DEF Told, End, Triple
  <2>3. QED
    BY <1>6, <1>7, <2>2, IdleWorks DEF End
<1>8. CASE End("committed") \/ End("killed")
  BY <1>6, <1>8, SilentWorks DEF End
<1>9. QED
  BY <1>1, <1>4, <1>7, <1>8

\* RemoveKey keeps what the images and the invocation say of the transaction.
LEMMA RemoveKeyExact ==
  ASSUME SInv, TxnInv, WorkInv, Shut, Windows = {}, RemoveKey
  PROVE  TxnInv' /\ WorkInv' /\ Advances
<1> DEFINE removes == run.request.mode = "static" /\ run.request.remove
<1> DEFINE after == Removed(Disk, "credential")
<1> DEFINE leaves == RemoveLeaves(Disk, "credential")
<1>1. /\ pc = "removeKey" /\ UNCHANGED <<wg, timer>>
      /\ txn' = IF removes THEN [txn EXCEPT !.after.key = None, !.removes = TRUE] ELSE txn
      /\ \/ /\ IF removes THEN Gone("credential") ELSE UNCHANGED <<images, status, faults>>
            /\ pc' = "enable" /\ run' = run /\ verdict' = verdict
         \/ removes /\ NotDone(run, leaves)
  BY HostFacts, RemoveKeyLands
<1>2. /\ TInv /\ run.caller = "post" /\ run \in RunType /\ SetupArtifactsClear(Disk)
      /\ Disk.journal = None /\ Img = {Disk} /\ images[1] = Disk /\ txn \in TxnType /\ Disk \in Directory
      /\ (run.request.mode = "static" => Disk.config.source = "static")
  BY <1>1, PostFacts, HostFacts, Hosted DEF PostSteps, Disk, SetupArtifactsClear
<1>3. Triple(Disk) = txn.after
  BY <1>2 DEF WorkInv, Halfway
<1>4. CASE ~removes
  <2>1. UNCHANGED <<images, txn>> /\ pc' = "enable" /\ run' = run
    BY <1>1, <1>4
  <2>2. \A d \in Img : ~Excused(d)
    BY <1>1 DEF Excused, Midway, Before
  <2>3. TxnInv' /\ Advances
    BY <1>1, <1>2, <2>1, <2>2, StillShaped, StillCarried
  <2>4. Disk' = Disk
    BY <2>1 DEF Disk
  <2>5. QED
    BY <1>2, <1>3, <2>1, <2>3, <2>4, PostWorks DEF PostSteps
<1>5. CASE removes
  <2>1. /\ txn'.before = txn.before /\ txn'.kept = txn.kept /\ txn'.removes
        /\ txn'.after = Keyless(txn.after)
    BY <1>1, <1>2, <1>5 DEF TxnType, Keyless
  <2>2. /\ leaves \subseteq Directory /\ after \in leaves /\ Disk \in leaves
        /\ after.journal = None /\ after.config = Disk.config /\ after.credential = None
    BY <1>2, RemoveTypes, RemoveForms DEF RemoveLeaves
  <2>3. \A e \in leaves : SameFiles(e, Disk) \/ e = after
    BY <1>2, RemoveForms
  <2>4. Triple(after) = Keyless(Triple(Disk))
    BY <2>2 DEF Triple, Keyless
  <2>5. Triple(Disk).source = "static" /\ txn.after \in Triples
    BY <1>2, <1>5 DEF Triple, TxnType
  <2> DEFINE X == Triple(Disk)
  <2>6. Keyless(X).source = "static" /\ Keyless(Keyless(X)) = Keyless(X)
    BY <1>3, <2>5 DEF Keyless, Triples
  <2>7. \A e \in Img \cup leaves :
          e \in Directory /\ e.journal = None /\ Recovered(e) = Triple(e) /\ InForce(e)' = Triple(e)
          /\ ~MayCommit(e) /\ Triple(e) \in {X, Keyless(X)}
    <3>1. ASSUME NEW e \in Img \cup leaves
          PROVE  e \in Directory /\ e.journal = None /\ Triple(e) \in {X, Keyless(X)}
      <4>1. e = after \/ SameFiles(e, Disk)
        BY <1>2, <2>3 DEF SameFiles
      <4>2. QED
        BY <1>2, <2>2, <2>4, <4>1 DEF SameFiles, Triple
    <3>2. ASSUME NEW e, e.journal = None
          PROVE  Recovered(e) = Triple(e) /\ InForce(e)' = Triple(e) /\ ~MayCommit(e)
      BY <3>2 DEF Recovered, InForce, Triple, MayCommit, Open
    <3>3. QED
      BY <3>1, <3>2
  <2>8. InForce(images[1]) = X
    BY <1>2, <2>2, <2>7 DEF InForce
  <2> HIDE DEF X, leaves, after
  <2>9. Shaped(leaves)
    <3>1. CASE Gone("credential")
      BY <2>2, <3>1, StoreShaped DEF Gone, after, Shaped
    <3>2. CASE NotDone(run, leaves)
      BY <2>2, <3>2, StoreShaped
    <3>3. QED
      BY <1>1, <1>5, <3>1, <3>2
  <2>10. /\ Img' \subseteq Img \cup leaves /\ Disk' \in Img' /\ images'[1] \in Img'
         /\ \/ Img' = {images'[1]} /\ Disk' = images'[1]
            \/ images'[1] = Disk
    BY <1>2, <2>2, <2>9, ShapedImages DEF TInv
  <2>11. InForce(images[1])' = Triple(images'[1])
    BY <2>7, <2>10 DEF InForce
  <2>12. \A d \in Img' : \/ Triple(d) = Triple(images'[1])
                         \/ Triple(images'[1]) = X /\ Triple(d) = Keyless(X)
    BY <2>7, <2>10 DEF X
  <2>13. X.source = "static" /\ txn'.after = Keyless(X)
    BY <1>3, <2>1, <2>5 DEF X
  <2>14. \A d \in Img' : Recovered(d) = Triple(d) /\ InForce(d)' = Triple(d) /\ ~MayCommit(d)
                         /\ Triple(d) \in {X, Keyless(X)}
    BY <2>7, <2>10
  <2>15. Ordered'
    <3>1. \A d \in Img' : Follows(Triple(images'[1]), Triple(d), txn'.after)
      BY <2>12, <2>13 DEF Follows
    <3>2. QED
      BY <2>11, <2>14, <3>1 DEF Ordered
  <2>16. Bounded'
    <3>1. \A d \in Img' : Accounted(Triple(d), txn')
      BY <2>1, <2>6, <2>13, <2>14 DEF Accounted
    <3>2. QED
      BY <2>14, <3>1 DEF Bounded
  <2>17. Cleared'
    <3>1. \A d \in Img' : Plain(d, Triple(images'[1]), txn')
      BY <2>1, <2>12, <2>13, <2>14 DEF Plain
    <3>2. QED
      BY <3>1 DEF Cleared, Plain, Recovered, Triple
  <2>18. Whole'
    BY <2>14 DEF Whole, MayCommit, MayStillCommit, Open
  <2>19. Advances
    BY <2>8, <2>10, <2>11, <2>13, <2>14 DEF Advances
  <2>20. WorkInv'
    <3>1. CASE Gone("credential") /\ pc' = "enable" /\ run' = run
      <4>1. Triple(Disk') = Keyless(X)
        <5>1. CASE Completed(Removed(Disk, "credential"))
          <6>1. Disk' = after
            BY <2>2, <5>1, CompletedDisk DEF after
          <6>2. QED
            BY <2>4, <6>1 DEF X
        <5>2. CASE Removed(Disk, "credential") = Disk /\ images' = images
          BY <2>4, <5>2 DEF after, Disk, X
        <5>3. QED
          BY <3>1, <5>1, <5>2 DEF Gone
      <4>2. QED
        BY <1>2, <2>13, <3>1, <4>1, PostWorks DEF PostSteps
    <3>2. CASE NotDone(run, leaves)
      BY <1>2, <2>1, <2>2, <3>2, NotDoneWorks
    <3>3. QED
      BY <1>1, <1>5, <3>1, <3>2 DEF leaves
  <2>21. QED
    BY <2>15, <2>16, <2>17, <2>18, <2>19, <2>20 DEF TxnInv
<1>6. QED
  BY <1>4, <1>5

(* ----------------------- the files of a request ------------------------ *)

\* A file of the request is written: what is to be put back stays.
LEMMA FileExact ==
  ASSUME SInv, TxnInv, WorkInv, Shut, Windows = {}, UNCHANGED txn,
         pc \in {"snapshotConfig", "snapshotKey", "writeConfig", "writeKey"},
         NEW leaves \in SUBSET Directory, Disk \in leaves, NEW after \in leaves,
         \A e \in leaves :
           /\ e.journal = Disk.journal /\ Former(e) = Former(Disk) /\ FormerKey(e) = FormerKey(Disk)
           /\ Disk.journal.operation \in StaticOperations => Triple(e) \in {txn.before, txn.after},
         \/ /\ Completed(after) /\ run' = run
            /\ pc' \in ApplySteps
            /\ pc' \in Unwritten => Triple(after) = txn.before
            /\ pc' \in Filed =>
                 /\ after.config = [source |-> txn.before.source, settings |-> txn.after.settings]
                 /\ after.credential = IF pc' \in {"markConfig", "writeKey"} THEN txn.before.key
                                                                          ELSE txn.after.key
            /\ pc' \in Standing => Triple(after) = txn.after
         \/ NotDone(run, leaves)
  PROVE  TxnInv' /\ WorkInv' /\ Advances
<1>1. /\ run.caller = "apply" /\ pc \in ApplySteps /\ ~txn.kept /\ Disk.staging = {}
      /\ Disk \in Directory /\ Disk.journal = run.journal /\ run.journal # None /\ Open(Disk)
      /\ run \in RunType
  BY FilingFacts
<1>2. run.journal.phase \in {"prepared", "config"}
  BY DEF SInv, TInv, Control, JournalAt
<1>3. Recovered(Disk) = txn.before
  BY <1>1 DEF WorkInv, Halfway
<1>4. \A e \in leaves : Recovered(e) = Recovered(Disk)
  BY <1>1, SameRecovered DEF Open
<1>5. \A e \in leaves : ~MayStillCommit(e)
  BY <1>1, <1>2 DEF MayStillCommit
<1>6. \A e \in leaves : Firm(e)
  BY <1>1, <1>3, <1>4, <1>5 DEF Firm, MayCommit, Settles
<1>7. ASSUME Completed(after), run' = run, pc' \in ApplySteps,
             pc' \in Unwritten => Triple(after) = txn.before,
             pc' \in Filed =>
               /\ after.config = [source |-> txn.before.source, settings |-> txn.after.settings]
               /\ after.credential = IF pc' \in {"markConfig", "writeKey"} THEN txn.before.key
                                                                        ELSE txn.after.key,
             pc' \in Standing => Triple(after) = txn.after
      PROVE  WorkInv'
  <2>1. Disk' = after
    BY <1>7, CompletedDisk
  <2>2. /\ run'.caller = "apply" /\ run'.request = run.request /\ run'.supplied = run.supplied
        /\ run'.journal.keyChanged = run.journal.keyChanged
    BY <1>1, <1>7
  <2>3. txn'.before = txn.before /\ txn'.after = txn.after
    OBVIOUS
  <2>4. Recovered(Disk') = txn.before
    BY <1>3, <1>4, <2>1
  <2>5. QED
    BY <1>1, <1>7, <2>1, <2>2, <2>3, <2>4, ApplyWorks
<1>8. (Completed(after) /\ WorkInv') \/ NotDone(run, leaves)
  BY <1>7
<1>9. \A e \in leaves :
           /\ e.journal # None /\ e.journal.operation = run.journal.operation
           /\ txn.kept => Triple(e) = Triple(Disk)
           /\ ~txn.kept => /\ Recovered(e) = Recovered(Disk) /\ Firm(e)
                           /\ MayStillCommit(e) => e.staging \cap {"config", "credential"} = {}
  BY <1>1, <1>4, <1>5, <1>6
<1>10. pc \in ApplySteps \cup ProofSteps
  BY <1>1
<1>11. QED
  BY <1>1, <1>8, <1>9, <1>10, ApplyExact

\* SnapshotConfig keeps what the images and the invocation say of the transaction.
LEMMA SnapshotConfigExact ==
  ASSUME SInv, TxnInv, WorkInv, Shut, Windows = {}, SnapshotConfig
  PROVE  TxnInv' /\ WorkInv' /\ Advances
<1> DEFINE leaves == SnapshotLeaves(Disk, "config", "configPrevious")
<1> DEFINE after == Snapshotted(Disk, "config", "configPrevious")
<1> DEFINE j == run.journal
<1>1. /\ pc = "snapshotConfig" /\ UNCHANGED <<wg, timer, txn>>
      /\ \/ /\ Completed(after)
            /\ pc' = IF j.operation = "static-restore" THEN "markActivating"
                     ELSE IF j.keyChanged /\ j.hadKey THEN "snapshotKey" ELSE "writeConfig"
            /\ run' = run
         \/ NotDone(run, leaves)
  BY HostFacts, SnapshotConfigLands
<1>2. Disk \in Directory /\ Disk.configPrevious = None /\ Disk.journal = run.journal
  BY <1>1, FilingFacts
<1>3. Triple(Disk) = txn.before
  BY <1>1 DEF WorkInv, Halfway, Unwritten
<1>4. leaves \in SUBSET Directory /\ Disk \in leaves /\ after \in leaves
  BY <1>2, SnapshotTypes DEF SnapshotLeaves
<1>5. \A e \in leaves : /\ e.journal = Disk.journal /\ e.config = Disk.config
                        /\ e.credential = Disk.credential
                        /\ e.configPrevious \in {None, Disk.config}
                        /\ e.credentialPrevious = Disk.credentialPrevious
  BY <1>2, SnapshotForms DEF StagesFrom, SameFiles
<1> HIDE DEF leaves, after
<1>6. \A e \in leaves : Former(e) = Former(Disk) /\ FormerKey(e) = FormerKey(Disk) /\ Triple(e) = txn.before
  BY <1>2, <1>3, <1>5 DEF Former, FormerKey, Triple
<1>7. pc' \in {"markActivating", "snapshotKey", "writeConfig"} =>
        pc' \in ApplySteps /\ pc' \notin Filed \cup Standing
  BY DEF ApplySteps, Filed, Standing
<1>8. QED
  BY <1>1, <1>4, <1>5, <1>6, <1>7, FileExact

\* SnapshotKey keeps what the images and the invocation say of the transaction.
LEMMA SnapshotKeyExact ==
  ASSUME SInv, TxnInv, WorkInv, Shut, Windows = {}, SnapshotKey
  PROVE  TxnInv' /\ WorkInv' /\ Advances
<1> DEFINE leaves == SnapshotLeaves(Disk, "credential", "credentialPrevious")
<1> DEFINE after == Snapshotted(Disk, "credential", "credentialPrevious")
<1>1. /\ pc = "snapshotKey" /\ UNCHANGED <<wg, timer, txn>>
      /\ \/ Completed(after) /\ pc' = "writeConfig" /\ run' = run
         \/ NotDone(run, leaves)
  BY HostFacts, SnapshotKeyLands
<1>2. Disk \in Directory /\ Disk.credentialPrevious = None /\ Disk.journal = run.journal
  BY <1>1, FilingFacts
<1>3. Triple(Disk) = txn.before
  BY <1>1 DEF WorkInv, Halfway, Unwritten
<1>4. leaves \in SUBSET Directory /\ Disk \in leaves /\ after \in leaves
  BY <1>2, SnapshotTypes DEF SnapshotLeaves
<1>5. \A e \in leaves : /\ e.journal = Disk.journal /\ e.config = Disk.config
                        /\ e.credential = Disk.credential
                        /\ e.configPrevious = Disk.configPrevious
                        /\ e.credentialPrevious \in {None, Disk.credential}
  BY <1>2, SnapshotForms DEF StagesFrom, SameFiles
<1> HIDE DEF leaves, after
<1>6. \A e \in leaves : Former(e) = Former(Disk) /\ FormerKey(e) = FormerKey(Disk) /\ Triple(e) = txn.before
  BY <1>2, <1>3, <1>5 DEF Former, FormerKey, Triple
<1>7. "writeConfig" \in ApplySteps /\ "writeConfig" \notin Filed \cup Standing
  BY DEF ApplySteps, Filed, Standing
<1>8. QED
  BY <1>1, <1>4, <1>5, <1>6, <1>7, FileExact

\* WriteConfig keeps what the images and the invocation say of the transaction.
LEMMA WriteConfigExact ==
  ASSUME SInv, TxnInv, WorkInv, Shut, Windows = {}, WriteConfig
  PROVE  TxnInv' /\ WorkInv' /\ Advances
<1> DEFINE leaves == WriteLeaves(Disk, "config", Asks(run.request))
<1> DEFINE after == Written(Disk, "config", Asks(run.request))
<1>1. /\ pc = "writeConfig" /\ UNCHANGED <<wg, timer, txn>>
      /\ Asks(run.request) \in Config
      /\ \/ /\ Completed(after) /\ run' = run
            /\ pc' = IF run.request.mode = "api" THEN "markConfig" ELSE "markActivated"
         \/ NotDone(run, leaves)
  BY HostFacts, WriteConfigLands
<1>2. /\ Disk \in Directory /\ Disk.configPrevious # None /\ Disk.journal = run.journal
      /\ run.caller = "apply"
      /\ run.request.mode = "api" <=> run.journal.operation \in ApiOperations
  BY <1>1, FilingFacts
<1>3. Triple(Disk) = txn.before
  BY <1>1 DEF WorkInv, Halfway, Unwritten
<1>4. txn.after = IF run.request.mode = "api"
                THEN [source |-> "api", settings |-> run.request.settings,
                      key |-> IF run.journal.keyChanged THEN run.supplied ELSE txn.before.key]
                ELSE [txn.before EXCEPT !.source = "static"]
  BY <1>2 DEF WorkInv, Aims
<1>5. leaves \in SUBSET Directory /\ Disk \in leaves /\ after \in leaves
  BY <1>1, <1>2, WriteTypes DEF WriteLeaves, Entry
<1>6. \A e \in leaves : /\ e.journal = Disk.journal /\ e.config \in {Disk.config, Asks(run.request)}
                        /\ e.credential = Disk.credential
                        /\ e.configPrevious = Disk.configPrevious
                        /\ e.credentialPrevious = Disk.credentialPrevious
  BY <1>1, <1>2, ConfigForms DEF StagesFrom, SameFiles
<1>7. after.config = Asks(run.request) /\ after.credential = Disk.credential
  BY <1>2 DEF Written, Directory
<1> HIDE DEF leaves, after
<1>8. \A e \in leaves : Former(e) = Former(Disk) /\ FormerKey(e) = FormerKey(Disk)
  BY <1>2, <1>6 DEF Former, FormerKey
<1>9. run.request.mode # "api" =>
        Triple(after) = txn.after /\ \A e \in leaves : Triple(e) \in {txn.before, txn.after}
  <2>1. SUFFICES ASSUME run.request.mode # "api"
                 PROVE  Triple(after) = txn.after /\ \A e \in leaves : Triple(e) \in {txn.before, txn.after}
    OBVIOUS
  <2>2. Asks(run.request) = [Disk.config EXCEPT !.source = "static"] /\ Disk.config \in Config
    BY <1>2, <2>1 DEF Asks, Directory
  <2>3. [source |-> Asks(run.request).source, settings |-> Asks(run.request).settings,
         key |-> Disk.credential] = txn.after
    BY <1>3, <1>4, <2>1, <2>2 DEF Triple, Config
  <2>4. QED
    BY <1>3, <1>6, <1>7, <2>3 DEF Triple
<1>10. run.request.mode = "api" =>
         after.config = [source |-> txn.before.source, settings |-> txn.after.settings]
         /\ after.credential = txn.before.key
  <2>1. SUFFICES ASSUME run.request.mode = "api"
                 PROVE  after.config = [source |-> txn.before.source, settings |-> txn.after.settings]
                        /\ after.credential = txn.before.key
    OBVIOUS
  <2>2. Asks(run.request) = [Disk.config EXCEPT !.settings = run.request.settings]
        /\ Disk.config \in Config
    BY <1>2, <2>1 DEF Asks, Directory
  <2>3. QED
    BY <1>3, <1>4, <1>7, <2>1, <2>2 DEF Triple, Config
<1>11. Disk.journal.operation \in StaticOperations => run.request.mode # "api"
  BY <1>2 DEF StaticOperations, ApiOperations
<1>12. "markConfig" \in ApplySteps /\ "markConfig" \notin Unwritten \cup Standing
       /\ "markActivated" \in ApplySteps /\ "markActivated" \notin Unwritten \cup Filed
  BY DEF ApplySteps, Filed, Standing, Unwritten
<1>13. QED
  BY <1>1, <1>5, <1>6, <1>8, <1>9, <1>10, <1>11, <1>12, FileExact

\* WriteKey keeps what the images and the invocation say of the transaction.
LEMMA WriteKeyExact ==
  ASSUME SInv, TxnInv, WorkInv, Shut, Windows = {}, WriteKey
  PROVE  TxnInv' /\ WorkInv' /\ Advances
<1> DEFINE leaves == WriteLeaves(Disk, "credential", run.supplied)
<1> DEFINE after == Written(Disk, "credential", run.supplied)
<1>1. /\ pc = "writeKey" /\ UNCHANGED <<wg, timer, txn>>
      /\ \/ Completed(after) /\ pc' = "markKey" /\ run' = run
         \/ NotDone(run, leaves)
  BY HostFacts, WriteKeyLands
<1>2. /\ Disk \in Directory /\ Disk.journal = run.journal /\ run.caller = "apply"
      /\ run.journal \in Journal
      /\ (run.request.mode = "api" <=> run.journal.operation \in ApiOperations)
      /\ (Disk.credentialPrevious # None <=> KeepsKey(run.journal))
  BY <1>1, FilingFacts
<1>3. run.journal.keyChanged /\ run.journal.operation \in ApiOperations /\ TInv
  BY <1>1, HostFacts DEF TInv, Control, JournalAt
<1>4. txn.after.key = run.supplied
  BY <1>2, <1>3 DEF WorkInv, Aims
<1>5. leaves \in SUBSET Directory /\ Disk \in leaves /\ after \in leaves
  BY <1>2, <1>3, RunFacts, WriteTypes DEF WriteLeaves, Entry
<1>6. \A e \in leaves : /\ e.journal = Disk.journal /\ e.config = Disk.config
                        /\ e.configPrevious = Disk.configPrevious
                        /\ e.credentialPrevious = Disk.credentialPrevious
  BY <1>2, KeyForms DEF StagesFrom, SameFiles
<1>7. after.config = Disk.config /\ after.credential = run.supplied
  BY <1>2 DEF Written, Directory
<1> HIDE DEF leaves, after
<1>8. \A e \in leaves : Former(e) = Former(Disk) /\ FormerKey(e) = FormerKey(Disk)
  BY <1>2, <1>3, <1>6 DEF Former, FormerKey, KeepsKey
<1>9. Disk.config = [source |-> txn.before.source, settings |-> txn.after.settings]
  BY <1>1 DEF WorkInv, Halfway, Filed
<1>10. Disk.journal.operation \notin StaticOperations
  BY <1>2, <1>3 DEF StaticOperations, ApiOperations
<1>11. "markKey" \in ApplySteps /\ "markKey" \notin Unwritten \cup Standing
  BY DEF ApplySteps, Standing, Unwritten
<1>12. QED
  BY <1>1, <1>4, <1>5, <1>6, <1>7, <1>8, <1>9, <1>10, <1>11, FileExact

(* ----------------------- a transaction begins -------------------------- *)

\* Validate keeps what the images and the invocation say of the transaction.
LEMMA ValidateExact ==
  ASSUME SInv, TxnInv, WorkInv, Shut, Windows = {}, Validate
  PROVE  TxnInv' /\ WorkInv' /\ Advances
<1> DEFINE self == [run EXCEPT !.caller = "apply"]
<1>1. /\ pc = "validate" /\ UNCHANGED <<timer, txn>>
      /\ Calls(ValidationResults, Go("prepare", self), End("refused"))
  BY HostFacts, ValidateLands
<1>2. /\ TInv /\ run \in RunType /\ SetupArtifactsClear(Disk)
  BY <1>1, HostFacts, RunFacts DEF SInv, RunInv, Runs, Starting
<1>3. \A r \in ValidationResults : r \in ResultType /\ r.source = Disk.config.source
  BY ValidationParts
<1>4. \A d \in Img : ~Excused(d)
  BY <1>1 DEF Excused, Midway, Before
<1> HIDE DEF Calls
<1>5. TxnInv' /\ Advances
  BY <1>1, <1>3, <1>4, CallsCarried
<1>6. ASSUME images' = images, Go("prepare", self) PROVE WorkInv'
  <2>1. /\ Disk' = Disk /\ pc' = "prepare" /\ run'.caller = "apply" /\ run'.request = run.request
        /\ run'.supplied = run.supplied /\ run'.journal = run.journal /\ txn' = txn
    BY <1>1, <1>2, <1>6 DEF Disk, Go, RunType
  <2>2. Triple(Disk) = txn.before /\ Recovered(Disk) = txn.before
    BY <1>1, <1>2 DEF WorkInv, Halfway, SetupArtifactsClear, Recovered
  <2>3. Undoes(pc, run, Disk, Len(images) = 1, wg)'
    BY <2>1 DEF Undoes, RollbackSteps
  <2>4. Aims(pc, run, txn)'
    BY <1>1, <2>1 DEF WorkInv, Aims
  <2>5. Halfway(pc, run, Disk, txn)'
    BY <2>1, <2>2 DEF Halfway, Unwritten, Filed, Standing, Recovered, Triple
  <2>6. Told(pc, verdict, Disk, Len(images) = 1, txn)'
    BY <2>1 DEF Told
  <2>7. QED
    BY <2>3, <2>4, <2>5, <2>6 DEF WorkInv
<1>7. \A r \in ValidationResults : r.ok /\ CallEnds(r) /\ Go("prepare", self) => WorkInv'
  BY <1>3, <1>6, CallStill
<1>8. \A r \in ValidationResults : ~r.ok /\ CallEnds(r) /\ End("refused") => WorkInv'
  BY SilentWorks DEF End
<1>9. ValidationResults \subseteq ResultType
  BY <1>3
<1>10. WorkInv'
  BY <1>1, <1>7, <1>8, <1>9, CallsWork
<1>11. QED
  BY <1>5, <1>10

\* The key a request is to install is the one its record speaks of.
LEMMA KeyAsked ==
  ASSUME SInv, pc = "ready", NEW r \in Request, run.request = r, Admitted(r), r.mode = "api"
  PROVE  EffectiveKey(Disk, run.supplied) =
           IF NewJournal(r).keyChanged THEN run.supplied ELSE Disk.credential
<1>1. NewJournal(r).keyChanged <=> Disk.credential = None \/ r.replace
  BY DEF NewJournal, KeyChanges
<1>2. NewJournal(r).keyChanged => run.supplied # None
  BY BegunAgrees
<1>3. CASE NewJournal(r).keyChanged
  BY <1>2, <1>3 DEF EffectiveKey
<1>4. CASE ~NewJournal(r).keyChanged
  <2>1. Disk.credential # None /\ ~r.replace
    BY <1>1, <1>4
  <2>2. Disk.config.source \in {"static", "api"}
    BY HostFacts DEF Directory, Config
  <2>3. run.supplied # None => run.supplied = Disk.credential
    BY <2>1, <2>2 DEF Admitted, PrecheckAccepts, RetainedKeyMatches
  <2>4. QED
    BY <1>4, <2>3 DEF EffectiveKey
<1>5. QED
  BY <1>3, <1>4

\* There is one image, or there are more.
LEMMA OneOrMore == \A n \in Nat : n >= 1 => n = 1 \/ n > 1
OBVIOUS

\* A transaction begins: what was in force stays, and is what it found.
LEMMA BegunExact ==
  ASSUME SInv, TxnInv, Disk.journal = None, images' = images,
         txn'.before = Triple(Disk), txn'.kept = FALSE,
         txn'.removes = (txn.removes /\ Len(images) > 1)
  PROVE  TxnInv' /\ Advances
<1>0. Len(images) = 1 \/ Len(images) > 1
  <2>1. Len(images) \in Nat /\ Len(images) >= 1
    BY HostFacts, TypedFacts
  <2>2. QED
    BY <2>1, OneOrMore, Zenon
<1> DEFINE o == Triple(images[1])
<1>1. /\ Img' = Img /\ Disk' = Disk /\ images'[1] = images[1] /\ Disk \in Img /\ images[1] \in Img
      /\ (\A d \in Img : d \in Directory) /\ o \in Triples
      /\ Len(images) \in Nat /\ Len(images) >= 1
  BY HostFacts, TypedFacts, InForceTypes DEF Img, Disk, Typed
<1>2. \A d \in Img : Plain(d, o, txn)
  BY DEF TxnInv, Cleared
<1>3. \A d \in Img : InForce(d) = Triple(d) /\ InForce(d)' = Triple(d) /\ Recovered(d) = Triple(d)
  BY <1>2 DEF InForce, Plain, Recovered, Triple
<1>4. InForce(images[1])' = o /\ InForce(images[1]) = o
  BY <1>1, <1>3 DEF InForce
<1>5. \A d \in Img : Plain(d, o, txn')
  <2>1. CASE Len(images) = 1
    <3>1. Img = {images[1]}
      BY <2>1 DEF Img
    <3>2. QED
      BY <1>3, <3>1 DEF Plain
  <2>2. CASE Len(images) > 1
    BY <1>2, <2>2 DEF Plain
  <2>3. QED
    BY <1>0, <2>1, <2>2
<1>6. Keyless(Keyless(o)) = Keyless(o) /\ Keyless(o).source = o.source
  BY <1>1 DEF Keyless, Triples
<1> HIDE DEF o
<1>7. Ordered'
  <2>1. \A d \in Img : Follows(o, Triple(d), txn'.after)
    BY <1>5 DEF Plain, Follows
  <2>2. QED
    BY <1>1, <1>3, <1>4, <2>1 DEF Ordered
<1>8. Bounded'
  <2>1. \A d \in Img : Accounted(Triple(d), txn')
    <3>1. SUFFICES ASSUME NEW d \in Img PROVE Accounted(Triple(d), txn')
      OBVIOUS
    <3>2. Plain(d, o, txn') /\ Plain(Disk, o, txn')
      BY <1>1, <1>5
    <3>3. QED
      BY <1>6, <3>2 DEF Plain, Accounted
  <2>2. QED
    BY <1>1, <1>3, <2>1 DEF Bounded
<1>9. Cleared'
  BY <1>1, <1>5 DEF Cleared, Plain, Recovered, Triple, o
<1>10. Whole'
  <2>1. \A d \in Img : Settles(d, txn')
    BY <1>3 DEF Settles
  <2>2. QED
    BY <1>1, <2>1 DEF Whole, Settles, Recovered, Triple
<1>11. Advances
  BY <1>4 DEF Advances
<1>12. QED
  BY <1>7, <1>8, <1>9, <1>10, <1>11 DEF TxnInv

\* Begin keeps what the images and the invocation say of the transaction.
LEMMA BeginExact ==
  ASSUME SInv, TxnInv, WorkInv, Shut, Windows = {}, Begin
  PROVE  TxnInv' /\ WorkInv' /\ Advances
<1> DEFINE r == run.request
<1>1. /\ pc = "ready" /\ UNCHANGED <<images, wg, status, timer, faults>>
      /\ \/ /\ txn' = txn
            /\ \/ End("blocked") \/ End("refused")
               \/ ~SetupArtifactsClear(Disk) /\ End("stuck")
         \/ /\ SetupArtifactsClear(Disk) /\ ~wg.candidate /\ wg.switching = {} /\ Admitted(r)
            /\ txn' = Started(r)
            /\ IF r.mode = "api" THEN Go("validate", Opened(r))
                                 ELSE Go("prepare", OpenedApply(r))
  BY HostFacts, BeginLands
<1>2. TInv /\ run.caller = "none" /\ r \in Request
  BY <1>1, HostFacts, RunFacts DEF TInv, Control, CallerAt
<1>3. CASE txn' = txn /\ (End("blocked") \/ End("refused") \/ End("stuck"))
  <2>1. \A d \in Img : ~Excused(d)
    BY <1>1 DEF Excused, Midway, Before
  <2>2. TxnInv' /\ Advances
    BY <1>1, <1>2, <1>3, <2>1, StillShaped, StillCarried
  <2>3. WorkInv'
    BY <1>3, SilentWorks DEF End
  <2>4. QED
    BY <2>2, <2>3
<1>4. CASE /\ SetupArtifactsClear(Disk) /\ Admitted(r) /\ txn' = Started(r)
           /\ IF r.mode = "api" THEN Go("validate", Opened(r)) ELSE Go("prepare", OpenedApply(r))
  <2>1. /\ txn'.before = Triple(Disk) /\ txn'.kept = FALSE
        /\ txn'.removes = (txn.removes /\ Len(images) > 1)
        /\ txn'.after = Asked(r, run.supplied)
    BY <1>4 DEF Started
  <2>2. TxnInv' /\ Advances
    BY <1>1, <1>4, <2>1, BegunExact DEF SetupArtifactsClear
  <2>3. /\ run'.request = r /\ run'.supplied = run.supplied /\ run'.journal = NewJournal(r)
        /\ \/ pc' = "validate" /\ run'.caller = "none"
           \/ pc' = "prepare" /\ run'.caller = "apply"
    BY <1>2, <1>4, OpenedTypes DEF Go
  <2>4. Disk' = Disk /\ Triple(Disk) = txn'.before /\ Recovered(Disk) = txn'.before
    BY <1>1, <1>4, <2>1 DEF Disk, SetupArtifactsClear, Recovered
  <2>5. Undoes(pc, run, Disk, Len(images) = 1, wg)'
    BY <2>3 DEF Undoes, RollbackSteps
  <2>6. Aims(pc, run, txn)'
    <3>1. CASE r.mode = "api"
      <4>1. txn'.after = [source |-> "api", settings |-> r.settings,
                          key |-> EffectiveKey(Disk, run.supplied)]
        BY <2>1, <3>1 DEF Asked
      <4>2. EffectiveKey(Disk, run.supplied) =
              IF NewJournal(r).keyChanged THEN run.supplied ELSE Disk.credential
        BY <1>1, <1>2, <1>4, <3>1, KeyAsked
      <4>3. txn'.before.key = Disk.credential
        BY <2>1 DEF Triple
      <4>4. QED
        BY <2>3, <3>1, <4>1, <4>2, <4>3 DEF Aims
    <3>2. CASE r.mode # "api"
      <4>1. txn'.after = [txn'.before EXCEPT !.source = "static"]
        BY <2>1, <3>2 DEF Asked
      <4>2. QED
        BY <2>3, <3>2, <4>1 DEF Aims
    <3>3. QED
      BY <3>1, <3>2
  <2>7. Halfway(pc, run, Disk, txn)'
    BY <2>1, <2>3, <2>4 DEF Halfway, Unwritten, Filed, Standing, Recovered, Triple
  <2>8. Told(pc, verdict, Disk, Len(images) = 1, txn)'
    BY <2>3 DEF Told
  <2>9. QED
    BY <2>2, <2>5, <2>6, <2>7, <2>8 DEF WorkInv
<1>5. QED
  BY <1>1, <1>3, <1>4

\* Prepare keeps what the images and the invocation say of the transaction.
LEMMA PrepareExact ==
  ASSUME SInv, TxnInv, WorkInv, Shut, Windows = {}, Prepare
  PROVE  TxnInv' /\ WorkInv' /\ Advances
<1> DEFINE self == Phased("prepared")
           j == self.journal
           leaves == WriteLeaves(Disk, "journal", j)
           after == Written(Disk, "journal", j)
<1>1. pc = "prepare" /\ Mark(pc, "prepared", "snapshotConfig")
  BY DEF Prepare, Mark
<1>2. /\ TInv /\ run.caller = "apply" /\ run \in RunType /\ run.journal # None
      /\ run.journal.phase = "prepared" /\ Disk \in Directory /\ Disk \in Img
      /\ (\A d \in Img : d \in Directory)
  BY <1>1, HostFacts, RunFacts, TypedFacts DEF TInv, Control, CallerAt, JournalAt, ApplySteps
<1>3. "prepared" \in Phases /\ "prepared" \in OperationPhases(run.journal.operation)
      /\ (run.journal.proof <=> "prepared" \in ProofPhases)
  BY <1>2, Unproved DEF Phases, OperationPhases, ProofPhases
<1>4. /\ self \in RunType /\ self.caller = run.caller /\ self.request = run.request
      /\ self.supplied = run.supplied /\ j \in Journal /\ j # None /\ j.phase = "prepared"
      /\ j.operation = run.journal.operation /\ j.keyChanged = run.journal.keyChanged
      /\ j.hadKey = run.journal.hadKey
  BY <1>2, <1>3, PhasedKeeps, PhasedAt
<1>5. /\ UNCHANGED <<wg, timer, txn>>
      /\ \/ Completed(after) /\ pc' = "snapshotConfig" /\ run' = self
         \/ NotDone(self, leaves)
  BY <1>1, <1>2, <1>3, MarkLands
<1>6. SetupArtifactsClear(Disk) /\ ~txn.kept /\ (run.journal.hadKey <=> Disk.credential # None)
  BY <1>1 DEF SInv, RunInv, Runs, Starting
<1>7. Triple(Disk) = txn.before /\ Recovered(Disk) = txn.before
  BY <1>1, <1>6 DEF WorkInv, Halfway, Unwritten, SetupArtifactsClear, Recovered
<1> HIDE DEF self, j
<1>8. ASSUME NEW e \in leaves
      PROVE  /\ e \in Directory /\ Triple(e) = txn.before /\ Recovered(e) = txn.before
             /\ e.journal \in {None, j}
  <2>1. e \in Directory
    BY <1>2, <1>4, WriteTypes DEF Entry
  <2>2. \/ StagesFrom(e, Disk, "journal")
        \/ /\ e.journal = j /\ e.config = Disk.config
           /\ e.credential = Disk.credential /\ e.configPrevious = Disk.configPrevious
           /\ e.credentialPrevious = Disk.credentialPrevious
    BY <1>2, JournalForms
  <2>3. CASE StagesFrom(e, Disk, "journal")
    BY <1>2, <1>6, <1>7, <2>1, <2>3, SameForce DEF StagesFrom, SameFiles, SetupArtifactsClear
  <2>4. CASE /\ e.journal = j /\ e.config = Disk.config
             /\ e.credential = Disk.credential /\ e.configPrevious = Disk.configPrevious
             /\ e.credentialPrevious = Disk.credentialPrevious
    <3>1. Triple(e) = txn.before
      BY <1>7, <2>4 DEF Triple
    <3>2. Open(e)
      BY <1>4, <2>4 DEF Open, ClosedPhases
    <3>3. e.config = Former(e) /\ e.credential = FormerKey(e)
      BY <1>4, <1>6, <2>4 DEF Former, FormerKey, SetupArtifactsClear
    <3>4. Recovered(e) = Triple(e)
      BY <2>1, <3>2, <3>3, RecoveredIs
    <3>5. QED
      BY <2>1, <2>4, <3>1, <3>4
  <2>5. QED
    BY <2>2, <2>3, <2>4
<1>9. Disk \in leaves /\ after \in leaves /\ leaves \in SUBSET Directory
  <2>1. Disk \in leaves /\ after \in leaves
    BY DEF WriteLeaves
  <2>2. QED
    BY <1>8, <2>1
<1> HIDE DEF leaves, after
<1>10. Shaped(leaves)
  BY <1>5, <1>9, StoreShaped
<1>11. TxnInv' /\ Advances
  <2>1. \A e \in leaves : Kin(e)
    BY <1>2, <1>7, <1>8 DEF Kin, InForce
  <2>2. \A d \in Img : Plain(d, Triple(images[1]), txn)
    BY <1>6 DEF TxnInv, Cleared, SetupArtifactsClear
  <2>3. \A d \in leaves : Plain(d, Triple(images[1]), txn)
    BY <1>2, <1>7, <1>8, <2>2 DEF Plain
  <2>4. \A d \in Img : Firm(d)
    BY <1>1, <1>6, FirmImages DEF Midway, Before
  <2>5. \A d \in leaves : Settles(d, txn)
    BY <1>8 DEF Settles
  <2>6. Img' \subseteq Img \cup leaves
    BY <1>2, <1>9, <1>10, ShapedImages DEF TInv
  <2>7. \A d \in Img' : MayCommit(d) => Settles(d, txn)
    BY <2>4, <2>5, <2>6 DEF Firm
  <2>8. QED
    BY <1>2, <1>5, <1>9, <1>10, <2>1, <2>2, <2>3, <2>7, Carried
<1>12. CASE Completed(after) /\ pc' = "snapshotConfig" /\ run' = self
  <2>1. Disk' = after
    BY <1>9, <1>12, CompletedDisk
  <2>2. Triple(Disk') = txn.before /\ Recovered(Disk') = txn.before
    BY <1>8, <1>9, <2>1
  <2>3. pc' \in ApplySteps /\ pc' \notin Filed \cup Standing
    BY <1>12 DEF ApplySteps, Filed, Standing
  <2>4. run'.journal.keyChanged = run.journal.keyChanged
    BY <1>4, <1>12 DEF j
  <2>5. QED
    BY <1>2, <1>4, <1>5, <1>11, <1>12, <2>2, <2>3, <2>4, ApplyWorks
<1>13. CASE NotDone(self, leaves)
  <2>1. ASSUME NEW e \in leaves
        PROVE  /\ Recovered(e) = txn.before /\ ~MayStillCommit(e)
               /\ e.journal # None => e.journal.operation = self.journal.operation
    <3>1. Recovered(e) = txn.before /\ e.journal \in {None, j}
      BY <1>8
    <3>2. ~MayStillCommit(e)
      BY <1>4, <3>1 DEF MayStillCommit
    <3>3. QED
      BY <3>1, <3>2 DEF j
  <2>2. QED
    BY <1>2, <1>4, <1>5, <1>9, <1>11, <1>13, <2>1, NotDoneWorks
<1>14. QED
  BY <1>5, <1>12, <1>13

(* --------------------- the commands of the runtime --------------------- *)

\* What a command of the runtime leaves when it returns.
LEMMA CallReturns ==
  ASSUME Typed, NEW r \in ResultType, images' = LeftOf(r)
  PROVE  /\ Sourced(r.source) \in Directory
         /\ \/ r.ok /\ images' = <<Sourced(r.source)>>
            \/ images' = images /\ Sourced(r.source) = Disk
            \/ ~r.ok /\ Sourced(r.source) # Disk /\ Extends({Sourced(r.source)})
<1>1. /\ images \in Seq(Directory) /\ Len(images) >= 1 /\ Disk \in Directory /\ Disk \in Img
  BY TypedFacts DEF Typed
<1>2. r.source \in {"static", "api"} /\ r.ok \in BOOLEAN
  BY DEF ResultType
<1>3. QED
  BY <1>1, <1>2, LeftLands

\* and what its end leaves in place.
LEMMA CallLeaves ==
  ASSUME SInv, NEW r \in ResultType, CallEnds(r)
  PROVE  LET e == Sourced(r.source)
         IN /\ Disk' = e /\ e \in Directory
            /\ images' = <<e>> \/ images' = images \/ ~r.ok
<1>1. Typed /\ images' = LeftOf(r)
  BY HostFacts DEF CallEnds
<1>2. /\ Sourced(r.source) \in Directory
      /\ \/ r.ok /\ images' = <<Sourced(r.source)>>
         \/ images' = images /\ Sourced(r.source) = Disk
         \/ ~r.ok /\ Sourced(r.source) # Disk /\ Extends({Sourced(r.source)})
  BY <1>1, CallReturns
<1>3. CASE r.ok /\ images' = <<Sourced(r.source)>>
  BY <1>2, <1>3, OneImage
<1>4. CASE images' = images /\ Sourced(r.source) = Disk
  BY <1>2, <1>4 DEF Disk
<1>5. CASE ~r.ok /\ Extends({Sourced(r.source)})
  BY <1>2, <1>5 DEF Extends
<1>6. QED
  BY <1>2, <1>3, <1>4, <1>5

\* A source that is flipped under a record with its snapshot leaves what is to be
\* put back.
LEMMA SourcedRecovered ==
  ASSUME SInv, Open(Disk), Disk.configPrevious # None, NEW s \in {"static", "api"}
  PROVE  LET e == Sourced(s)
         IN /\ e \in Directory /\ e.journal = Disk.journal /\ e.staging = Disk.staging
            /\ Recovered(e) = Recovered(Disk)
            /\ Triple(e) = [Triple(Disk) EXCEPT !.source = s]
            /\ Disk.config.source = s => e = Disk
<1> DEFINE e == Sourced(s)
<1>1. /\ e \in Directory /\ e.journal = Disk.journal /\ e.credential = Disk.credential
      /\ e.configPrevious = Disk.configPrevious
      /\ e.credentialPrevious = Disk.credentialPrevious /\ e.staging = Disk.staging
      /\ e.config.source = s /\ e.config.settings = Disk.config.settings
      /\ Disk.config.source = s => e = Disk
  BY SourcedForms
<1> HIDE DEF e
<1>2. Former(e) = Former(Disk) /\ FormerKey(e) = FormerKey(Disk)
  BY <1>1 DEF Former, FormerKey
<1>3. Recovered(e) = Recovered(Disk)
  BY <1>1, <1>2, HostFacts, SameRecovered DEF Open
<1>4. Triple(e) = [Triple(Disk) EXCEPT !.source = s]
  BY <1>1 DEF Triple
<1>5. QED
  BY <1>1, <1>3, <1>4 DEF e

\* Revalidate keeps what the images and the invocation say of the transaction.
LEMMA RevalidateExact ==
  ASSUME SInv, TxnInv, WorkInv, Shut, Windows = {}, Revalidate
  PROVE  TxnInv' /\ WorkInv' /\ Advances
<1> DEFINE next == IF Activates THEN "activate" ELSE "markActivated"
<1>1. /\ pc = "revalidate" /\ UNCHANGED <<timer, txn>>
      /\ Calls(ValidationResults, Go(next, run), Raise(run))
  BY HostFacts, RevalidateLands
<1>2. /\ TInv /\ run \in RunType /\ run.caller = "apply" /\ ~txn.kept /\ Disk.staging = {}
      /\ Disk.journal = run.journal /\ Disk \in Directory
      /\ run.request.mode = "api" <=> run.journal.operation \in ApiOperations
  BY <1>1, HostFacts, FilingFacts
<1>3. run.request.mode = "api"
  BY <1>1, <1>2 DEF TInv, Control, JournalAt
<1>4. \A r \in ValidationResults : r \in ResultType /\ r.source = Disk.config.source
  BY ValidationParts
<1>5. \A d \in Img : ~Excused(d)
  BY <1>1 DEF Excused, Midway, Before
<1> HIDE DEF Calls, next
<1>6. TxnInv' /\ Advances
  BY <1>1, <1>4, <1>5, CallsCarried
<1>7. /\ Disk.config = [source |-> txn.before.source, settings |-> txn.after.settings]
      /\ Disk.credential = txn.after.key /\ Recovered(Disk) = txn.before
  BY <1>1, <1>2 DEF WorkInv, Halfway, Filed
<1>8. ASSUME images' = images, Go(next, run) PROVE WorkInv'
  <2>1. Disk' = Disk /\ pc' = next /\ run' = run
    BY <1>8 DEF Disk, Go
  <2>2. next \in {"activate", "markActivated"} /\ (next = "markActivated" => Disk.config.source # "static")
    BY DEF next, Activates
  <2>3. next = "markActivated" => Triple(Disk) = txn.after
    <3>1. Disk.config.source \in {"static", "api"}
      BY <1>2 DEF Directory, Config
    <3>2. next = "markActivated" => Disk.config.source = "api"
      BY <2>2, <3>1
    <3>3. txn.after = [source |-> "api", settings |-> txn.after.settings, key |-> txn.after.key]
      BY <1>2, <1>3 DEF WorkInv, Aims
    <3>4. Disk.config.settings = txn.after.settings
      BY <1>7
    <3>5. QED
      BY <1>7, <3>2, <3>3, <3>4 DEF Triple
  <2>4. pc' \in ApplySteps /\ pc' \notin Unwritten
        /\ pc' \notin {"markConfig", "writeKey"} /\ (pc' \in Standing => next = "markActivated")
    BY <2>1, <2>2 DEF ApplySteps, Unwritten, Standing
  <2>5. QED
    BY <1>1, <1>2, <1>7, <2>1, <2>3, <2>4, ApplyWorks
<1>9. ASSUME images' = images, Raise(run) PROVE WorkInv'
  <2>1. Disk' = Disk
    BY <1>9 DEF Disk
  <2>2. QED
    BY <1>1, <1>2, <1>7, <1>9, <2>1, RaiseWorks
<1>10. WorkInv'
  <2>1. \A r \in ValidationResults : CallEnds(r) => images' = images
    BY <1>4, CallStill
  <2>2. \A r \in ValidationResults : r.ok /\ CallEnds(r) /\ Go(next, run) => WorkInv'
    BY <1>8, <2>1
  <2>3. \A r \in ValidationResults : ~r.ok /\ CallEnds(r) /\ Raise(run) => WorkInv'
    BY <1>9, <2>1
  <2>4. ValidationResults \subseteq ResultType
    BY <1>4
  <2>5. QED
    BY <1>1, <2>2, <2>3, <2>4, CallsWork
<1>11. QED
  BY <1>6, <1>10

\* A command that may flip the source of a request under way.
LEMMA SourcingCarried ==
  ASSUME SInv, TxnInv, Shut, Windows = {}, pc \in {"activate", "restoreStatic"},
         Open(Disk), Disk.configPrevious # None, ~txn.kept,
         NEW r \in ResultType, CallEnds(r) \/ CallCut(r), Firm(Sourced(r.source)),
         txn'.before = txn.before, txn'.after = txn.after, txn'.removes = txn.removes,
         txn'.kept = txn.kept
  PROVE  TxnInv' /\ Advances
<1> DEFINE e == Sourced(r.source)
<1>1. /\ TInv /\ Typed /\ Disk \in Directory /\ Disk \in Img
      /\ r.source \in {"static", "api"} /\ r.ok \in BOOLEAN
  BY HostFacts DEF ResultType
<1>2. e \in Directory /\ Recovered(e) = Recovered(Disk) /\ e.journal # None
  BY <1>1, SourcedRecovered DEF Open
<1>3. Shaped({Disk, e})
  BY <1>1, <1>2, CallShaped
<1>4. \A d \in Img : Firm(d)
  BY FirmImages DEF Midway, Before
<1> HIDE DEF e
<1>5. Kin(e) /\ Kin(Disk) /\ Firm(e) /\ Disk.journal # None
  BY <1>2 DEF Kin, InForce, Open, e
<1>6. QED
  BY <1>1, <1>2, <1>3, <1>4, <1>5, CarriedFirm

\* Activate keeps what the images and the invocation say of the transaction.
LEMMA ActivateExact ==
  ASSUME SInv, TxnInv, WorkInv, Shut, Windows = {}, Activate
  PROVE  TxnInv' /\ WorkInv' /\ Advances
<1>1. /\ pc = "activate" /\ UNCHANGED <<timer, txn>>
      /\ Calls(ActivationResults, Go("markActivated", run), Raise(run))
  BY HostFacts, ActivateLands
<1>2. /\ TInv /\ run \in RunType /\ run.caller = "apply" /\ ~txn.kept /\ Disk.staging = {}
      /\ Disk.journal = run.journal /\ Disk \in Directory /\ Open(Disk)
      /\ Disk.configPrevious # None
      /\ run.request.mode = "api" <=> run.journal.operation \in ApiOperations
  BY <1>1, HostFacts, FilingFacts
<1>3. run.request.mode = "api" /\ run.journal.operation \in ApiOperations
      /\ run.journal.phase \in {"config", "credential"}
  BY <1>1, <1>2 DEF TInv, Control, JournalAt
<1>4. /\ Disk.config = [source |-> txn.before.source, settings |-> txn.after.settings]
      /\ Disk.credential = txn.after.key /\ Recovered(Disk) = txn.before
  BY <1>1, <1>2 DEF WorkInv, Halfway, Filed
<1>5. ASSUME NEW r \in ActivationResults
      PROVE  /\ r \in ResultType /\ (r.ok => r.source = "api")
             /\ Sourced(r.source).journal = Disk.journal /\ Sourced(r.source).staging = {}
             /\ Recovered(Sourced(r.source)) = txn.before
             /\ Triple(Sourced(r.source)) = [Triple(Disk) EXCEPT !.source = r.source]
  <2>1. r \in ResultType /\ (r.ok => r.source = "api")
    BY ActivationParts
  <2>2. r.source \in {"static", "api"}
    BY <2>1 DEF ResultType
  <2>3. QED
    BY <1>2, <1>4, <2>1, <2>2, SourcedRecovered
<1>6. \A r \in ActivationResults : Firm(Sourced(r.source))
  <2>1. ASSUME NEW r \in ActivationResults PROVE ~MayCommit(Sourced(r.source))
    BY <1>2, <1>3, <1>5 DEF MayCommit, MayStillCommit, ApiOperations, StaticOperations
  <2>2. QED
    BY <2>1 DEF Firm
<1>7. TxnInv' /\ Advances
  <2>1. PICK r \in ActivationResults : CallEnds(r) \/ CallCut(r)
    BY <1>1 DEF Calls
  <2>2. QED
    BY <1>1, <1>2, <1>5, <1>6, <2>1, SourcingCarried
<1> HIDE DEF Calls
<1>8. ASSUME NEW r \in ActivationResults, r.ok, CallEnds(r), Go("markActivated", run)
      PROVE  WorkInv'
  <2>1. Disk' = Sourced("api") /\ pc' = "markActivated" /\ run' = run /\ r.source = "api"
    BY <1>5, <1>8, CallLeaves DEF Go
  <2>2. Recovered(Disk') = txn.before /\ Triple(Disk') = [Triple(Disk) EXCEPT !.source = "api"]
    BY <1>5, <2>1
  <2>3. txn.after = [source |-> "api", settings |-> txn.after.settings, key |-> txn.after.key]
    BY <1>2, <1>3 DEF WorkInv, Aims
  <2>4. Triple(Disk') = txn.after
    BY <1>4, <2>2, <2>3 DEF Triple
  <2>5. pc' \in ApplySteps /\ pc' \notin Unwritten \cup Filed
    BY <2>1 DEF ApplySteps, Unwritten, Filed
  <2>6. QED
    BY <1>1, <1>2, <2>1, <2>2, <2>4, <2>5, ApplyWorks
<1>9. ASSUME NEW r \in ActivationResults, CallEnds(r), Raise(run)
      PROVE  WorkInv'
  <2>1. Disk' = Sourced(r.source) /\ Disk' \in Directory
    BY <1>5, <1>9, CallLeaves
  <2>2. Recovered(Disk') = txn.before /\ Disk'.staging = {} /\ Disk'.journal = run.journal
    BY <1>2, <1>5, <2>1
  <2>3. QED
    BY <1>1, <1>2, <1>9, <2>1, <2>2, RaiseWorks
<1>10. ActivationResults \subseteq ResultType
  BY <1>5
<1>11. WorkInv'
  BY <1>1, <1>8, <1>9, <1>10, CallsWork
<1>12. QED
  BY <1>7, <1>11

\* The operator's profile is back: the static triple is in force from here on.
LEMMA KeptCarried ==
  ASSUME SInv, TxnInv, ~txn.kept, txn'.kept, Img = {Disk}, Len(images) = 1,
         NEW e \in Directory, images' = <<e>>, e.journal # None,
         Triple(e) = txn.after,
         txn'.before = txn.before, txn'.after = txn.after, txn'.removes = txn.removes
  PROVE  TxnInv' /\ Advances
<1>1. Img' = {e} /\ Disk' = e /\ images'[1] = e
  BY OneImage
<1>2. \A d : InForce(d)' = Triple(d)
  BY DEF InForce, Triple
<1>3. InForce(images[1])' = txn.after
  BY <1>1, <1>2 DEF InForce
<1>4. Ordered'
  BY <1>1, <1>2, <1>3 DEF Ordered, Follows
<1>5. Bounded'
  BY <1>1, <1>2 DEF Bounded, Accounted
<1>6. Cleared' /\ Whole'
  BY <1>1 DEF Cleared, Whole
<1>7. Advances
  BY <1>3 DEF Advances, Follows
<1>8. QED
  BY <1>4, <1>5, <1>6, <1>7 DEF TxnInv

\* RestoreStatic keeps what the images and the invocation say of the transaction.
LEMMA RestoreStaticExact ==
  ASSUME SInv, TxnInv, WorkInv, Shut, Windows = {}, RestoreStatic
  PROVE  TxnInv' /\ WorkInv' /\ Advances
<1> DEFINE done == {r \in RestoreStaticResults : r.ok}
           lost == {r \in RestoreStaticResults : ~r.ok}
<1>1. /\ pc = "restoreStatic" /\ timer' = timer
      /\ \/ /\ Calls(done, Go("markActivated", run), FALSE)
            /\ txn' = [txn EXCEPT !.kept = pc' # "idle"]
         \/ /\ Calls(lost, FALSE, Raise(run))
            /\ txn' = txn
  BY HostFacts, RestoreStaticLands
<1>2. /\ TInv /\ run \in RunType /\ run.caller = "apply" /\ ~txn.kept /\ Disk.staging = {}
      /\ Disk.journal = run.journal /\ Disk \in Directory /\ Open(Disk)
      /\ Img = {Disk} /\ Len(images) = 1 /\ txn.kept \in BOOLEAN
      /\ run.request.mode = "api" <=> run.journal.operation \in ApiOperations
  BY <1>1, HostFacts, FilingFacts
<1>3. run.journal.operation = "static-restore" /\ Disk.configPrevious # None /\ run.request.mode # "api"
  BY <1>1, <1>2, RestoringFacts DEF ApiOperations
<1>4. Triple(Disk) = txn.before /\ Recovered(Disk) = txn.before
      /\ txn.after = [txn.before EXCEPT !.source = "static"]
  BY <1>1, <1>2, <1>3 DEF WorkInv, Halfway, Unwritten, Aims
<1>5. ASSUME NEW r \in RestoreStaticResults
      PROVE  /\ r \in ResultType /\ (r.ok => r.source = "static")
             /\ r.source \in {Disk.config.source, "static"}
             /\ Sourced(r.source) \in Directory
             /\ Sourced(r.source).journal = Disk.journal /\ Sourced(r.source).staging = {}
             /\ Recovered(Sourced(r.source)) = txn.before
             /\ r.source = "static" => Triple(Sourced(r.source)) = txn.after
             /\ Triple(Sourced(r.source)) \in {txn.before, txn.after}
  <2>1. r \in ResultType /\ (r.ok => r.source = "static") /\ r.source \in {Disk.config.source, "static"}
    BY RestoreStaticParts
  <2>2. r.source \in {"static", "api"}
    BY <2>1 DEF ResultType
  <2>3. /\ Sourced(r.source) \in Directory
        /\ Sourced(r.source).journal = Disk.journal /\ Sourced(r.source).staging = {}
        /\ Recovered(Sourced(r.source)) = txn.before
        /\ Triple(Sourced(r.source)) = [txn.before EXCEPT !.source = r.source]
        /\ Disk.config.source = r.source => Sourced(r.source) = Disk
    BY <1>2, <1>3, <1>4, <2>2, SourcedRecovered
  <2>4. r.source = "static" => Triple(Sourced(r.source)) = txn.after
    BY <1>4, <2>3
  <2>5. r.source # "static" => Triple(Sourced(r.source)) = txn.before
    BY <1>4, <2>1, <2>3
  <2>6. QED
    BY <2>1, <2>3, <2>4, <2>5
<1>6. \A r \in RestoreStaticResults : Firm(Sourced(r.source))
  BY <1>5 DEF Firm, Settles
<1>7. ASSUME NEW r \in RestoreStaticResults, CallEnds(r) \/ CallCut(r),
             txn'.before = txn.before, txn'.after = txn.after, txn'.removes = txn.removes,
             txn'.kept = txn.kept
      PROVE  TxnInv' /\ Advances
  BY <1>1, <1>2, <1>3, <1>5, <1>6, <1>7, SourcingCarried
<1>8. CASE Calls(lost, FALSE, Raise(run)) /\ txn' = txn
  <2>1. PICK r \in lost : CallEnds(r) \/ CallCut(r)
    BY <1>8 DEF Calls
  <2>2. TxnInv' /\ Advances
    BY <1>7, <1>8, <2>1
  <2>3. ASSUME NEW s \in lost, CallEnds(s), Raise(run) PROVE WorkInv'
    <3>1. Disk' = Sourced(s.source) /\ Disk' \in Directory
      BY <1>5, <2>3, CallLeaves
    <3>2. Recovered(Disk') = txn.before /\ Disk'.staging = {} /\ Disk'.journal = run.journal
      BY <1>2, <1>5, <3>1
    <3>3. QED
      BY <1>2, <1>8, <2>3, <3>1, <3>2, RaiseWorks
  <2>4. PICK s \in lost : (CallEnds(s) /\ Raise(run)) \/ CallCut(s)
    BY <1>8 DEF Calls
  <2>5. CASE CallEnds(s) /\ Raise(run)
    BY <2>2, <2>3, <2>5
  <2>6. CASE CallCut(s)
    BY <2>2, <2>6, SilentWorks DEF CallCut, End
  <2>7. QED
    BY <2>4, <2>5, <2>6
<1>9. CASE Calls(done, Go("markActivated", run), FALSE) /\ txn' = [txn EXCEPT !.kept = pc' # "idle"]
  <2>1. PICK r \in RestoreStaticResults : /\ r.ok
                                          /\ \/ CallEnds(r) /\ Go("markActivated", run)
                                             \/ CallCut(r)
    BY <1>9 DEF Calls
  <2>2. /\ txn'.before = txn.before /\ txn'.after = txn.after /\ txn'.removes = txn.removes
        /\ txn'.kept = (pc' # "idle")
    BY <1>2, <1>9, Hosted DEF TxnType
  <2>3. CASE CallCut(r)
    <3>1. pc' = "idle" /\ run' = NoRun /\ verdict' = "killed"
      BY <2>3 DEF CallCut, End
    <3>2. txn'.kept = txn.kept
      BY <1>2, <2>2, <3>1
    <3>3. QED
      BY <1>7, <2>2, <2>3, <3>1, <3>2, SilentWorks
  <2>4. CASE CallEnds(r) /\ Go("markActivated", run)
    <3> DEFINE e == Sourced(r.source)
    <3>1. pc' = "markActivated" /\ run' = run /\ txn'.kept /\ r.source = "static"
      BY <1>5, <2>1, <2>2, <2>4 DEF Go
    <3>2. Disk' = e /\ e \in Directory /\ (images' = <<e>> \/ images' = images)
      BY <1>5, <2>1, <2>4, CallLeaves
    <3>3. e.journal # None /\ Triple(e) = txn.after
      BY <1>2, <1>5, <3>1 DEF Open
    <3> HIDE DEF e
    <3>4. images' = <<e>>
      <4>1. images = <<Disk>>
        BY <1>2, HostFacts DEF Disk, Typed
      <4>2. images' = images => Disk' = Disk
        BY DEF Disk
      <4>3. QED
        BY <3>2, <4>1, <4>2
    <3>5. TxnInv' /\ Advances
      BY <1>2, <2>2, <3>1, <3>2, <3>3, <3>4, KeptCarried
    <3>6. pc' \in ApplySteps /\ pc' \notin Unwritten \cup Filed
      BY <3>1 DEF ApplySteps, Unwritten, Filed
    <3>7. WorkInv'
      BY <1>2, <2>2, <3>1, <3>2, <3>3, <3>6, ApplyWorks
    <3>8. QED
      BY <3>5, <3>7
  <2>5. QED
    BY <2>1, <2>3, <2>4
<1> HIDE DEF done, lost, Calls
<1>10. QED
  BY <1>1, <1>8, <1>9

(* --------------------------- the rollback ------------------------------ *)

\* What a step of a rollback may leave: what is to be put back is the same, and what
\* may be half of each is of a record that its rollback has reached.
Owed(e) ==
  /\ e.journal = Disk.journal /\ Recovered(e) = Recovered(Disk)
  /\ MayCommit(e) /\ ~Settles(e, txn) =>
       txn'.undone /\ MayStillCommit(Disk) /\ Disk.journal.operation \in ApiOperations

\* A step of a rollback keeps what is to be put back.  While its record may still
\* be committed what it leaves may be half of each, for as long as no proof follows.
LEMMA RollbackCarried ==
  ASSUME SInv, TxnInv, pc \in RollbackSteps,
         NEW leaves \in SUBSET Directory, Disk \in leaves, Shaped(leaves),
         txn'.before = txn.before, txn'.after = txn.after, txn'.removes = txn.removes,
         txn'.kept = txn.kept, txn.undone => txn'.undone,
         \A e \in leaves : Owed(e),
         MayStillCommit(Disk) /\ Disk.journal.operation \in ApiOperations =>
           /\ wg'.switching = {}
           /\ \/ pc' \in Midway
              \/ Disk.journal.phase = "verifying" /\ status' = "stale" /\ pc' \in Before
  PROVE  TxnInv' /\ Advances
<1>1. Rolling(pc, run) /\ TInv /\ Disk \in Directory
  BY HostFacts DEF Rolling
<1>2. ~txn.kept /\ Disk.journal # None
  BY <1>1, RollingFacts
<1>3. \A e \in leaves : Kin(e) /\ e.journal = Disk.journal
  BY <1>2 DEF Owed, Kin, InForce
<1>4. ASSUME NEW d, d.journal = Disk.journal, d.journal = Disk'.journal, txn'.undone,
             MayStillCommit(Disk), Disk.journal.operation \in ApiOperations
      PROVE  Excused(d)'
  BY <1>4, ExcusedStays
<1>5. \A e \in leaves : MayCommit(e) /\ e.journal = Disk'.journal => Settles(e, txn) \/ Excused(e)'
  BY <1>3, <1>4 DEF Owed
<1>6. ASSUME NEW d \in Img, MayCommit(d), Excused(d), d.journal = Disk'.journal
      PROVE  Excused(d)'
  BY <1>4, <1>6, ExcusedFacts
<1>7. QED
  BY <1>1, <1>2, <1>3, <1>5, <1>6, CarriedHalf

\* A rollback that fails while its record may still be committed does so on a
\* proof that came to nothing.
LEMMA FaultStale ==
  ASSUME SInv, Shut, Windows = {}, pc \in RollbackSteps, MayStillCommit(Disk), NEW fault, Spend(fault)
  PROVE  Disk.journal.phase = "verifying" /\ status = "stale"
<1>1. ~Exposed
  BY NoFault
<1>2. status \in {"stale", "good"}
  BY HostFacts, Hosted
<1>3. QED
  BY <1>1, <1>2 DEF Exposed

\* A rollback whose call fails, or is refused, ends here.
LEMMA RollbackFails ==
  ASSUME SInv, TxnInv, WorkInv, Shut, Windows = {}, pc \in RollbackSteps, wg' = wg,
         NEW leaves \in SUBSET Directory, Disk \in leaves,
         txn'.before = txn.before, txn'.after = txn.after, txn'.removes = txn.removes,
         txn'.kept = txn.kept, txn.undone => txn'.undone,
         \A e \in leaves : Owed(e),
         \/ Fails(run, leaves) \/ Cuts(leaves, status)
         \/ ~MayStillCommit(Disk) /\ Shaped(leaves) /\ (Raise(run) \/ End("killed"))
  PROVE  TxnInv' /\ WorkInv' /\ Advances
<1>1. Rolling(pc, run) /\ run \in RunType
  BY HostFacts, RunFacts DEF Rolling
<1>2. run.caller \in {"rollback", "undo"}
  BY <1>1, RollingFacts
<1>3. pc' = "idle" /\ run' = NoRun /\ verdict' \in {"refused", "incomplete", "killed"}
  <2>1. Raise(run) => pc' = "idle" /\ run' = NoRun /\ verdict' \in {"refused", "incomplete"}
    BY <1>1, <1>2, RaiseLands DEF RunType
  <2>2. QED
    BY <2>1 DEF Fails, Cuts, End
<1>4. Shaped(leaves)
  BY StoreShaped DEF NotDone
<1>5. MayStillCommit(Disk) => Disk.journal.phase = "verifying" /\ status' = "stale"
  <2>1. MayStillCommit(Disk) => Fails(run, leaves) \/ Cuts(leaves, status)
    OBVIOUS
  <2>2. QED
    BY <2>1, FaultStale DEF Fails, Cuts
<1>6. MayStillCommit(Disk) /\ Disk.journal.operation \in ApiOperations => wg'.switching = {}
  BY DEF WorkInv, Undoes
<1>7. pc' \in Before
  BY <1>3 DEF Before
<1>8. TxnInv' /\ Advances
  BY <1>4, <1>5, <1>6, <1>7, RollbackCarried
<1>9. WorkInv'
  BY <1>3, SilentWorks
<1>10. QED
  BY <1>8, <1>9

\* A snapshot is put back, or the call fails; it is refused only over an abandoned
\* staging name.
LEMMA RestoreEnds ==
  ASSUME SInv, NEW target, NEW backup, Disk[backup] # None,
         \/ target = "config" /\ backup = "configPrevious"
         \/ target = "credential" /\ backup = "credentialPrevious",
         NEW next, RestoreSnapshot(run, backup, target, Go(next, run))
  PROVE  \/ RestoresWith(backup, target) /\ Go(next, run)
         \/ LET leaves == RestoreLeaves(Disk, backup, target)
            IN target \notin Disk.staging /\ (Fails(run, leaves) \/ Cuts(leaves, status))
         \/ /\ target \in Disk.staging
            /\ LET leaves == {Disk, Unstaged(Disk, backup)}
               IN NotDone(run, leaves) \/ (Completed(Unstaged(Disk, backup)) /\ Raise(run))
<1>1. Disk \in Directory /\ images \in Seq(Directory) /\ Len(images) >= 1 /\ Typed
  BY HostFacts, TypedFacts DEF Typed
<1>2. RestoreLeaves(Disk, backup, target) \in SUBSET Directory
  BY <1>1, RestoreTypes
<1>3. CASE target \notin Disk.staging
  <2>1. StoreCall(run, Restored(Disk, backup, target),
                  RestoreLeaves(Disk, backup, target), Go(next, run))
    BY <1>3 DEF RestoreSnapshot
  <2>2. \/ Completed(Restored(Disk, backup, target)) /\ Go(next, run)
        \/ StoreCall(run, Restored(Disk, backup, target), RestoreLeaves(Disk, backup, target), FALSE)
    BY <2>1 DEF StoreCall, Completed
  <2>3. QED
    BY <1>1, <1>2, <1>3, <2>2, StoreCallLands DEF RestoresWith
<1>4. CASE target \in Disk.staging
  <2>1. RestoreSnapshot(run, backup, target, FALSE)
    BY <1>4 DEF RestoreSnapshot
  <2>2. QED
    BY <1>1, <1>4, <2>1, RestoreLands
<1>5. QED
  BY <1>3, <1>4

\* What changes no file owes the same.
LEMMA OwedAlike ==
  ASSUME SInv, TxnInv, pc \in RollbackSteps, txn.undone => txn'.undone,
         NEW e \in Directory, SameFiles(e, Disk)
  PROVE  Owed(e)
<1>1. Disk \in Directory /\ Disk \in Img /\ ~txn.kept
  BY HostFacts, RollingFacts DEF Rolling
<1>2. /\ Triple(e) = Triple(Disk) /\ Recovered(e) = Recovered(Disk) /\ MayCommit(e) = MayCommit(Disk)
      /\ e.journal = Disk.journal
  BY <1>1, SameForce DEF SameFiles
<1>3. MayCommit(Disk) /\ ~Settles(Disk, txn) => Excused(Disk)
  BY <1>1 DEF TxnInv, Whole
<1>4. MayCommit(Disk) /\ Excused(Disk) =>
        txn'.undone /\ MayStillCommit(Disk) /\ Disk.journal.operation \in ApiOperations
  BY ExcusedFacts DEF Excused
<1>5. QED
  BY <1>2, <1>3, <1>4 DEF Owed, Settles

\* A file is put back: the rollback goes on, or ends in the midst of it.
LEMMA RestoreFailsExact ==
  ASSUME SInv, TxnInv, WorkInv, Shut, Windows = {}, pc \in RollbackSteps, wg' = wg,
         NEW target, NEW backup, Disk[backup] # None,
         \/ target = "config" /\ backup = "configPrevious"
         \/ target = "credential" /\ backup = "credentialPrevious",
         txn'.before = txn.before, txn'.after = txn.after, txn'.removes = txn.removes,
         txn'.kept = txn.kept, txn.undone => txn'.undone,
         \A e \in RestoreLeaves(Disk, backup, target) : Owed(e),
         \/ LET leaves == RestoreLeaves(Disk, backup, target)
            IN target \notin Disk.staging /\ (Fails(run, leaves) \/ Cuts(leaves, status))
         \/ /\ target \in Disk.staging
            /\ LET leaves == {Disk, Unstaged(Disk, backup)}
               IN NotDone(run, leaves) \/ (Completed(Unstaged(Disk, backup)) /\ Raise(run))
  PROVE  TxnInv' /\ WorkInv' /\ Advances
<1>1. /\ Rolling(pc, run) /\ Disk \in Directory
      /\ RestoreLeaves(Disk, backup, target) \in SUBSET Directory
      /\ Unstaged(Disk, backup) \in Directory
      /\ Disk \in RestoreLeaves(Disk, backup, target)
  BY HostFacts, RestoreTypes DEF Rolling, RestoreLeaves
<1>2. CASE LET leaves == RestoreLeaves(Disk, backup, target)
           IN Fails(run, leaves) \/ Cuts(leaves, status)
  BY <1>1, <1>2, RollbackFails
<1>3. CASE /\ target \in Disk.staging
           /\ LET leaves == {Disk, Unstaged(Disk, backup)}
              IN NotDone(run, leaves) \/ (Completed(Unstaged(Disk, backup)) /\ Raise(run))
  <2> DEFINE leaves == {Disk, Unstaged(Disk, backup)}
  <2>1. ~MayStillCommit(Disk)
    <3>1. run.caller = "undo" => Disk.staging \cap {"config", "credential"} = {} \/ ~MayStillCommit(Disk)
      BY DEF WorkInv, Undoes
    <3>2. run.caller = "rollback" => Disk.staging \subseteq Snapshots
      BY <1>1, RollingFacts
    <3>3. run.caller \in {"rollback", "undo"}
      BY <1>1, RollingFacts
    <3>4. QED
      BY <1>3, <3>1, <3>2, <3>3 DEF Snapshots
  <2>2. leaves \in SUBSET Directory /\ Disk \in leaves /\ Unstaged(Disk, backup) \in leaves
    BY <1>1
  <2>3. \A e \in leaves : Owed(e)
    <3>1. SameFiles(Unstaged(Disk, backup), Disk) /\ SameFiles(Disk, Disk)
      BY <1>1, RestoreForms DEF StagesFrom, SameFiles
    <3>2. QED
      BY <1>1, <3>1, OwedAlike
  <2>4. Shaped(leaves)
    BY <1>3, <2>2, StoreShaped
  <2>5. Raise(run) \/ Fails(run, leaves) \/ Cuts(leaves, status)
    BY <1>3 DEF NotDone, Refuses
  <2> HIDE DEF leaves
  <2>6. QED
    BY <2>1, <2>2, <2>3, <2>4, <2>5, RollbackFails
<1>4. QED
  BY <1>2, <1>3

\* The work of a rollback that goes on.
LEMMA UndoWorks ==
  ASSUME SInv, WorkInv, Rolling(pc, run), pc \in RollbackSteps, pc' \in RollbackSteps, run' = run,
         Disk'.journal = Disk.journal, Recovered(Disk') = Recovered(Disk),
         Disk'.staging \subseteq Disk.staging,
         txn'.kept = txn.kept, txn'.before = txn.before,
         Disk.journal.operation \in ApiOperations /\ MayStillCommit(Disk) => wg'.switching = {},
         pc' \in {"restoreKey", "dropPreManaged", "markRolledBack"} =>
           /\ Disk'.config = Former(Disk')
           /\ Disk.journal.phase # "prepared" => Len(images') = 1,
         pc' \in {"dropPreManaged", "markRolledBack"} => Disk'.credential = FormerKey(Disk')
  PROVE  WorkInv'
<1>1. run.caller \in {"rollback", "undo"}
  BY RollingFacts
<1>2. MayStillCommit(Disk') = MayStillCommit(Disk)
  BY DEF MayStillCommit
<1>3. Undoes(pc, run, Disk, Len(images) = 1, wg)'
  BY <1>2 DEF WorkInv, Undoes
<1>4. Aims(pc, run, txn)'
  BY <1>1 DEF Aims, RollbackSteps
<1>5. Halfway(pc, run, Disk, txn)'
  BY <1>1 DEF WorkInv, Halfway, RollbackSteps, Unwritten, Filed, Standing
<1>6. Told(pc, verdict, Disk, Len(images) = 1, txn)'
  BY DEF Told, RollbackSteps
<1>7. QED
  BY <1>3, <1>4, <1>5, <1>6 DEF WorkInv

\* The configuration is put back.
LEMMA RestoreConfigExact ==
  ASSUME SInv, TxnInv, WorkInv, Shut, Windows = {}, RestoreConfig
  PROVE  TxnInv' /\ WorkInv' /\ Advances
<1> DEFINE next == IF run.journal.operation \in ApiOperations THEN "restoreKey" ELSE "markRolledBack"
           e == Restored(Disk, "configPrevious", "config")
           leaves == RestoreLeaves(Disk, "configPrevious", "config")
<1>1. /\ pc = "restoreConfig" /\ txn' = [txn EXCEPT !.undone = TRUE] /\ UNCHANGED <<wg, timer>>
      /\ CASE Disk.configPrevious # None ->
                RestoreSnapshot(run, "configPrevious", "config", Go(next, run))
           [] Disk.configPrevious = None /\ run.journal.phase = "prepared" -> Skip(Go(next, run))
           [] OTHER -> Skip(End("stuck"))
  BY DEF RestoreConfig
<1>2. /\ pc \in RollbackSteps /\ Rolling(pc, run) /\ Disk \in Directory /\ Disk \in Img
  BY <1>1, HostFacts DEF Rolling, RollbackSteps
<1>3. /\ ~txn.kept /\ Open(Disk) /\ ~Settled(Disk) /\ Record(run.journal) = Record(Disk.journal)
      /\ run.journal.phase # "prepared" => Disk.configPrevious # None
      /\ Disk.journal # None /\ Disk.journal \in Journal
  BY <1>2, RollingFacts DEF Directory
<1>4. /\ txn'.before = txn.before /\ txn'.after = txn.after /\ txn'.removes = txn.removes
      /\ txn'.kept = txn.kept /\ txn'.undone
  BY <1>1, HostFacts, Hosted DEF TxnType
<1>5. /\ next \in {"restoreKey", "markRolledBack"}
      /\ next = "markRolledBack" => Disk.journal.operation \notin ApiOperations
  BY <1>3, RecordsAgree
<1>6. Disk.journal.operation \notin ApiOperations => ~Disk.journal.keyChanged
  BY <1>3, JournalRecords DEF ValidateSemantics, JournalRecord
<1>7. MayStillCommit(Disk) /\ Disk.journal.operation \in ApiOperations => wg.switching = {}
  BY <1>2 DEF WorkInv, Undoes
<1> HIDE DEF next
<1>8. CASE Disk.configPrevious = None
  <2>1. run.journal.phase = "prepared" /\ Skip(Go(next, run))
    BY <1>1, <1>3, <1>8
  <2>2. images' = images /\ pc' = next /\ run' = run /\ Disk' = Disk
    BY <2>1 DEF Skip, Go, Disk
  <2>3. Disk.journal.phase = "prepared"
    BY <1>2, <1>3, <1>8, HostFacts DEF Worth, OpenWorth
  <2>4. Disk.config = Former(Disk) /\ (next = "markRolledBack" => Disk.credential = FormerKey(Disk))
    BY <1>5, <1>6, <1>8 DEF Former, FormerKey
  <2>5. Owed(Disk)
    BY <1>2, <1>4, OwedAlike DEF SameFiles
  <2>6. Shaped({Disk}) /\ {Disk} \in SUBSET Directory
    BY <1>2, <2>2, StillShaped
  <2>7. pc' \in Midway /\ pc' \in RollbackSteps /\ pc' \in {"restoreKey", "markRolledBack"} /\ wg' = wg
    BY <1>1, <1>5, <2>2 DEF Midway, RollbackSteps
  <2>8. TxnInv' /\ Advances
    BY <1>2, <1>4, <1>7, <2>5, <2>6, <2>7, RollbackCarried
  <2>9. WorkInv'
    BY <1>2, <1>4, <1>7, <2>2, <2>3, <2>4, <2>7, UndoWorks
  <2>10. QED
    BY <2>8, <2>9
<1>9. CASE Disk.configPrevious # None
  <2>1. RestoreSnapshot(run, "configPrevious", "config", Go(next, run))
    BY <1>1, <1>9
  <2>2. /\ e \in Directory /\ leaves \in SUBSET Directory /\ Disk \in leaves /\ e \in leaves
    BY <1>2, <1>9, RestoreTypes DEF RestoreLeaves, WriteLeaves, Restored
  <2>3. /\ e.journal = Disk.journal /\ e.config = Disk.configPrevious
        /\ e.credential = Disk.credential /\ e.configPrevious = Disk.configPrevious
        /\ e.credentialPrevious = Disk.credentialPrevious
        /\ e.staging \subseteq Disk.staging
        /\ \A x \in leaves : x = e \/ SameFiles(x, Disk)
    BY <1>2, RestoreForms DEF StagesFrom
  <2>4. Former(e) = Former(Disk) /\ FormerKey(e) = FormerKey(Disk) /\ e.config = Former(e)
    BY <1>9, <2>3 DEF Former, FormerKey
  <2>5. Recovered(e) = Recovered(Disk) /\ Open(e) /\ MayCommit(e) = MayCommit(Disk)
    <3>1. Open(e) /\ Recovered(e) = Recovered(Disk)
      BY <1>2, <1>3, <2>2, <2>3, <2>4, RecoveredIs DEF Open
    <3>2. MayStillCommit(e) = MayStillCommit(Disk)
      BY <2>3 DEF MayStillCommit
    <3>3. QED
      BY <1>3, <2>3, <3>1, <3>2 DEF MayCommit
  <2>6. next = "markRolledBack" => e.credential = FormerKey(e)
    BY <1>5, <1>6, <2>3 DEF FormerKey
  <2>7. Owed(e)
    <3>1. CASE Disk.journal.operation \in ApiOperations
      <4>1. MayCommit(e) => MayStillCommit(Disk)
        BY <2>3, <2>5, <3>1 DEF MayCommit, StaticOperations, ApiOperations
      <4>2. QED
        BY <1>4, <2>3, <2>5, <3>1, <4>1 DEF Owed
    <3>2. CASE Disk.journal.operation \notin ApiOperations
      <4>1. e.credential = FormerKey(e)
        BY <1>6, <2>3, <3>2 DEF FormerKey
      <4>2. Triple(e) = Recovered(e)
        BY <2>2, <2>4, <2>5, <4>1, RecoveredIs
      <4>3. QED
        BY <2>3, <2>5, <4>2 DEF Owed, Settles
    <3>3. QED
      BY <3>1, <3>2
  <2> HIDE DEF e, leaves
  <2>8. \A x \in leaves : Owed(x)
    BY <1>2, <1>4, <2>2, <2>3, <2>7, OwedAlike
  <2>9. CASE Completed(e) /\ Go(next, run)
    <3>1. images' = <<e>> /\ Disk' = e /\ Len(images') = 1 /\ pc' = next /\ run' = run
      BY <2>2, <2>9, OneImage DEF Completed, Go
    <3>2. pc' \in Midway /\ pc' \in RollbackSteps /\ pc' \in {"restoreKey", "markRolledBack"} /\ wg' = wg
      BY <1>1, <1>5, <3>1 DEF Midway, RollbackSteps
    <3>3. Shaped(leaves)
      BY <2>2, <2>9, StoreShaped
    <3>4. TxnInv' /\ Advances
      BY <1>2, <1>4, <1>7, <2>2, <2>8, <3>2, <3>3, RollbackCarried
    <3>5. WorkInv'
      BY <1>2, <1>4, <1>7, <2>3, <2>4, <2>5, <2>6, <3>1, <3>2, UndoWorks
    <3>6. QED
      BY <3>4, <3>5
  <2>10. CASE \/ "config" \notin Disk.staging /\ (Fails(run, leaves) \/ Cuts(leaves, status))
              \/ /\ "config" \in Disk.staging
                 /\ LET kept == {Disk, Unstaged(Disk, "configPrevious")}
                    IN \/ NotDone(run, kept)
                       \/ Completed(Unstaged(Disk, "configPrevious")) /\ Raise(run)
    BY <1>1, <1>2, <1>4, <1>9, <2>8, <2>10, RestoreFailsExact DEF leaves
  <2>11. QED
    BY <1>9, <2>1, <2>9, <2>10, RestoreEnds DEF RestoresWith, e, leaves
<1>10. QED
  BY <1>8, <1>9

\* An entry is removed, unless a fault keeps it.
LEMMA UnlinkEnds ==
  ASSUME SInv, NEW entry \in {"journal", "credential", "configPrevious", "credentialPrevious"},
         NEW next, DurableUnlink(run, entry, Go(next, run))
  PROVE  \/ Gone(entry) /\ Go(next, run)
         \/ Fails(run, RemoveLeaves(Disk, entry)) \/ Cuts(RemoveLeaves(Disk, entry), status)
<1> DEFINE after == Removed(Disk, entry)
           leaves == RemoveLeaves(Disk, entry)
<1>1. Disk \in Directory /\ images \in Seq(Directory) /\ Len(images) >= 1
  BY HostFacts, TypedFacts DEF Typed
<1>2. leaves \in SUBSET Directory
  BY <1>1, RemoveTypes
<1>3. \/ after = Disk /\ Skip(Go(next, run))
      \/ StoreCall(run, after, leaves, Go(next, run))
  BY DEF DurableUnlink
<1> HIDE DEF after, leaves
<1>4. StoreCall(run, after, leaves, Go(next, run)) =>
        \/ Completed(after) /\ Go(next, run)
        \/ StoreCall(run, after, leaves, FALSE)
  BY DEF StoreCall, Completed
<1>5. StoreCall(run, after, leaves, FALSE) => Fails(run, leaves) \/ Cuts(leaves, status)
  BY <1>1, <1>2, StoreCallLands
<1>6. after = Disk /\ Skip(Go(next, run)) => Gone(entry) /\ Go(next, run)
  BY DEF Skip, Gone, after
<1>7. Completed(after) => Gone(entry)
  BY DEF Gone, after
<1>8. QED
  BY <1>3, <1>4, <1>5, <1>6, <1>7 DEF leaves

\* With its key back, an image says what was found.
LEMMA Rekeyed ==
  ASSUME SInv, TxnInv, WorkInv, pc = "restoreKey", txn.undone => txn'.undone,
         NEW e \in Directory, e.journal = Disk.journal, e.config = Disk.config,
         e.configPrevious = Disk.configPrevious, e.credentialPrevious = Disk.credentialPrevious,
         e.credential = FormerKey(Disk)
  PROVE  Owed(e) /\ Recovered(e) = Recovered(Disk) /\ e.config = Former(e) /\ e.credential = FormerKey(e)
<1>1. Disk \in Directory /\ Open(Disk) /\ Disk.config = Former(Disk)
  BY HostFacts, KeyAgain, RollingFacts DEF WorkInv, Undoes
<1>2. Former(e) = Former(Disk) /\ FormerKey(e) = FormerKey(Disk)
  BY DEF Former, FormerKey
<1>3. Open(e) /\ Recovered(e) = Recovered(Disk)
  BY <1>1, <1>2, RecoveredIs DEF Open
<1>4. Triple(e) = Recovered(e)
  BY <1>1, <1>2, <1>3, RecoveredIs
<1>5. QED
  BY <1>1, <1>2, <1>3, <1>4 DEF Owed, Settles

\* The credential is put back.
LEMMA RestoreKeyExact ==
  ASSUME SInv, TxnInv, WorkInv, Shut, Windows = {}, RestoreKey
  PROVE  TxnInv' /\ WorkInv' /\ Advances
<1> DEFINE j == run.journal
           next == "dropPreManaged"
<1>1. /\ pc = "restoreKey" /\ UNCHANGED <<wg, timer, txn>>
      /\ CASE j.keyChanged /\ ~j.hadKey -> DurableUnlink(run, "credential", Go(next, run))
           [] j.keyChanged /\ j.hadKey /\ Disk.credentialPrevious # None ->
                RestoreSnapshot(run, "credentialPrevious", "credential", Go(next, run))
           [] j.keyChanged /\ j.hadKey /\ Disk.credentialPrevious = None
                /\ j.phase = "prepared" -> Skip(Go(next, run))
           [] ~j.keyChanged /\ Disk.credentialPrevious = None -> Skip(Go(next, run))
           [] OTHER -> Skip(End("stuck"))
  BY DEF RestoreKey
<1>2. /\ pc \in RollbackSteps /\ Rolling(pc, run) /\ Disk \in Directory /\ Disk \in Img
      /\ j.keyChanged = Disk.journal.keyChanged /\ j.hadKey = Disk.journal.hadKey
      /\ Worth(Disk, wg, txn.kept) /\ Open(Disk) /\ Disk.journal # None
      /\ KeepsKey(j) /\ j.phase # "prepared" => Disk.credentialPrevious # None
      /\ Disk.journal \in JournalRecord /\ Disk.journal.keyChanged \in BOOLEAN
      /\ Disk.journal.hadKey \in BOOLEAN
  BY <1>1, HostFacts, KeyAgain, RollingFacts, JournalRecords DEF RollbackSteps, Directory, JournalRecord
<1>3. /\ txn'.before = txn.before /\ txn'.after = txn.after /\ txn'.removes = txn.removes
      /\ txn'.kept = txn.kept /\ txn' = txn /\ (txn.undone => txn'.undone) /\ wg' = wg
  BY <1>1
<1>4. /\ Disk.config = Former(Disk) /\ (Disk.journal.phase # "prepared" => Len(images) = 1)
      /\ (MayStillCommit(Disk) /\ Disk.journal.operation \in ApiOperations => wg.switching = {})
  BY <1>1, <1>2 DEF WorkInv, Undoes
<1> HIDE DEF j
<1>5. ASSUME NEW leaves \in SUBSET Directory, Disk \in leaves, NEW e \in leaves,
             \A x \in leaves : Owed(x), Owed(e), Shaped(leaves),
             Recovered(e) = Recovered(Disk), e.journal = Disk.journal,
             e.config = Former(e), e.credential = FormerKey(e), e.staging \subseteq Disk.staging,
             Disk' = e, Len(images') = 1 \/ images' = images, Go(next, run)
      PROVE  TxnInv' /\ WorkInv' /\ Advances
  <2>1. pc' = next /\ run' = run /\ pc' \in Midway /\ pc' \in RollbackSteps
    BY <1>5 DEF Go, Midway, RollbackSteps
  <2>2. TxnInv' /\ Advances
    BY <1>2, <1>3, <1>4, <1>5, <2>1, RollbackCarried
  <2>3. Disk.journal.phase # "prepared" => Len(images') = 1
    BY <1>4, <1>5
  <2>4. WorkInv'
    BY <1>2, <1>3, <1>4, <1>5, <2>1, <2>3, UndoWorks
  <2>5. QED
    BY <2>2, <2>4
<1>6. CASE Skip(Go(next, run)) /\ Disk.credential = FormerKey(Disk)
  <2>1. images' = images /\ Disk' = Disk /\ Go(next, run)
    BY <1>6 DEF Skip, Disk
  <2>2. Owed(Disk) /\ Shaped({Disk}) /\ {Disk} \in SUBSET Directory
    BY <1>2, <1>3, <2>1, OwedAlike, StillShaped DEF SameFiles
  <2>3. QED
    BY <1>4, <1>5, <1>6, <2>1, <2>2
<1>7. CASE j.keyChanged /\ ~j.hadKey
  <2> DEFINE e == Removed(Disk, "credential")
             leaves == RemoveLeaves(Disk, "credential")
  <2>1. DurableUnlink(run, "credential", Go(next, run)) /\ FormerKey(Disk) = None
    BY <1>1, <1>2, <1>7 DEF FormerKey
  <2>2. e \in Directory /\ leaves \in SUBSET Directory /\ e \in leaves /\ Disk \in leaves
    BY <1>2, RemoveTypes DEF RemoveLeaves
  <2>3. /\ e.journal = Disk.journal /\ e.config = Disk.config /\ e.credential = None
        /\ e.configPrevious = Disk.configPrevious
        /\ e.credentialPrevious = Disk.credentialPrevious /\ e.staging = Disk.staging
        /\ \A x \in leaves : SameFiles(x, Disk) \/ x = e
    BY <1>2, RemoveForms
  <2> HIDE DEF e, leaves
  <2>4. Owed(e) /\ Recovered(e) = Recovered(Disk) /\ e.config = Former(e) /\ e.credential = FormerKey(e)
    BY <1>1, <1>3, <2>1, <2>2, <2>3, Rekeyed
  <2>5. \A x \in leaves : Owed(x)
    BY <1>2, <1>3, <2>2, <2>3, <2>4, OwedAlike
  <2>6. CASE Completed(e) /\ Go(next, run)
    <3>1. Disk' = e /\ Len(images') = 1 /\ Shaped(leaves)
      BY <2>2, <2>6, OneImage, StoreShaped DEF Completed
    <3>2. QED
      BY <1>5, <2>2, <2>3, <2>4, <2>5, <2>6, <3>1
  <2>7. CASE e = Disk /\ UNCHANGED <<images, status, faults>> /\ Go(next, run)
    BY <1>6, <2>1, <2>3, <2>7 DEF Skip
  <2>8. CASE Fails(run, leaves) \/ Cuts(leaves, status)
    BY <1>2, <1>3, <2>2, <2>5, <2>8, RollbackFails
  <2>9. QED
    BY <2>1, <2>6, <2>7, <2>8, UnlinkEnds DEF Gone, e, leaves
<1>8. CASE j.keyChanged /\ j.hadKey /\ Disk.credentialPrevious # None
  <2> DEFINE e == Restored(Disk, "credentialPrevious", "credential")
             leaves == RestoreLeaves(Disk, "credentialPrevious", "credential")
  <2>1. RestoreSnapshot(run, "credentialPrevious", "credential", Go(next, run))
        /\ FormerKey(Disk) = Disk.credentialPrevious
    BY <1>1, <1>2, <1>8 DEF FormerKey
  <2>2. e \in Directory /\ leaves \in SUBSET Directory /\ e \in leaves /\ Disk \in leaves
    BY <1>2, <1>8, RestoreTypes DEF RestoreLeaves, WriteLeaves, Restored
  <2>3. /\ e.journal = Disk.journal /\ e.config = Disk.config
        /\ e.credential = Disk.credentialPrevious
        /\ e.configPrevious = Disk.configPrevious
        /\ e.credentialPrevious = Disk.credentialPrevious /\ e.staging \subseteq Disk.staging
        /\ \A x \in leaves : SameFiles(x, Disk) \/ x = e
    BY <1>2, RestoreForms DEF StagesFrom
  <2> HIDE DEF e, leaves
  <2>4. Owed(e) /\ Recovered(e) = Recovered(Disk) /\ e.config = Former(e) /\ e.credential = FormerKey(e)
    BY <1>1, <1>3, <2>1, <2>2, <2>3, Rekeyed
  <2>5. \A x \in leaves : Owed(x)
    BY <1>2, <1>3, <2>2, <2>3, <2>4, OwedAlike
  <2>6. CASE Completed(e) /\ Go(next, run)
    <3>1. Disk' = e /\ Len(images') = 1 /\ Shaped(leaves)
      BY <2>2, <2>6, OneImage, StoreShaped DEF Completed
    <3>2. QED
      BY <1>5, <2>2, <2>3, <2>4, <2>5, <2>6, <3>1
  <2>7. CASE \/ "credential" \notin Disk.staging /\ (Fails(run, leaves) \/ Cuts(leaves, status))
             \/ /\ "credential" \in Disk.staging
                /\ LET kept == {Disk, Unstaged(Disk, "credentialPrevious")}
                   IN \/ NotDone(run, kept)
                      \/ Completed(Unstaged(Disk, "credentialPrevious")) /\ Raise(run)
    BY <1>2, <1>3, <1>8, <2>5, <2>7, RestoreFailsExact DEF leaves
  <2>8. QED
    BY <1>8, <2>1, <2>6, <2>7, RestoreEnds DEF RestoresWith, e, leaves
<1>9. CASE j.keyChanged /\ j.hadKey /\ Disk.credentialPrevious = None
  <2>1. j.phase = "prepared" /\ Skip(Go(next, run)) /\ FormerKey(Disk) = Disk.credential
    BY <1>1, <1>2, <1>9 DEF FormerKey, KeepsKey
  <2>2. QED
    BY <1>6, <2>1
<1>10. CASE ~j.keyChanged
  <2>1. Disk.credentialPrevious = None /\ FormerKey(Disk) = Disk.credential
    BY <1>2, <1>10 DEF Worth, FormerKey
  <2>2. Skip(Go(next, run))
    BY <1>1, <1>10, <2>1
  <2>3. QED
    BY <1>6, <2>1, <2>2
<1>11. QED
  BY <1>2, <1>7, <1>8, <1>9, <1>10

\* What restore-static leaves says nothing new of the health of the tunnel.
LEMMA RestoreStaticSilent == \A r \in RestoreStaticResults : r.status = status
<1>1. \A hosts, sources : \A r \in Failures(hosts, sources) : r.status = status
  BY DEF Failures, Result
<1>2. \A h, s, ok, fault : Result(h, s, status, ok, fault).status = status
  BY DEF Result
<1>3. CASE None \in {wg.profile, wg.preManaged} \/ wg.switching # {}
  BY <1>2, <1>3 DEF RestoreStaticResults
<1>4. CASE ~(None \in {wg.profile, wg.preManaged} \/ wg.switching # {})
  <2>1. SUFFICES ASSUME NEW r \in RestoreStaticResults PROVE r.status = status
    OBVIOUS
  <2>2. PICK restored, hosts, sources, others, rest :
          r \in {Result(restored, "static", status, TRUE, FALSE)}
                  \cup Failures(hosts, sources) \cup (IF wg.profile = wg.preManaged THEN {}
                                                      ELSE Failures(others, rest))
    BY <1>4, <2>1, Zenon DEF RestoreStaticResults
  <2>3. QED
    BY <1>1, <1>2, <2>2
<1>5. QED
  BY <1>3, <1>4

\* The rollback of an adoption puts the source back with the profile: it is the one
\* recovery would put back.
LEMMA UnadoptedOwed ==
  ASSUME SInv, TxnInv, pc = "unadopt", txn'.undone, UndoesAdoption(run.journal),
         NEW r \in RestoreStaticResults
  PROVE  LET e == Sourced(r.source)
         IN /\ e \in Directory /\ e.journal = Disk.journal /\ e.staging = Disk.staging
            /\ Recovered(e) = Recovered(Disk) /\ Owed(e)
<1> DEFINE e == Sourced(r.source)
<1>1. /\ Rolling(pc, run) /\ pc \in RollbackSteps /\ Disk \in Directory
      /\ Open(Disk) /\ Disk.journal # None
      /\ Worth(Disk, wg, txn.kept) /\ UndoesAdoption(Disk.journal)
  BY HostFacts, RollingFacts, RecordsAgree DEF Rolling, RollbackSteps
<1>2. Former(Disk).source = "static" /\ Disk.journal.operation \in ApiOperations
      /\ Disk.journal.operation \notin StaticOperations
  BY <1>1 DEF Worth, OpenWorth, UndoesAdoption, ApiOperations, StaticOperations
<1>3. r \in ResultType /\ r.source \in {Disk.config.source, "static"} /\ r.source \in {"static", "api"}
  BY <1>1, RestoreStaticParts DEF ResultType
<1>4. e \in Directory /\ e.journal = Disk.journal /\ e.staging = Disk.staging
      /\ (Disk.config.source = r.source => e = Disk)
  BY <1>3, SourcedForms
<1>5. Recovered(e) = Recovered(Disk)
  <2>1. CASE Disk.configPrevious = None
    <3>1. Disk.config.source = "static"
      BY <1>2, <2>1 DEF Former
    <3>2. QED
      BY <1>3, <1>4, <3>1
  <2>2. CASE Disk.configPrevious # None
    BY <1>1, <1>3, <2>2, SourcedRecovered
  <2>3. QED
    BY <2>1, <2>2
<1>6. MayCommit(e) => MayStillCommit(Disk)
  BY <1>2, <1>4 DEF MayCommit, MayStillCommit
<1>7. QED
  BY <1>2, <1>4, <1>5, <1>6 DEF Owed

\* An adoption is undone.
LEMMA UnadoptExact ==
  ASSUME SInv, TxnInv, WorkInv, Shut, Windows = {}, Unadopt
  PROVE  TxnInv' /\ WorkInv' /\ Advances
<1>1. /\ pc = "unadopt" /\ txn' = [txn EXCEPT !.undone = TRUE]
      /\ \/ /\ UNCHANGED <<images, status, faults, wg>> /\ Go("restoreConfig", run)
         \/ /\ UndoesAdoption(run.journal)
            /\ Calls(UnadoptResults, Go("restoreConfig", run), Raise(run))
  BY HostFacts, UnadoptLands
<1>2. /\ pc \in RollbackSteps /\ Rolling(pc, run) /\ Disk \in Directory /\ Disk \in Img /\ Typed /\ TInv
      /\ run \in RunType /\ run.caller \in {"rollback", "undo"} /\ run.caller \in Callers
      /\ Open(Disk)
  BY <1>1, HostFacts, RollingFacts DEF Rolling, RollbackSteps, Typed, RunType
<1>3. /\ txn'.before = txn.before /\ txn'.after = txn.after /\ txn'.removes = txn.removes
      /\ txn'.kept = txn.kept /\ txn'.undone
  BY <1>1, HostFacts, Hosted DEF TxnType
<1>4. MayStillCommit(Disk) /\ Disk.journal.operation \in ApiOperations => wg.switching = {}
  BY <1>1, <1>2 DEF WorkInv, Undoes
<1>5. Owed(Disk)
  BY <1>2, <1>3, OwedAlike DEF SameFiles
<1>6. CASE UNCHANGED <<images, status, faults, wg>> /\ Go("restoreConfig", run)
  <2>1. images' = images /\ Disk' = Disk /\ pc' = "restoreConfig" /\ run' = run /\ wg' = wg
        /\ pc' \in RollbackSteps /\ pc' \in Midway
    BY <1>6 DEF Disk, Go, RollbackSteps, Midway
  <2>2. Shaped({Disk}) /\ {Disk} \in SUBSET Directory
    BY <1>2, <2>1, StillShaped
  <2>3. TxnInv' /\ Advances
    BY <1>2, <1>3, <1>4, <1>5, <2>1, <2>2, RollbackCarried
  <2>4. WorkInv'
    BY <1>2, <1>3, <1>4, <2>1, UndoWorks
  <2>5. QED
    BY <2>3, <2>4
<1>7. CASE UndoesAdoption(run.journal) /\ Calls(UnadoptResults, Go("restoreConfig", run), Raise(run))
  <2>1. UnadoptResults \subseteq RestoreStaticResults /\ UnadoptResults \subseteq ResultType
    BY <1>2, RestoreStaticTypes DEF UnadoptResults
  <2>2. MayStillCommit(Disk) => \A r \in UnadoptResults : r.wg.switching = {}
    BY DEF UnadoptResults
  <2>3. WorkInv'
    <3>1. ASSUME NEW r \in UnadoptResults, CallEnds(r), Go("restoreConfig", run) PROVE WorkInv'
      <4>1. Disk' = Sourced(r.source) /\ wg' = r.wg
        BY <2>1, <3>1, CallLeaves DEF CallEnds
      <4>2. Disk'.journal = Disk.journal /\ Recovered(Disk') = Recovered(Disk)
            /\ Disk'.staging \subseteq Disk.staging
        BY <1>1, <1>3, <1>7, <2>1, <4>1, UnadoptedOwed
      <4>3. pc' = "restoreConfig" /\ pc' \in RollbackSteps /\ run' = run
        BY <3>1 DEF Go, RollbackSteps
      <4>4. MayStillCommit(Disk) => wg'.switching = {}
        BY <2>2, <4>1
      <4>5. QED
        BY <1>2, <1>3, <4>2, <4>3, <4>4, UndoWorks
    <3>2. ASSUME NEW r \in UnadoptResults, CallEnds(r), Raise(run) PROVE WorkInv'
      <4>1. Disk' \in Directory
        BY <2>1, <3>2, CallLeaves
      <4>2. QED
        BY <1>2, <1>3, <3>2, <4>1, RaiseWorks
    <3> DEFINE Done == Go("restoreConfig", run)
               Failed == Raise(run)
    <3>3. /\ Calls(UnadoptResults, Done, Failed)
          /\ \A r \in UnadoptResults : r.ok /\ CallEnds(r) /\ Done => WorkInv'
          /\ \A r \in UnadoptResults : ~r.ok /\ CallEnds(r) /\ Failed => WorkInv'
      BY <1>7, <3>1, <3>2
    <3> HIDE DEF Done, Failed
    <3>4. QED
      BY <2>1, <3>3, CallsWork
  <2>4. PICK r \in UnadoptResults :
          \/ CallEnds(r) /\ (IF r.ok THEN Go("restoreConfig", run) ELSE Raise(run))
          \/ CallCut(r)
    BY <1>7 DEF Calls
  <2> DEFINE e == Sourced(r.source)
             leaves == {Disk, e}
  <2>5. e \in Directory /\ Owed(e) /\ r \in ResultType /\ r.status = status
    BY <1>1, <1>3, <1>7, <2>1, <2>4, UnadoptedOwed, RestoreStaticSilent
  <2>6. Shaped(leaves) /\ leaves \in SUBSET Directory /\ Disk \in leaves
    <3>1. leaves \in SUBSET Directory /\ Disk \in leaves /\ e \in leaves
          /\ r.source \in {"static", "api"} /\ r.ok \in BOOLEAN
      BY <1>2, <2>5 DEF ResultType
    <3>2. CallEnds(r) \/ CallCut(r)
      BY <2>4
    <3> HIDE DEF leaves
    <3>3. QED
      BY <1>2, <3>1, <3>2, CallShaped
  <2>7. \A x \in leaves : Owed(x)
    BY <1>5, <2>5
  <2>8. wg' = r.wg /\ (MayStillCommit(Disk) => wg'.switching = {})
    BY <2>2, <2>4 DEF CallEnds, CallCut
  <2> HIDE DEF leaves
  <2>9. CASE \/ pc' \in Midway
             \/ ~MayStillCommit(Disk)
             \/ Disk.journal.phase = "verifying" /\ status' = "stale" /\ pc' \in Before
    BY <1>2, <1>3, <2>6, <2>7, <2>8, <2>9, RollbackCarried, <2>3
  <2>10. CASE Go("restoreConfig", run)
    BY <2>9, <2>10 DEF Go, Midway
  <2>11. CASE CallCut(r) /\ MayStillCommit(Disk)
    <3>1. Spend("kill") /\ pc' = "idle" /\ status' \in {status, "stale"}
      BY <2>5, <2>11 DEF CallCut, End
    <3>2. QED
      BY <1>2, <2>9, <3>1, FaultStale DEF Before
  <2>12. CASE CallEnds(r) /\ ~r.ok /\ MayStillCommit(Disk) /\ Raise(run)
    <3>1. Raise(run) /\ status' = status
      BY <2>5, <2>12 DEF CallEnds
    <3>2. pc' = "idle" /\ pc' \in Before
      BY <1>2, <3>1 DEF Raise, End, Before
    <3>3. CASE r.fault
      <4>1. Spend("runtime")
        BY <2>12, <3>3 DEF CallEnds
      <4>2. QED
        BY <1>2, <2>9, <3>1, <3>2, <4>1, FaultStale
    <3>4. CASE ~r.fault
      <4>1. e = Disk /\ images' = LeftOf(r)
        BY <2>5, <2>12, <3>4 DEF ResultType, CallEnds
      <4>2. images' = images
        BY <1>2, <2>5, <2>12, <4>1, CallReturns
      <4>3. Shaped({Disk})
        BY <4>2, StillShaped
      <4>4. \A d \in Img : ~txn.kept /\ MayCommit(d) /\ Excused(d) /\ d.journal = Disk'.journal
                             => Excused(d)'
        <5>1. SUFFICES ASSUME NEW d \in Img, MayCommit(d), Excused(d), d.journal = Disk'.journal
                       PROVE  Excused(d)'
          OBVIOUS
        <5>2. /\ d.journal.operation \in ApiOperations
              /\ d.journal.phase = "verifying" /\ status = "stale"
          BY <1>1, <5>1, ExcusedFacts DEF Midway
        <5>3. QED
          BY <1>3, <2>8, <2>12, <3>1, <3>2, <5>1, <5>2, ExcusedStays
      <4>5. QED
        BY <1>2, <1>3, <2>3, <4>3, <4>4, StillCarried
    <3>5. QED
      BY <3>3, <3>4
  <2>13. QED
    BY <2>4, <2>9, <2>10, <2>11, <2>12
<1>8. QED
  BY <1>1, <1>6, <1>7

\* When both files are back, every image that may still be committed is whole.
LEMMA RolledFirm ==
  ASSUME SInv, TxnInv, WorkInv, pc \in RollbackSteps, ~txn.kept,
         Disk.config = Former(Disk), Disk.credential = FormerKey(Disk),
         Disk.journal.phase # "prepared" => Len(images) = 1
  PROVE  Triple(Disk) = Recovered(Disk) /\ \A d \in Img : Firm(d)
<1>1. /\ Disk \in Directory /\ Disk \in Img /\ Open(Disk) /\ Rolling(pc, run)
      /\ images \in Seq(Directory)
  BY HostFacts, RollingFacts DEF Rolling, Typed
<1>2. Triple(Disk) = Recovered(Disk)
  BY <1>1, RecoveredIs
<1>3. SUFFICES ASSUME NEW d \in Img, MayCommit(d) PROVE Settles(d, txn)
  BY <1>2 DEF Firm
<1>4. Settles(d, txn) \/ Excused(d)
  BY <1>3 DEF TxnInv, Whole
<1>5. CASE Excused(d)
  <2>1. MayStillCommit(Disk)
    BY <1>3, <1>5, ExcusedFacts
  <2>2. Len(images) = 1
    BY <2>1 DEF MayStillCommit
  <2>3. Img = {Disk}
    BY <2>2 DEF Img, Disk
  <2>4. QED
    BY <1>2, <2>3 DEF Settles
<1>6. QED
  BY <1>4, <1>5

\* The snapshot of the profile is given up.
LEMMA DropExact ==
  ASSUME SInv, TxnInv, WorkInv, Shut, Windows = {}, DropPreManaged
  PROVE  TxnInv' /\ WorkInv' /\ Advances
<1>1. /\ pc = "dropPreManaged" /\ txn' = txn
      /\ \/ Skip(Go("markRolledBack", run))
         \/ Spend("error") /\ UNCHANGED <<images, status>> /\ Raise(run)
         \/ Spend("kill") /\ Killed(images, status)
      /\ wg' \in {wg, [wg EXCEPT !.preManaged = None]}
  BY DEF DropPreManaged
<1>2. /\ pc \in RollbackSteps /\ Rolling(pc, run) /\ Disk \in Directory /\ Disk \in Img /\ Typed
      /\ run \in RunType /\ run.caller \in {"rollback", "undo"} /\ wg \in Host
      /\ images \in Seq(Directory) /\ Len(images) >= 1
  BY <1>1, HostFacts, RollingFacts, TypedFacts DEF Rolling, RollbackSteps, Typed
<1>3. wg'.switching = wg.switching
  BY <1>1, <1>2 DEF Host
<1>4. /\ MayStillCommit(Disk) /\ Disk.journal.operation \in ApiOperations => wg'.switching = {}
      /\ Disk.config = Former(Disk) /\ Disk.credential = FormerKey(Disk)
      /\ Disk.journal.phase # "prepared" => Len(images) = 1
  BY <1>1, <1>2, <1>3 DEF WorkInv, Undoes
<1>5. Owed(Disk)
  BY <1>1, <1>2, OwedAlike DEF SameFiles
<1>6. CASE Skip(Go("markRolledBack", run))
  <2>1. images' = images /\ Disk' = Disk /\ pc' = "markRolledBack" /\ run' = run
        /\ pc' \in RollbackSteps /\ pc' \in Midway
    BY <1>6 DEF Skip, Disk, Go, RollbackSteps, Midway
  <2>2. Shaped({Disk}) /\ {Disk} \in SUBSET Directory
    BY <1>2, <2>1, StillShaped
  <2>3. TxnInv' /\ Advances
    BY <1>1, <1>2, <1>4, <1>5, <2>1, <2>2, RollbackCarried
  <2>4. WorkInv'
    BY <1>1, <1>2, <1>4, <2>1, UndoWorks
  <2>5. QED
    BY <2>3, <2>4
<1>7. CASE \/ Spend("error") /\ UNCHANGED <<images, status>> /\ Raise(run)
           \/ Spend("kill") /\ Killed(images, status)
  <2>1. Killed(images, status) =>
          /\ End("killed")
          /\ \/ images' = images /\ status' = status
             \/ Lost({}) /\ status' = "stale"
    BY <1>2, KilledImages
  <2>2. \/ images' = images /\ status' = status
        \/ Lost({}) /\ status' = "stale"
    BY <1>7, <2>1
  <2>3. Shaped({Disk}) /\ {Disk} \in SUBSET Directory
    BY <1>2, <2>2, StillShaped
  <2>4. pc' = "idle" /\ run' = NoRun /\ verdict' \notin {"failed", "done", "kept"}
    BY <1>2, <1>7, <2>1 DEF Raise, End
  <2>5. MayStillCommit(Disk) => Disk.journal.phase = "verifying" /\ status = "stale"
    BY <1>2, <1>7, FaultStale
  <2>6. TxnInv' /\ Advances
    BY <1>1, <1>2, <1>4, <1>5, <2>2, <2>3, <2>4, <2>5, RollbackCarried DEF Before
  <2>7. QED
    BY <2>4, <2>6, SilentWorks
<1>8. QED
  BY <1>1, <1>6, <1>7

\* The rollback is recorded.
LEMMA MarkRolledBackExact ==
  ASSUME SInv, TxnInv, WorkInv, Shut, Windows = {}, MarkRolledBack
  PROVE  TxnInv' /\ WorkInv' /\ Advances
<1> DEFINE j == RolledBack(run.journal)
           leaves == WriteLeaves(Disk, "journal", j)
           after == Written(Disk, "journal", j)
<1>1. /\ pc = "markRolledBack" /\ UNCHANGED <<wg, timer, txn>> /\ j \in Journal
      /\ \/ /\ Completed(after) /\ pc' = "cleanConfig" /\ run' = run
         \/ NotDone(run, leaves)
  BY HostFacts, MarkRolledBackLands
<1>2. /\ pc \in RollbackSteps /\ Rolling(pc, run) /\ Disk \in Directory /\ Disk \in Img /\ TInv
      /\ run \in RunType /\ run.caller \in {"rollback", "undo"} /\ ~txn.kept /\ Open(Disk)
      /\ Disk.journal # None
  BY <1>1, HostFacts, RollingFacts DEF Rolling, RollbackSteps, Typed
<1>3. /\ Disk.config = Former(Disk) /\ Disk.credential = FormerKey(Disk)
      /\ Disk.journal.phase # "prepared" => Len(images) = 1
  BY <1>1 DEF WorkInv, Undoes
<1>4. Triple(Disk) = Recovered(Disk) /\ \A d \in Img : Firm(d)
  BY <1>2, <1>3, RolledFirm
<1>5. j.phase = "rolled-back" /\ j # None
  <2>1. run.journal \in JournalRecord
    BY <1>1, HostFacts, RunFacts, <1>2, RollingFacts
  <2>2. QED
    BY <1>1, <2>1, NoneApart DEF RolledBack, JournalRecord
<1>6. leaves \in SUBSET Directory /\ Disk \in leaves /\ after \in leaves /\ after \in Directory
  BY <1>1, <1>2, WriteTypes DEF WriteLeaves, Entry
<1>7. /\ after.journal = j /\ after.config = Disk.config /\ after.credential = Disk.credential
      /\ \A e \in leaves : SameFiles(e, Disk) \/ e = after
  <2>1. \A e \in leaves : SameFiles(e, Disk) \/ e = after
    BY <1>2, JournalForms DEF StagesFrom
  <2>2. after.journal = j /\ after.config = Disk.config /\ after.credential = Disk.credential
    BY <1>2 DEF Written, Directory
  <2>3. QED
    BY <2>1, <2>2
<1> HIDE DEF j, leaves, after
<1>8. /\ ~Open(after) /\ ~MayCommit(after) /\ ~MayStillCommit(after)
      /\ Triple(after) = Triple(Disk) /\ Recovered(after) = Recovered(Disk)
  <2>1. ~Open(after) /\ ~MayStillCommit(after)
    BY <1>5, <1>7 DEF Open, ClosedPhases, MayStillCommit
  <2>2. Triple(after) = Triple(Disk)
    BY <1>7 DEF Triple
  <2>3. QED
    BY <1>4, <1>6, <2>1, <2>2, RecoveredIs DEF MayCommit
<1>9. TxnInv' /\ Advances
  <2>1. Shaped(leaves)
    BY <1>1, <1>6, StoreShaped
  <2>2. ASSUME NEW e \in leaves PROVE Kin(e) /\ e.journal # None /\ Firm(e)
    <3>1. CASE SameFiles(e, Disk)
      <4>1. Triple(e) = Triple(Disk) /\ Recovered(e) = Recovered(Disk) /\ e \in Directory
        BY <1>2, <1>6, <3>1, SameForce
      <4>2. QED
        BY <1>2, <1>4, <3>1, <4>1, KinAs DEF Kin, Firm, Settles, SameFiles
    <3>2. CASE e = after
      BY <1>2, <1>5, <1>6, <1>7, <1>8, <3>2, KinAs DEF Kin, Firm
    <3>3. QED
      BY <1>7, <3>1, <3>2
  <2>3. QED
    BY <1>1, <1>2, <1>4, <1>6, <2>1, <2>2, CarriedFirm
<1>10. CASE Completed(after) /\ pc' = "cleanConfig" /\ run' = run
  <2>1. Disk' = after
    BY <1>6, <1>10, CompletedDisk
  <2>2. run.caller = "undo" => Recovered(after) = txn.before
    BY <1>2, <1>8 DEF WorkInv, Halfway
  <2>3. WorkInv'
    BY <1>1, <1>2, <1>8, <1>10, <2>1, <2>2
       DEF WorkInv, Undoes, Aims, Halfway, Told, RollbackSteps, Unwritten, Filed, Standing
  <2>4. QED
    BY <1>9, <2>3
<1>11. CASE NotDone(run, leaves)
  <2>1. WorkInv'
    BY <1>1, <1>2, <1>6, <1>11, NotDoneWorks
  <2>2. QED
    BY <1>9, <2>1
<1>12. QED
  BY <1>1, <1>10, <1>11

\* While the record is being closed, what it says is what is installed, or what was
\* asked for is.
LEMMA ClosingFacts ==
  ASSUME SInv, TxnInv, pc \in CleanSteps
  PROVE  /\ Disk \in Directory /\ Disk \in Img /\ Disk.journal # None
         /\ InForce(Disk) = Triple(Disk) \/ (~txn.kept /\ Open(Disk) /\ Triple(Disk) = txn.after)
         /\ Open(Disk) =>
              /\ ~Disk.journal.keyChanged /\ Disk.journal.operation = "static-restore"
              /\ run.caller \in {"recovery", "keep"}
         /\ ~Open(Disk) => Recovered(Disk) = Triple(Disk)
         /\ \A d \in Img : ~txn.kept => Firm(d)
<1>1. /\ Disk \in Directory /\ Disk \in Img /\ Disk.journal # None /\ txn.kept \in BOOLEAN
      /\ Disk.journal \in Journal
  BY HostFacts, CleaningFacts DEF Directory
<1>2. \A d \in Img : ~txn.kept => Firm(d)
  BY FirmImages DEF Midway, Before, CleanSteps
<1>3. ~Open(Disk) => Recovered(Disk) = Triple(Disk)
  BY <1>1, RecoveredIs
<1>4. ASSUME Open(Disk)
      PROVE  /\ ~Disk.journal.keyChanged /\ Disk.journal.operation = "static-restore"
             /\ run.caller \in {"recovery", "keep"}
  <2>1. Underway(Disk) /\ run.caller \in {"recovery", "keep"}
    BY <1>4, CleaningFacts DEF Open
  <2>2. Disk.journal \in JournalRecord /\ ValidateSemantics(Disk.journal)
    BY <1>1, JournalRecords
  <2>3. QED
    BY <2>1, <2>2 DEF Underway, ValidateSemantics, JournalRecord, StaticOperations
<1>5. InForce(Disk) = Triple(Disk) \/ (~txn.kept /\ Open(Disk) /\ Triple(Disk) = txn.after)
  <2>1. CASE txn.kept
    BY <2>1 DEF InForce
  <2>2. CASE ~txn.kept /\ ~Open(Disk)
    BY <1>3, <2>2 DEF InForce
  <2>3. CASE ~txn.kept /\ Open(Disk)
    <3>1. MayCommit(Disk)
      BY <1>4, <2>3 DEF MayCommit, StaticOperations
    <3>2. Triple(Disk) \in {txn.after, Recovered(Disk)}
      BY <1>1, <1>2, <2>3, <3>1 DEF Firm, Settles
    <3>3. QED
      BY <2>3, <3>2 DEF InForce
  <2>4. QED
    BY <1>1, <2>1, <2>2, <2>3
<1>6. QED
  BY <1>1, <1>2, <1>3, <1>4, <1>5

\* An image with the installed files, whose record says no more than they do.
LEMMA ClosingKin ==
  ASSUME SInv, TxnInv, pc \in CleanSteps, NEW e \in Directory, Triple(e) = Triple(Disk),
         Recovered(e) \in {Triple(e), Recovered(Disk)}
  PROVE  Kin(e) /\ (~txn.kept => Firm(e))
<1>1. txn.kept \in BOOLEAN
  BY HostFacts
<1>2. InForce(Disk) = Triple(Disk) \/ (~txn.kept /\ Triple(Disk) = txn.after)
  BY ClosingFacts
<1>3. CASE txn.kept
  BY <1>3 DEF Kin, InForce
<1>4. CASE ~txn.kept
  <2>1. InForce(e) = Recovered(e) /\ InForce(Disk) = Recovered(Disk)
    BY <1>4 DEF InForce
  <2>2. Kin(e)
    BY <1>2, <2>1 DEF Kin
  <2>3. Triple(e) \in {txn.after, Recovered(e)}
    BY <1>2, <2>1
  <2>4. QED
    BY <2>2, <2>3 DEF Firm, Settles
<1>5. QED
  BY <1>1, <1>3, <1>4

\* A snapshot is removed.
LEMMA CleanExact ==
  ASSUME SInv, TxnInv, WorkInv, Shut, Windows = {}, UNCHANGED <<wg, timer, txn>>,
         NEW backup \in {"configPrevious", "credentialPrevious"},
         \/ pc = "cleanConfig" /\ backup = "configPrevious"
         \/ pc = "cleanKey" /\ backup = "credentialPrevious",
         \/ Gone(backup) /\ pc' \in {"cleanKey", "cleanJournal"} /\ run' = run
         \/ NotDone(run, RemoveLeaves(Disk, backup))
  PROVE  TxnInv' /\ WorkInv' /\ Advances
<1> DEFINE after == Removed(Disk, backup)
           leaves == RemoveLeaves(Disk, backup)
<1>1. /\ pc \in CleanSteps /\ Disk \in Directory /\ Disk \in Img /\ TInv /\ run \in RunType
      /\ txn.kept \in BOOLEAN /\ pc' \in {"cleanKey", "cleanJournal"} => pc' \in CleanSteps
  BY HostFacts DEF CleanSteps, TInv, Typed
<1>2. /\ Disk.journal # None /\ run.caller \in {"recovery", "rollback", "undo", "keep", "finalize"}
      /\ run.caller \in {"rollback", "undo"} => Disk.journal.phase = "rolled-back"
  BY <1>1, CleaningFacts
<1>3. leaves \in SUBSET Directory /\ Disk \in leaves /\ after \in leaves /\ after \in Directory
  BY <1>1, RemoveTypes DEF RemoveLeaves
<1>4. /\ after.journal = Disk.journal /\ after.config = Disk.config /\ after.credential = Disk.credential
      /\ \/ after.configPrevious = None
         \/ after.configPrevious = Disk.configPrevious
      /\ \A e \in leaves : SameFiles(e, Disk) \/ e = after
  BY <1>1, RemoveForms
<1> HIDE DEF after, leaves
<1>5. Triple(after) = Triple(Disk) /\ Recovered(after) \in {Triple(after), Recovered(Disk)}
  <2>1. Triple(after) = Triple(Disk)
    BY <1>4 DEF Triple
  <2>2. CASE ~Open(Disk)
    <3>1. ~Open(after)
      BY <1>4, <2>2 DEF Open
    <3>2. QED
      BY <1>3, <2>1, <3>1, RecoveredIs
  <2>3. CASE Open(Disk)
    <3>1. ~Disk.journal.keyChanged /\ Open(after)
      BY <1>1, <1>4, <2>3, ClosingFacts DEF Open
    <3>2. FormerKey(after) = after.credential /\ FormerKey(Disk) = after.credential
      BY <1>4, <3>1 DEF FormerKey
    <3>3. Former(after) \in {after.config, Former(Disk)}
      BY <1>4 DEF Former
    <3>4. CASE Former(after) = after.config
      BY <1>3, <2>1, <3>1, <3>2, <3>4, RecoveredIs
    <3>5. CASE Former(after) = Former(Disk)
      BY <1>1, <1>3, <2>1, <2>3, <3>1, <3>2, <3>5, RecoveredIs
    <3>6. QED
      BY <2>1, <3>3, <3>4, <3>5
  <2>4. QED
    BY <2>2, <2>3
<1>6. ASSUME NEW e \in leaves
      PROVE  /\ e \in Directory /\ Kin(e) /\ (~txn.kept => Firm(e)) /\ e.journal = Disk.journal
  <2>1. CASE SameFiles(e, Disk)
    <3>1. e \in Directory /\ Triple(e) = Triple(Disk) /\ Recovered(e) = Recovered(Disk)
      BY <1>1, <1>3, <2>1, SameForce
    <3>2. QED
      BY <1>1, <2>1, <3>1, ClosingKin DEF SameFiles
  <2>2. CASE e = after
    BY <1>1, <1>3, <1>4, <1>5, <2>2, ClosingKin
  <2>3. QED
    BY <1>4, <2>1, <2>2
<1>7. ASSUME Shaped(leaves) PROVE TxnInv' /\ Advances
  BY <1>1, <1>2, <1>3, <1>6, <1>7, ClosingFacts, CarriedFirm
<1>8. CASE Gone(backup) /\ pc' \in {"cleanKey", "cleanJournal"} /\ run' = run
  <2>1. Disk' = after /\ Shaped(leaves)
    <3>1. CASE Completed(after)
      BY <1>3, <3>1, CompletedDisk, StoreShaped
    <3>2. CASE after = Disk /\ UNCHANGED <<images, status, faults>>
      <4>1. images' = images /\ Disk' = Disk
        BY <3>2 DEF Disk
      <4>2. QED
        BY <3>2, <4>1 DEF Shaped
    <3>3. QED
      BY <1>8, <3>1, <3>2 DEF Gone, after
  <2>2. WorkInv'
    <3>1. CASE run.caller \in {"recovery", "rollback"}
      BY <1>1, <1>8, <3>1, RecoveryWorks DEF CleanSteps
    <3>2. CASE run.caller \in {"undo", "keep"}
      <4>1. run.caller = "undo" => ~Open(Disk) /\ ~MayStillCommit(Disk) /\ Recovered(Disk) = txn.before
        BY <1>1, <1>2, <3>2 DEF Open, ClosedPhases, MayStillCommit, WorkInv, Halfway
      <4>2. run.caller = "undo" => Recovered(after) = txn.before /\ ~MayStillCommit(after)
        BY <1>1, <1>4, <1>5, <4>1, ClosingFacts DEF MayStillCommit
      <4>3. (run.caller = "keep" => txn.kept) /\ (run.caller = "undo" => ~txn.kept)
        BY DEF WorkInv, Halfway
      <4>4. run'.caller = run.caller /\ pc' \notin RollbackSteps \cup Unwritten \cup Filed \cup Standing
            /\ pc' \notin {"idle", "enter", "validate"} /\ txn' = txn
        BY <1>8 DEF RollbackSteps, Unwritten, Filed, Standing
      <4>5. QED
        BY <2>1, <3>2, <4>2, <4>3, <4>4 DEF WorkInv, Undoes, Aims, Halfway, Told, RollbackSteps, Standing
    <3>3. CASE run.caller = "finalize"
      <4>1. Triple(after) = txn.after
        BY <1>5, <3>3 DEF WorkInv, Halfway
      <4>2. QED
        BY <1>1, <1>8, <2>1, <3>3, <4>1, FinalizeWorks DEF CleanSteps
    <3>4. QED
      BY <1>2, <3>1, <3>2, <3>3
  <2>3. QED
    BY <1>7, <2>1, <2>2
<1>9. CASE NotDone(run, leaves)
  <2>1. WorkInv'
    BY <1>1, <1>2, <1>3, <1>9, NotDoneWorks
  <2>2. Shaped(leaves)
    BY <1>3, <1>9, StoreShaped
  <2>3. QED
    BY <1>7, <2>1, <2>2
<1>10. QED
  BY <1>8, <1>9 DEF leaves

\* CleanConfig keeps what the images and the invocation say of the transaction.
LEMMA CleanConfigExact ==
  ASSUME SInv, TxnInv, WorkInv, Shut, Windows = {}, CleanConfig
  PROVE  TxnInv' /\ WorkInv' /\ Advances
BY HostFacts, CleanConfigLands, CleanExact

\* CleanKey keeps what the images and the invocation say of the transaction.
LEMMA CleanKeyExact ==
  ASSUME SInv, TxnInv, WorkInv, Shut, Windows = {}, CleanKey
  PROVE  TxnInv' /\ WorkInv' /\ Advances
BY HostFacts, CleanKeyLands, CleanExact

\* A fault finds the record the last that is left of the transaction.
LEMMA RemovalSynced ==
  ASSUME SInv, Shut, Windows = {}, pc = "cleanJournal", NEW fault, Spend(fault), NEW d \in Img
  PROVE  Triple(d) = Triple(Disk) /\ Recovered(d) = Triple(Disk)
<1>1. ~Lingering
  BY NoFault
<1>2. PICK i \in 1..Len(images) : d = images[i]
  BY DEF Img
<1>3. {Triple(images[i]), Recovered(images[i])} = {Triple(Disk)}
  BY <1>1 DEF Lingering
<1>4. QED
  BY <1>2, <1>3

\* The record is closed.
LEMMA CleanJournalExact ==
  ASSUME SInv, TxnInv, WorkInv, Shut, Windows = {}, CleanJournal
  PROVE  TxnInv' /\ WorkInv' /\ Advances
<1> DEFINE after == Removed(Disk, "journal")
           leaves == RemoveLeaves(Disk, "journal")
<1>1. /\ pc = "cleanJournal" /\ UNCHANGED <<wg, timer, txn>>
      /\ \/ /\ Gone("journal")
            /\ \/ run.caller \in {"recovery", "rollback"} /\ pc' = "ready" /\ run'.caller = "none"
               \/ run.caller = "undo" /\ End("failed")
               \/ run.caller = "keep" /\ End("kept")
               \/ run.caller = "finalize" /\ pc' = "reset" /\ run'.caller = "post"
         \/ NotDone(run, leaves)
  <2>1. \A c \in {"none", "post"} : /\ [run EXCEPT !.caller = c].caller = c
                                    /\ [run EXCEPT !.caller = c, !.journal = None].caller = c
    BY HostFacts DEF Typed, RunType
  <2>2. QED
    BY <2>1, HostFacts, CleanJournalLands
<1>2. /\ pc \in CleanSteps /\ Disk \in Directory /\ Disk \in Img /\ TInv /\ run \in RunType
      /\ txn.kept \in BOOLEAN /\ Disk.journal # None
      /\ run.caller \in {"recovery", "rollback", "undo", "keep", "finalize"}
      /\ run.caller \in {"rollback", "undo"} => Disk.journal.phase = "rolled-back"
  BY <1>1, HostFacts, CleaningFacts DEF CleanSteps, TInv, Typed
<1>3. leaves \in SUBSET Directory /\ Disk \in leaves /\ after \in leaves /\ after \in Directory
  BY <1>2, RemoveTypes DEF RemoveLeaves
<1>4. /\ after.journal = None /\ after.config = Disk.config /\ after.credential = Disk.credential
      /\ \A e \in leaves : SameFiles(e, Disk) \/ e = after
  BY <1>2, RemoveForms
<1> HIDE DEF after, leaves
<1>5. /\ Triple(after) = Triple(Disk) /\ Recovered(after) = Triple(after) /\ ~MayCommit(after)
      /\ after # Disk
  <2>1. Triple(after) = Triple(Disk) /\ ~Open(after)
    BY <1>4 DEF Triple, Open
  <2>2. QED
    BY <1>2, <1>3, <1>4, <2>1, RecoveredIs DEF MayCommit
<1>6. ASSUME NEW e \in leaves
      PROVE  /\ e \in Directory /\ Kin(e) /\ (~txn.kept => Firm(e))
             /\ Triple(e) = Triple(Disk) /\ Recovered(e) \in {Triple(e), Recovered(Disk)}
  <2>1. CASE SameFiles(e, Disk)
    <3>1. e \in Directory /\ Triple(e) = Triple(Disk) /\ Recovered(e) = Recovered(Disk)
      BY <1>2, <1>3, <2>1, SameForce
    <3>2. QED
      BY <1>2, <3>1, ClosingKin
  <2>2. CASE e = after
    BY <1>2, <1>3, <1>5, <2>2, ClosingKin
  <2>3. QED
    BY <1>4, <2>1, <2>2
<1>7. CASE /\ Gone("journal")
           /\ \/ run.caller \in {"recovery", "rollback"} /\ pc' = "ready" /\ run'.caller = "none"
              \/ run.caller = "undo" /\ End("failed")
              \/ run.caller = "keep" /\ End("kept")
              \/ run.caller = "finalize" /\ pc' = "reset" /\ run'.caller = "post"
  <2>1. images' = <<after>> /\ Disk' = after
    BY <1>3, <1>5, <1>7, CompletedDisk DEF Gone, Completed, after
  <2>2. TxnInv' /\ Advances
    BY <1>1, <1>2, <1>3, <1>5, <1>6, <2>1, CarriedDone
  <2>3. WorkInv'
    <3>1. CASE run.caller \in {"recovery", "rollback"} /\ pc' = "ready" /\ run'.caller = "none"
      BY <3>1, BareWorks
    <3>2. CASE run.caller = "undo" /\ End("failed")
      <4>1. ~Open(Disk)
        BY <1>2, <3>2 DEF Open, ClosedPhases
      <4>2. Triple(after) = txn.before
        BY <1>2, <1>5, <3>2, <4>1, ClosingFacts DEF WorkInv, Halfway
      <4>3. QED
        BY <1>1, <2>1, <3>2, <4>2, IdleWorks DEF Told, End
    <3>3. CASE run.caller = "keep" /\ End("kept")
      <4>1. txn.kept
        BY <3>3 DEF WorkInv, Halfway
      <4>2. QED
        BY <1>1, <3>3, <4>1, IdleWorks DEF Told, End
    <3>4. CASE run.caller = "finalize" /\ pc' = "reset" /\ run'.caller = "post"
      <4>1. Triple(after) = txn.after
        BY <1>5, <3>4 DEF WorkInv, Halfway
      <4>2. QED
        BY <1>1, <2>1, <3>4, <4>1, PostWorks DEF PostSteps
    <3>5. QED
      BY <1>7, <3>1, <3>2, <3>3, <3>4
  <2>4. QED
    BY <2>2, <2>3
<1>8. CASE NotDone(run, leaves)
  <2>1. WorkInv'
    BY <1>1, <1>2, <1>3, <1>8, NotDoneWorks
  <2>2. Shaped(leaves)
    BY <1>3, <1>8, StoreShaped
  <2>3. CASE \E fault : Spend(fault)
    <3>1. \A d \in Img : Triple(d) = Triple(Disk) /\ Recovered(d) = Triple(Disk)
      BY <1>1, <2>3, RemovalSynced
    <3>2. images[1] \in Img
      BY <1>2, TypedFacts DEF TInv
    <3>3. ASSUME NEW d \in Img \cup leaves
          PROVE  Triple(d) = Triple(images[1]) /\ Recovered(d) = Triple(images[1])
      BY <1>2, <1>6, <3>1, <3>2
    <3>4. \A d \in Img \cup leaves : Plain(d, Triple(images[1]), txn)
      BY <3>3 DEF Plain
    <3>5. Img' \subseteq Img \cup leaves
      BY <1>2, <1>3, <2>2, ShapedImages DEF TInv
    <3>6. \A d \in Img' : ~txn.kept /\ MayCommit(d) => Settles(d, txn) \/ Excused(d)'
      BY <3>3, <3>5 DEF Settles
    <3>7. TxnInv' /\ Advances
      BY <1>1, <1>2, <1>3, <1>6, <2>2, <3>4, <3>6, Carried
    <3>8. QED
      BY <2>1, <3>7
  <2>4. CASE Refuses(run)
    <3>1. Shaped({Disk})
      BY <2>4, StillShaped DEF Refuses
    <3>2. \A d \in Img : ~Excused(d)
      BY <1>1 DEF Excused, Midway, Before
    <3>3. TxnInv' /\ Advances
      BY <1>1, <1>2, <3>1, <3>2, StillCarried
    <3>4. QED
      BY <2>1, <3>3
  <2>5. QED
    BY <1>8, <2>3, <2>4 DEF NotDone, Fails, Cuts
<1>9. QED
  BY <1>1, <1>7, <1>8

(* ------------------------- the transaction ----------------------------- *)

\* Every step keeps what the images and the invocation say of the transaction.
LEMMA StepExact ==
  ASSUME SInv, TxnInv, WorkInv, Shut, Windows = {}, Next
  PROVE  TxnInv' /\ WorkInv' /\ Advances
<1>1. CASE Recovery
  BY <1>1, DiscardExact, ReconcileExact, CleanupCandidateExact, ClassifyExact DEF Recovery
<1>2. CASE RollingBack
  BY <1>2, UnadoptExact, RestoreConfigExact, RestoreKeyExact, DropExact, MarkRolledBackExact
     DEF RollingBack
<1>3. CASE CleanUp
  BY <1>3, CleanConfigExact, CleanKeyExact, CleanJournalExact DEF CleanUp
<1>4. CASE Applying
  BY <1>4, BeginExact, ValidateExact, PrepareExact, SnapshotConfigExact, SnapshotKeyExact,
     WriteConfigExact, MarkConfigExact, WriteKeyExact, MarkKeyExact, RevalidateExact,
     ActivateExact, MarkActivatingExact, RestoreStaticExact, MarkActivatedExact DEF Applying
<1>5. CASE Proving
  BY <1>5, BeginProofExact, MarkVerifyingExact, VerifyExact, MarkVerifiedExact DEF Proving
<1>6. CASE Ending
  BY <1>6, ResetExact, RemoveKeyExact, EnableExact DEF Ending
<1>7. CASE Enter \/ StopUnits
  BY <1>7, EnterExact, StopExact
<1>8. CASE Preview \/ Check \/ PowerLoss \/ (\E r \in Requests : Ask(r))
  BY <1>8, PreviewExact, CheckExact, PowerLossExact, AskExact
<1>9. QED
  BY <1>1, <1>2, <1>3, <1>4, <1>5, <1>6, <1>7, <1>8 DEF Next, Proceed

\* Nothing changes when nothing does.
LEMMA StutterExact ==
  ASSUME TxnInv, WorkInv, UNCHANGED vars
  PROVE  TxnInv' /\ WorkInv' /\ UNCHANGED <<InForce(images[1]), txn.after>>
<1>1. /\ images' = images /\ wg' = wg /\ status' = status /\ pc' = pc /\ run' = run
      /\ verdict' = verdict /\ txn' = txn /\ Disk' = Disk /\ Img' = Img
  BY DEF vars, Disk, Img
<1>2. \A d : InForce(d)' = InForce(d)
  BY <1>1 DEF InForce
<1>3. InForce(images[1])' = InForce(images[1])
  BY <1>1, <1>2 DEF InForce
<1>4. Ordered' /\ Bounded' /\ Cleared' /\ Whole'
  <2>1. Ordered'
    BY <1>1, <1>2, <1>3 DEF TxnInv, Ordered
  <2>2. Bounded'
    BY <1>1, <1>2 DEF TxnInv, Bounded
  <2>3. Cleared'
    BY <1>1 DEF TxnInv, Cleared
  <2>4. \A d : Excused(d)' = Excused(d)
    BY <1>1 DEF Excused
  <2>5. Whole'
    BY <1>1, <2>4 DEF TxnInv, Whole
  <2>6. QED
    BY <2>1, <2>2, <2>3, <2>5
<1>5. WorkInv'
  BY <1>1 DEF WorkInv
<1>6. QED
  BY <1>1, <1>3, <1>4, <1>5 DEF TxnInv

\* It holds of every installation the program may find.
LEMMA InitExact == ASSUME Init PROVE TxnInv /\ WorkInv
<1>1. PICK i \in Initial :
        /\ images = <<[journal |-> None, config |-> i.config, credential |-> i.credential,
                       configPrevious |-> None, credentialPrevious |-> None, staging |-> {}]>>
  BY DEF Init
<1>2. Img = {Disk} /\ Disk = images[1] /\ Disk.journal = None
  BY <1>1 DEF Img, Disk
<1>3. /\ pc = "idle" /\ run = NoRun /\ verdict = "none"
      /\ txn.before = Triple(Disk) /\ txn.after = Triple(Disk) /\ txn.kept = FALSE
  BY DEF Init
<1>4. Recovered(Disk) = Triple(Disk) /\ InForce(Disk) = Triple(Disk) /\ ~MayCommit(Disk)
  BY <1>2, <1>3 DEF Recovered, InForce, MayCommit, Open
<1>5. TxnInv
  BY <1>2, <1>3, <1>4 DEF TxnInv, Ordered, Follows, Bounded, Accounted, Cleared, Plain, Whole
<1>6. run.caller = "none"
  BY <1>3 DEF NoRun
<1>7. WorkInv
  BY <1>3, <1>6 DEF WorkInv, Undoes, Aims, Halfway, Told, RollbackSteps, Unwritten, Filed, Standing
<1>8. QED
  BY <1>5, <1>7

\* The invariant: what the images say is in force is what was found or what was asked
\* for, in that order, and the invocation's place agrees with how far it has come.
THEOREM EngineExact == ASSUME Windows = {} PROVE Spec => [](TxnInv /\ WorkInv)
<1>1. Init => TxnInv /\ WorkInv
  BY InitExact
<1>2. SInv /\ TxnInv /\ WorkInv /\ [Next]_vars => TxnInv' /\ WorkInv'
  <2>1. Shut
    BY DEF Shut
  <2>2. QED
    BY <2>1, StepExact, StutterExact
<1>3. QED
  BY <1>1, <1>2, ClosedSound, PTL DEF Spec

\* The engine implements the atomic change: on the disk a power loss would leave, and
\* after the recovery that follows, source, settings and credential go together from
\* what was installed to what was asked for (_apply_api, _apply_static,
\* _recover_setup_transaction).
THEOREM EngineRefinesAtomic == ASSUME Windows = {} PROVE Spec => AppliesAtomically
<1>1. Init => Atomic!Init
  <2>1. SUFFICES ASSUME Init PROVE Atomic!Init
    OBVIOUS
  <2>2. TInv /\ TxnInv
    BY <2>1, TypedInit, InitExact
  <2>3. images[1] \in Directory /\ txn.kept = FALSE /\ txn.after = Triple(Disk) /\ Len(images) = 1
    BY <2>1, <2>2, TypedFacts DEF Init, TInv
  <2>4. InForce(images[1]) \in Triples
    BY <2>3, InForceTypes DEF InForce
  <2>5. txn.after = InForce(images[1])
    <3>1. Disk = images[1] /\ Disk.journal = None
      BY <2>1, <2>3 DEF Init, Disk
    <3>2. QED
      BY <2>3, <3>1 DEF InForce, Recovered
  <2>6. QED
    BY <2>4, <2>5 DEF Atomic!Init
<1>2. SInv /\ SInv' /\ TxnInv /\ WorkInv /\ [Next]_vars
        => [Atomic!Next]_<<InForce(images[1]), txn.after>>
  <2>1. SUFFICES ASSUME SInv, SInv', TxnInv, WorkInv, Next
                 PROVE  [Atomic!Next]_<<InForce(images[1]), txn.after>>
    BY StutterExact
  <2>2. Advances
    BY <2>1, StepExact DEF Shut
  <2>3. txn'.after \in Triples
    BY <2>1 DEF SInv, TInv, Typed, TxnType
  <2>4. CASE txn'.after = txn.after /\ Follows(InForce(images[1]), InForce(images[1])', txn.after)
    <3>1. CASE InForce(images[1])' = InForce(images[1])
      BY <2>4, <3>1
    <3>2. CASE InForce(images[1])' = txn.after
      BY <2>4, <3>2 DEF Atomic!Next, Atomic!Commit
    <3>3. CASE InForce(images[1]).source = "static" /\ InForce(images[1])' = Keyless(InForce(images[1]))
      BY <2>4, <3>3 DEF Atomic!Next, Atomic!RemoveKey, Keyless
    <3>4. QED
      BY <2>4, <3>1, <3>2, <3>3 DEF Follows
  <2>5. CASE InForce(images[1])' = InForce(images[1])
    BY <2>3, <2>5 DEF Atomic!Next, Atomic!Ask
  <2>6. CASE /\ InForce(images[1]).source = "static"
             /\ InForce(images[1])' = Keyless(InForce(images[1])) /\ txn'.after = InForce(images[1])'
    BY <2>6 DEF Atomic!Next, Atomic!RemoveKey, Keyless
  <2>7. QED
    BY <2>2, <2>4, <2>5, <2>6 DEF Advances
<1>3. QED
  BY <1>1, <1>2, ClosedSound, EngineExact, PTL DEF Spec, AppliesAtomically, Atomic!Spec

\* With no record left, source, settings and credential are those found or those asked
\* for; only a key given up in static mode may be either there or gone.
THEOREM ExactlyOneOrOther == ASSUME Windows = {} PROVE Spec => []ExactOrCommitted
<1>1. SInv /\ TxnInv => ExactOrCommitted
  <2>1. SUFFICES ASSUME SInv, TxnInv, Disk.journal = None PROVE ExactOrCommitted
    BY DEF ExactOrCommitted
  <2>2. Disk \in Img
    BY <2>1, HostFacts
  <2>3. InForce(Disk) = Triple(Disk)
    BY <2>1 DEF InForce, Recovered
  <2>4. Accounted(Triple(Disk), txn)
    BY <2>1, <2>2, <2>3 DEF TxnInv, Bounded
  <2>5. Triple(Disk).source = Disk.config.source
    BY DEF Triple
  <2>6. QED
    BY <2>4, <2>5 DEF Accounted, ExactOrCommitted, Keyless
<1>2. QED
  BY <1>1, ClosedSound, EngineExact, PTL

\* What the operator is told outlives a power loss: "freshly verified" is in force in
\* every image, "failed" found everything put back, "kept" stays static (apply_request).
THEOREM AnswersHold == ASSUME Windows = {} PROVE Spec => []AnswerHolds
<1>1. SInv /\ WorkInv => AnswerHolds
  <2>1. SUFFICES ASSUME SInv, WorkInv, pc = "idle"
                 PROVE  /\ verdict = "failed" => Triple(Disk) = txn.before
                        /\ \A i \in 1..Len(images) :
                             /\ verdict = "done" =>
                                  images[i].journal = None /\ Triple(images[i]) = txn.after
                             /\ verdict = "kept" => images[i].config.source = "static"
    BY DEF AnswerHolds
  <2>2. /\ verdict = "failed" => Triple(Disk) = txn.before
        /\ verdict = "done" => Len(images) = 1 /\ Disk.journal = None /\ Triple(Disk) = txn.after
        /\ verdict = "kept" => txn.kept
    BY <2>1 DEF WorkInv, Told
  <2>3. ASSUME NEW i \in 1..Len(images), verdict = "done"
        PROVE  images[i].journal = None /\ Triple(images[i]) = txn.after
    <3>1. Len(images) = 1
      BY <2>2, <2>3
    <3>2. i = 1
      BY <2>3, <3>1, SMT
    <3>3. images[i] = Disk
      BY <3>1, <3>2 DEF Disk
    <3>4. QED
      BY <2>2, <2>3, <3>3
  <2>4. ASSUME NEW i \in 1..Len(images), verdict = "kept"
        PROVE  images[i].config.source = "static"
    <3>1. images[i] \in Img
      BY DEF Img
    <3>2. Worth(images[i], wg, txn.kept)
      BY <2>1, <3>1, HostFacts
    <3>3. QED
      BY <2>2, <2>4, <3>2 DEF Worth
  <2>5. QED
    BY <2>2, <2>3, <2>4
<1>2. QED
  BY <1>1, ClosedSound, EngineExact, PTL

(* ----------------------------- adoptions ------------------------------- *)

\* While the last request is an adoption, the profiles are on their way from the
\* operator's own to the adopted one, or back.
Home(t) == {t.profile, Moved(t.profile)}
Adopted(w, t) ==
  /\ t.profile # None /\ t.before.source = "static" /\ ~t.kept /\ w.profile # None
  /\ w.preManaged \in {None, t.profile}
  /\ w.preManaged = None => w.profile \in Home(t) /\ w.switching \subseteq Home(t)

\* What an image says of the snapshot m of the operator's profile: it is there from
\* the activation to the end of the rollback, and only the record of this adoption
\* can be there with it.
Shows(d, m) ==
  /\ Open(d) => Former(d).source = "static" /\ ~Underway(d)
  /\ m = None => d.config.source = "static"
  /\ m # None => /\ ~Open(d) => d.config.source = "api"
                 /\ d.journal # None => UndoesAdoption(d.journal)
                 /\ Open(d) => d.journal.phase # "prepared"

\* The source is static again, and recovery could still commit: only in a rollback.
Returned(d, m) == m # None /\ MayStillCommit(d) /\ d.config.source = "static"
Pictured ==
  \A d \in Img : Shows(d, wg.preManaged) /\ (Returned(d, wg.preManaged) => Excused(d))

\* How far the invocation has come with it.
Adopting(p, r, D, w, t) ==
  /\ p = "validate" \/ r.caller \in {"apply", "finalize", "undo", "keep", "post"} =>
       UndoesAdoption(r.journal)
  /\ p = "validate" \/ r.caller \in {"apply", "finalize", "post"} => r.request.mode = "api"
  /\ p \in {"validate"} \cup Unwritten \cup Filed => w.preManaged = None /\ w.profile = t.profile
  /\ p \in {"restoreConfig", "restoreKey", "dropPreManaged"} /\ w.preManaged # None =>
       w.profile = t.profile /\ w.switching = {}
  /\ p = "markRolledBack" => w.preManaged = None
  /\ p \in Standing /\ r.caller = "recovery" /\ w.preManaged # None =>
       p = "markVerified" /\ D.config.source = "api"

AdoptInv ==
  txn.adopts => Adopted(wg, txn) /\ Pictured /\ Adopting(pc, run, Disk, wg, txn)
Ground == SInv /\ TxnInv /\ WorkInv /\ AdoptInv /\ Shut /\ Windows = {}

\* The images of a shaped step are pictured if what it leaves is.
LEMMA PicturedGo ==
  ASSUME TInv, Pictured, NEW leaves \in SUBSET Directory, Disk \in leaves, Shaped(leaves),
         wg'.preManaged = wg.preManaged,
         \A e \in leaves : Shows(e, wg.preManaged),
         \A d \in Img' : Returned(d, wg.preManaged) => Excused(d)'
  PROVE  Pictured'
<1>1. Img' \subseteq Img \cup leaves
  BY ShapedImages DEF TInv
<1>2. \A d \in Img' : Shows(d, wg.preManaged)
  BY <1>1 DEF Pictured
<1>3. \A d, m : Shows(d, m)' = Shows(d, m') /\ Returned(d, m)' = Returned(d, m')
  BY DEF Shows, Returned, MayStillCommit, Open, Former, Underway
<1>4. QED
  BY <1>2 DEF Pictured, Shows, Returned, MayStillCommit, Open, Former, Underway

\* Outside a rollback no image needs an excuse.
LEMMA PicturedCalm ==
  ASSUME TInv, Pictured, pc \notin Midway \cup Before \/ ~MayStillCommit(Disk),
         NEW leaves \in SUBSET Directory, Disk \in leaves, Shaped(leaves),
         wg'.preManaged = wg.preManaged,
         \A e \in leaves : Shows(e, wg.preManaged) /\ ~Returned(e, wg.preManaged)
  PROVE  Pictured'
<1>1. Img' \subseteq Img \cup leaves
  BY ShapedImages DEF TInv
<1>2. ASSUME NEW d \in Img PROVE ~Returned(d, wg.preManaged)
  <2>1. SUFFICES ASSUME Returned(d, wg.preManaged) PROVE FALSE
    OBVIOUS
  <2>2. Excused(d) /\ MayStillCommit(d)
    BY <2>1 DEF Pictured, Returned
  <2>3. QED
    BY <2>2 DEF Excused, MayStillCommit
<1>3. QED
  BY <1>1, <1>2, PicturedGo

\* A step that writes nothing keeps the excuses.
LEMMA PicturedStill ==
  ASSUME TInv, Pictured, Shaped({Disk}), wg'.preManaged = wg.preManaged,
         \A d \in Img : Returned(d, wg.preManaged) /\ Excused(d) /\ d.journal = Disk'.journal
                          => Excused(d)'
  PROVE  Pictured'
<1>1. Disk \in Directory /\ Disk \in Img
  BY TypedFacts DEF TInv
<1>2. /\ Img' \subseteq Img \cup {Disk}
      /\ \/ \E d \in Img \cup {Disk} : Img' = {d} /\ Disk' = d
         \/ Disk' \in {Disk}
  BY <1>1, ShapedImages DEF TInv
<1>3. ASSUME NEW d \in Img', Returned(d, wg.preManaged) PROVE Excused(d)'
  <2>1. d \in Img /\ (Disk' = d \/ Disk' = Disk)
    BY <1>1, <1>2, <1>3
  <2>2. Excused(d)
    BY <1>3, <2>1 DEF Pictured
  <2>3. d.journal = Disk'.journal
    BY <2>1, <2>2 DEF Excused
  <2>4. QED
    BY <1>3, <2>1, <2>2, <2>3
<1>4. Shows(Disk, wg.preManaged)
  BY <1>1 DEF Pictured
<1>5. QED
  BY <1>1, <1>3, <1>4, PicturedGo

\* A completed step leaves one image.
LEMMA PicturedOne ==
  ASSUME NEW e \in Directory, images' = <<e>>,
         Shows(e, wg'.preManaged), Returned(e, wg'.preManaged) => Excused(e)'
  PROVE  Pictured'
<1>1. Img' = {e}
  BY OneImage
<1>2. QED
  BY <1>1 DEF Pictured, Shows, Returned, MayStillCommit, Open, Former, Underway

\* Images with the same record and sources show the same.
LEMMA ShowsAlike ==
  ASSUME NEW d, NEW e, NEW m, e.journal = d.journal, e.config.source = d.config.source,
         Former(e).source = Former(d).source
  PROVE  /\ Shows(d, m) => Shows(e, m)
         /\ Returned(e, m) = Returned(d, m)
BY DEF Shows, Returned, Open, Underway, MayStillCommit

\* Images with the same files show the same.
LEMMA SameShows ==
  ASSUME NEW d, NEW e, NEW m, SameFiles(e, d)
  PROVE  /\ Shows(d, m) => Shows(e, m)
         /\ Returned(e, m) = Returned(d, m)
BY ShowsAlike DEF SameFiles, Former

\* Where the profiles and the transaction stay, the adoption does.
LEMMA AdoptedSame ==
  ASSUME Adopted(wg, txn), wg'.profile = wg.profile, wg'.preManaged = wg.preManaged,
         wg'.switching \subseteq wg.switching, txn'.profile = txn.profile,
         txn'.before = txn.before, txn'.kept = txn.kept
  PROVE  Adopted(wg', txn')
BY DEF Adopted, Home

\* Where nothing is being done for the adoption.
LEMMA BareAdopts ==
  ASSUME run'.caller \in {"none", "recovery", "rollback"},
         pc' \notin {"validate"} \cup Unwritten \cup Filed \cup Midway,
         pc' \in Standing => run'.caller = "none" \/ wg'.preManaged = None
  PROVE  Adopting(pc', run', Disk', wg', txn')
BY DEF Adopting, Midway

\* An invocation that has ended does nothing for it.
LEMMA IdleAdopts ==
  ASSUME pc' = "idle", run' = NoRun
  PROVE  Adopting(pc', run', Disk', wg', txn')
BY BareAdopts DEF NoRun, Unwritten, Filed, Midway, Standing

\* An error ends the invocation, or turns the try block into a rollback of it.
LEMMA RaiseAdopts ==
  ASSUME NEW self \in RunType, Raise(self), ~txn.kept,
         self.caller = "apply" => UndoesAdoption(self.journal)
  PROVE  Adopting(pc', run', Disk', wg', txn')
<1>1. self.caller \in Callers
  BY DEF RunType
<1>2. CASE pc' = "idle" /\ run' = NoRun
  BY <1>2, IdleAdopts
<1>3. CASE /\ self.caller = "apply"
           /\ pc' = IF self.journal.operation \in ApiOperations THEN "reconcile"
                                                                ELSE "restoreConfig"
           /\ run' = [self EXCEPT !.caller = "undo"]
  <2>1. pc' = "reconcile"
    BY <1>3 DEF UndoesAdoption, ApiOperations
  <2>2. run'.caller = "undo" /\ run'.journal = self.journal
    BY <1>3 DEF RunType
  <2>3. QED
    BY <1>3, <2>1, <2>2 DEF Adopting, Unwritten, Filed, Midway, Standing
<1>4. QED
  BY <1>1, <1>2, <1>3, RaiseLands

\* A store call that is not done does the same.
LEMMA NotDoneAdopts ==
  ASSUME NEW self \in RunType, NEW leaves, NotDone(self, leaves), ~txn.kept,
         self.caller = "apply" => UndoesAdoption(self.journal)
  PROVE  Adopting(pc', run', Disk', wg', txn')
<1>1. CASE End("killed")
  BY <1>1, IdleAdopts DEF End
<1>2. CASE Raise(self)
  BY <1>2, RaiseAdopts
<1>3. QED
  BY <1>1, <1>2 DEF NotDone, Fails, Cuts, Refuses

\* A quiet step keeps it: no check can move the profiles of a rollback.
LEMMA QuietAdopts ==
  ASSUME Ground, pc \in Quiet, pc' \in Quiet \cup {"discard"}, run'.caller = "none",
         images' = images \/ \E d \in Img : images' = <<d>>,
         UNCHANGED txn, wg'.preManaged = wg.preManaged, txn.adopts => Adopted(wg', txn),
         \/ wg'.switching = wg.switching /\ status' \in {status, "stale"}
         \/ ~(txn.undone /\ MayStillCommit(Disk))
  PROVE  AdoptInv'
<1>1. TInv /\ Shaped({Disk})
  BY StillShaped DEF Ground, SInv
<1>2. SUFFICES ASSUME txn.adopts PROVE AdoptInv'
  BY DEF AdoptInv
<1>3. Pictured
  BY <1>2 DEF Ground, AdoptInv
<1>4. ASSUME NEW d \in Img, Returned(d, wg.preManaged), Excused(d), d.journal = Disk'.journal
      PROVE  Excused(d)'
  <2>1. /\ d.journal = Disk.journal /\ d.journal.operation \in ApiOperations /\ txn.undone
        /\ d.journal.phase = "verifying" /\ status = "stale" /\ wg.switching = {}
    BY <1>4 DEF Excused, Midway, Quiet
  <2>2. MayStillCommit(Disk)
    BY <1>4, <2>1 DEF Returned, MayStillCommit
  <2>3. wg'.switching = {} /\ status' = "stale"
    BY <2>1, <2>2
  <2>4. pc' \in Before
    BY DEF Quiet, Before
  <2>5. QED
    BY <1>4, <2>1, <2>3, <2>4 DEF Excused
<1>5. Pictured'
  BY <1>1, <1>3, <1>4, PicturedStill
<1>6. Adopting(pc', run', Disk', wg', txn')
  BY BareAdopts DEF Quiet, Unwritten, Filed, Midway, Standing
<1>7. Adopted(wg, txn)'
  BY <1>2 DEF Adopted, Home
<1>8. QED
  BY <1>5, <1>6, <1>7 DEF AdoptInv, Adopting

\* A check moves the profiles only where an adoption has, or may: with the snapshot
\* there it may install any, without it none but the operator's own.
LEMMA AdoptedCheck ==
  ASSUME SInv, Shut, Windows = {}, Adopted(wg, txn), Shows(Disk, wg.preManaged), NEW r \in CheckResults
  PROVE  Adopted(r.wg, txn) /\ r.wg.preManaged = wg.preManaged
<1>1. wg \in Host /\ None \notin Profiles /\ Typed
  BY HostFacts, NoneApart DEF SInv, TInv, Typed, Profiles
<1>2. Moves \subseteq Profiles
  BY <1>1, MovesTypes
<1>3. wg.preManaged = None => Moves \subseteq Home(txn)
  <2>1. wg.preManaged = None => Disk.config.source = "static" /\ wg.profile \in Home(txn)
    BY DEF Shows, Adopted
  <2>2. wg.preManaged = None => Moves \subseteq {Moved(wg.profile)}
    BY <2>1 DEF Moves
  <2>3. QED
    BY <2>1, <2>2 DEF Home, Moved
<1>4. /\ r.wg.preManaged = wg.preManaged
      /\ \/ r.wg.profile = wg.profile \/ r.wg.profile \in wg.switching \cup Moves
      /\ r.wg.switching \subseteq wg.switching \cup {wg.profile} \cup Moves
  <2>1. PICK h, f, ok :
           /\ ok \in BOOLEAN /\ f \in {"stale", "good", status} /\ Checked(h, ok)
           /\ r = Result(h, Disk.config.source, f, ok, ~ok /\ wg.profile # None)
    BY CheckShapes
  <2>2. r.wg = h
    BY <2>1 DEF Result
  <2>3. CASE h = wg
    BY <2>2, <2>3
  <2>4. CASE \E p \in Moves : h = [wg EXCEPT !.profile = p]
    BY <1>1, <2>2, <2>4 DEF Host
  <2>5. CASE \E p \in Moves : h = [wg EXCEPT !.switching = {wg.profile, p}]
    BY <1>1, <2>2, <2>5 DEF Host
  <2>6. CASE h = [wg EXCEPT !.candidate = TRUE]
    BY <1>1, <2>2, <2>6 DEF Host
  <2>7. CASE \E p \in wg.switching :
               h = [wg EXCEPT !.profile = p, !.switching = {}, !.candidate = FALSE]
    BY <1>1, <2>2, <2>7 DEF Host
  <2>8. QED
    BY <2>1, <2>3, <2>4, <2>5, <2>6, <2>7 DEF Checked
<1>5. r.wg.profile # None
  BY <1>1, <1>2, <1>4 DEF Host, Adopted
<1>6. wg.preManaged = None => r.wg.profile \in Home(txn) /\ r.wg.switching \subseteq Home(txn)
  BY <1>3, <1>4 DEF Adopted
<1>7. QED
  BY <1>4, <1>5, <1>6 DEF Adopted

\* What happens between two invocations, and at the start of one, keeps it.
LEMMA BetweenAdopts ==
  ASSUME Ground, \/ \E r \in Requests : Ask(r)
                 \/ Enter \/ StopUnits \/ Preview \/ PowerLoss
  PROVE  AdoptInv'
<1>1. SInv /\ wg \in Host /\ run \in RunType /\ Shut /\ Windows = {}
  BY HostFacts, RunFacts DEF Ground, SInv, TInv, Typed
<1>2. Survivors(images) = Img
  BY <1>1, SurvivorsHere
<1>3. txn.adopts => Adopted(wg, txn)
  BY DEF Ground, AdoptInv
<1> DEFINE Calm ==
      /\ pc \in Quiet /\ pc' \in Quiet \cup {"discard"} /\ run'.caller = "none"
      /\ images' = images \/ \E d \in Img : images' = <<d>>
      /\ UNCHANGED txn
      /\ \/ wg' = wg
         \/ wg' = [wg EXCEPT !.candidate = TRUE]
      /\ status' \in {status, "stale"}
<1>4. Calm
  <2>1. ASSUME NEW r \in Requests, Ask(r) PROVE Calm
    <3>1. /\ pc = "idle" /\ UNCHANGED <<images, wg, status, txn>>
          /\ \/ pc' = "idle" /\ run' = NoRun
             \/ /\ pc' = "enter"
                /\ run' = [NoRun EXCEPT !.request = r, !.supplied = run'.supplied]
      BY <2>1, Zenon DEF Ask, End
    <3>2. pc \in Quiet /\ pc' \in Quiet
      BY <3>1 DEF Quiet
    <3>3. run' = NoRun => run'.caller = "none"
      BY DEF NoRun
    <3>4. run' = [NoRun EXCEPT !.request = r, !.supplied = run'.supplied] => run'.caller = "none"
      BY DEF NoRun
    <3>5. run'.caller = "none"
      BY <3>1, <3>3, <3>4
    <3> HIDE DEF Quiet
    <3>6. QED
      BY <3>1, <3>2, <3>5
  <2>2. CASE Enter
    <3>1. /\ pc = "enter" /\ UNCHANGED <<images, wg, status, txn>>
          /\ \/ pc' = "idle" /\ run' = NoRun
             \/ pc' = "stop" /\ \E b \in BOOLEAN : run' = [run EXCEPT !.recovering = b]
      <4>1. (Disk.journal # None) \in BOOLEAN
        OBVIOUS
      <4>2. QED
        BY <2>2, <4>1 DEF Enter, End, Go
    <3>2. run.caller = "none"
      BY <1>1, <3>1, QuietFacts DEF Quiet
    <3>3. run'.caller = "none"
      BY <1>1, <3>1, <3>2 DEF RunType, NoRun
    <3>4. QED
      BY <3>1, <3>3 DEF Quiet
  <2>3. CASE StopUnits
    <3>1. /\ pc = "stop" /\ UNCHANGED <<wg, txn>>
          /\ \/ pc' = "discard" /\ run' = run /\ UNCHANGED <<images, status>>
             \/ pc' = "idle" /\ run' = NoRun /\ UNCHANGED <<images, status>>
             \/ Killed(images, status)
      BY <2>3 DEF StopUnits, End, Go
    <3>2. Killed(images, status) =>
            /\ pc' = "idle" /\ run' = NoRun
            /\ \/ images' = images /\ status' = status
               \/ status' = "stale" /\ \E d \in Img : images' = <<d>>
      BY <1>2 DEF Killed, End
    <3>3. run.caller = "none"
      BY <1>1, <3>1, QuietFacts DEF Quiet
    <3>4. QED
      BY <3>1, <3>2, <3>3 DEF Quiet, NoRun
  <2>4. CASE Preview
    <3>1. pc = "idle" /\ UNCHANGED <<images, status, pc, run, txn>>
          /\ wg' = [wg EXCEPT !.candidate = TRUE]
      BY <2>4 DEF Preview
    <3>2. run.caller = "none"
      BY <1>1, <3>1, QuietFacts DEF Quiet
    <3>3. QED
      BY <3>1, <3>2 DEF Quiet
  <2>5. CASE PowerLoss
    <3>1. /\ pc \in {"idle", "enter"} /\ status' = "stale" /\ UNCHANGED <<wg, txn>>
          /\ pc' = "idle" /\ run' = NoRun
          /\ \E d \in Img : images' = <<d>>
      BY <1>2, <2>5 DEF PowerLoss, End
    <3>2. run'.caller = "none" /\ pc \in Quiet /\ pc' \in Quiet
      BY <3>1 DEF Quiet, NoRun
    <3> HIDE DEF Quiet
    <3>3. QED
      BY <3>1, <3>2
  <2>6. QED
    BY <2>1, <2>2, <2>3, <2>4, <2>5
<1>5. /\ wg'.preManaged = wg.preManaged /\ wg'.switching = wg.switching
      /\ wg'.profile = wg.profile
  BY <1>1, <1>4 DEF Host
<1>6. txn.adopts => Adopted(wg', txn)
  BY <1>3, <1>5 DEF Adopted
<1>7. QED
  BY <1>4, <1>5, <1>6, QuietAdopts

\* Check keeps it: it does nothing to a rollback that could still be committed.
LEMMA CheckAdopts ==
  ASSUME Ground, Check
  PROVE  AdoptInv'
<1>1. /\ pc \in {"idle", "enter"} /\ UNCHANGED <<images, pc, run, txn>>
      /\ ~(txn.undone /\ MayStillCommit(Disk))
      /\ \E r \in CheckResults : wg' = r.wg
  BY DEF Check, Ground
<1>2. run.caller = "none"
  BY <1>1, QuietFacts DEF Quiet, Ground
<1>3. SUFFICES ASSUME txn.adopts PROVE AdoptInv'
  BY <1>1 DEF AdoptInv
<1>4. Adopted(wg, txn) /\ Shows(Disk, wg.preManaged)
  BY <1>3, HostFacts DEF Ground, AdoptInv, Pictured
<1>5. Adopted(wg', txn) /\ wg'.preManaged = wg.preManaged
  BY <1>1, <1>4, AdoptedCheck DEF Ground
<1>6. QED
  BY <1>1, <1>2, <1>5, QuietAdopts DEF Quiet

\* What is returned could still be taken for committed.
LEMMA ReturnedCommits ==
  ASSUME NEW d, NEW m, Returned(d, m)
  PROVE  MayCommit(d) /\ MayStillCommit(d) /\ Open(d) /\ m # None
BY DEF Returned, MayCommit, MayStillCommit, Open, ClosedPhases

\* The two steps of recovery that call on the runtime, whatever comes of the call.
LEMMA RecoveryAdopts ==
  ASSUME Ground, pc \in {"reconcile", "unstage"}, UNCHANGED txn,
         NEW next \in {"unstage", "classify", "unadopt"},
         NEW results,
         \A r \in results : /\ r \in ResultType /\ r.source = Disk.config.source
                            /\ wg.switching = {} => r.wg.switching = {} /\ r.status = status
                            /\ txn.adopts =>
                                 Adopted(r.wg, txn) /\ r.wg.preManaged = wg.preManaged,
         \/ Calls(results, Go(next, run), Raise(run))
         \/ /\ wg.switching = {} /\ UNCHANGED <<images, status, faults, wg>> /\ Go(next, run)
  PROVE  AdoptInv'
<1>1. /\ TInv /\ SInv /\ Shut /\ Windows = {} /\ run \in RunType
      /\ run.caller \in {"recovery", "rollback", "undo"}
  BY RecoveringFacts, RunFacts DEF Ground, SInv
<1>2. SUFFICES ASSUME txn.adopts PROVE AdoptInv'
  BY DEF AdoptInv
<1>3. Pictured /\ Adopted(wg, txn) /\ Adopting(pc, run, Disk, wg, txn)
  BY <1>2 DEF Ground, AdoptInv
<1>4. ASSUME Raise(run) PROVE pc' = "idle" /\ run' = NoRun
  BY <1>1, <1>4, RaiseLands DEF RunType
<1>5. /\ Shaped({Disk}) /\ wg'.preManaged = wg.preManaged /\ Adopted(wg', txn)
      /\ \/ pc' = next /\ run' = run
         \/ pc' = "idle" /\ run' = NoRun
      /\ wg.switching = {} => wg'.switching = {} /\ status' \in {status, "stale"}
  <2>1. CASE wg.switching = {} /\ UNCHANGED <<images, status, faults, wg>> /\ Go(next, run)
    BY <1>1, <1>3, <2>1, StillShaped DEF Go
  <2>2. CASE Calls(results, Go(next, run), Raise(run))
    <3>1. PICK r \in results : \/ CallEnds(r) /\ (IF r.ok THEN Go(next, run) ELSE Raise(run))
                               \/ CallCut(r)
      BY <2>2 DEF Calls
    <3>2. images' = images \/ Lost({Disk})
      BY <1>1, <3>1, SourceKept
    <3>3. Shaped({Disk})
      BY <1>1, <3>2, StillShaped
    <3>4. wg' = r.wg /\ status' \in {r.status, "stale"}
      BY <3>1 DEF CallEnds, CallCut
    <3>5. \/ pc' = next /\ run' = run
          \/ pc' = "idle" /\ run' = NoRun
      BY <1>4, <3>1 DEF CallCut, Go, End
    <3>6. QED
      BY <1>2, <3>3, <3>4, <3>5
  <2>3. QED
    BY <2>1, <2>2
<1>6. ASSUME NEW d \in Img, Returned(d, wg.preManaged), Excused(d), d.journal = Disk'.journal
      PROVE  Excused(d)'
  <2>1. /\ d.journal.operation \in ApiOperations /\ txn.undone /\ wg.switching = {}
        /\ d.journal.phase = "verifying" /\ status = "stale"
    BY <1>6, ReturnedCommits, ExcusedFacts DEF Midway
  <2>2. pc' \in Before /\ status' = "stale" /\ wg'.switching = {}
    BY <1>5, <2>1 DEF Before
  <2>3. QED
    BY <1>6, <2>1, <2>2, ExcusedStays
<1>7. Pictured'
  BY <1>1, <1>3, <1>5, <1>6, PicturedStill
<1>8. Adopting(pc', run', Disk', wg', txn')
  <2>1. CASE pc' = "idle" /\ run' = NoRun
    BY <2>1, IdleAdopts
  <2>2. CASE pc' = next /\ run' = run
    BY <1>1, <1>3, <2>2 DEF Adopting, Unwritten, Filed, Standing
  <2>3. QED
    BY <1>5, <2>1, <2>2
<1>9. Adopted(wg, txn)'
  BY <1>5 DEF Adopted, Home
<1>10. QED
  BY <1>7, <1>8, <1>9 DEF AdoptInv, Adopting

\* Reconcile settles on a profile the adoption has installed, or the operator's own.
LEMMA ReconcileAdopts ==
  ASSUME Ground, Reconcile
  PROVE  AdoptInv'
<1>1. /\ pc = "reconcile" /\ UNCHANGED <<timer, txn>>
      /\ \/ /\ wg.switching = {} /\ UNCHANGED <<images, status, faults, wg>>
            /\ Go("unstage", run)
         \/ wg.switching # {} /\ Calls(CheckResults, Go("unstage", run), Raise(run))
  BY HostFacts, ReconcileLands DEF Ground
<1>2. CASE wg.switching = {} /\ UNCHANGED <<images, status, faults, wg>> /\ Go("unstage", run)
  <2>1. \A r \in {} : /\ r \in ResultType /\ r.source = Disk.config.source
                      /\ wg.switching = {} => r.wg.switching = {} /\ r.status = status
                      /\ txn.adopts => Adopted(r.wg, txn) /\ r.wg.preManaged = wg.preManaged
    OBVIOUS
  <2>2. QED
    BY <1>1, <1>2, <2>1, RecoveryAdopts
<1>3. CASE wg.switching # {} /\ Calls(CheckResults, Go("unstage", run), Raise(run))
  <2>1. txn.adopts => Adopted(wg, txn) /\ Shows(Disk, wg.preManaged)
    BY HostFacts DEF Ground, AdoptInv, Pictured
  <2>2. ASSUME NEW r \in CheckResults
        PROVE  /\ r \in ResultType /\ r.source = Disk.config.source
               /\ wg.switching = {} => r.wg.switching = {} /\ r.status = status
               /\ txn.adopts => Adopted(r.wg, txn) /\ r.wg.preManaged = wg.preManaged
    BY <1>3, <2>1, CheckKeeps, AdoptedCheck DEF Ground, SparesRestored
  <2>3. QED
    BY <1>1, <1>3, <2>2, RecoveryAdopts
<1>4. QED
  BY <1>1, <1>2, <1>3

\* CleanupCandidate touches no profile.
LEMMA CleanupCandidateAdopts ==
  ASSUME Ground, CleanupCandidate
  PROVE  AdoptInv'
<1> DEFINE next == IF run.caller = "recovery" THEN "classify" ELSE "unadopt"
<1>1. /\ pc = "unstage" /\ UNCHANGED <<timer, txn>> /\ SInv
      /\ \/ /\ ~wg.candidate /\ UNCHANGED <<images, status, faults, wg>>
            /\ Go(next, run)
         \/ wg.candidate /\ Calls(CandidateResults, Go(next, run), Raise(run))
  BY HostFacts, CleanupCandidateLands DEF Ground
<1>2. wg.switching = {}
  BY <1>1 DEF SInv, RunInv, Runs, Backed
<1>3. ASSUME NEW r \in CandidateResults
      PROVE  /\ r \in ResultType /\ r.source = Disk.config.source
             /\ wg.switching = {} => r.wg.switching = {} /\ r.status = status
             /\ txn.adopts => Adopted(r.wg, txn) /\ r.wg.preManaged = wg.preManaged
  <2>1. r \in ResultType
    BY <1>1, CandidateTypes, HostFacts
  <2>2. /\ r.source = Disk.config.source /\ r.wg \in {wg, [wg EXCEPT !.candidate = FALSE]}
        /\ r.status = status
    BY DEF CandidateResults, Failures, Result
  <2>3. r.wg.switching = wg.switching /\ r.wg.profile = wg.profile /\ r.wg.preManaged = wg.preManaged
    BY <1>1, <2>2, CandidateKeeps
  <2>4. txn.adopts => Adopted(wg, txn)
    BY DEF Ground, AdoptInv
  <2>5. QED
    BY <1>2, <2>1, <2>2, <2>3, <2>4 DEF Adopted
<1>4. next \in {"classify", "unadopt"}
  OBVIOUS
<1> HIDE DEF next
<1>5. QED
  BY <1>1, <1>2, <1>3, <1>4, RecoveryAdopts

\* What the staging names say is nothing to the adoption.
LEMMA DiscardAdopts ==
  ASSUME Ground, DiscardStaging
  PROVE  AdoptInv'
<1> DEFINE after == [Disk EXCEPT !.staging = @ \ PrivateTargets]
<1> DEFINE leaves == {[Disk EXCEPT !.staging = @ \ gone] : gone \in SUBSET PrivateTargets}
<1> DEFINE Reads ==
      \/ /\ Disk.journal # None /\ pc' = "reconcile" /\ verdict' = verdict
         /\ run' = [run EXCEPT !.caller = "recovery", !.journal = Disk.journal]
      \/ /\ SetupArtifactsClear(after) /\ Disk.journal = None
         /\ pc' = "ready" /\ run' = run /\ verdict' = verdict
      \/ /\ Disk.journal = None /\ ~SetupArtifactsClear(after) /\ End("stuck")
<1>1. /\ pc = "discard" /\ UNCHANGED <<wg, timer, txn>>
      /\ \/ /\ Completed(after) \/ (after = Disk /\ UNCHANGED <<images, status, faults>>)
            /\ Reads
         \/ NotDone(run, leaves)
  BY HostFacts, DiscardLands DEF Ground
<1>2. Disk \in Directory /\ TInv /\ run \in RunType /\ Disk \in Img /\ Shut /\ Windows = {}
  BY HostFacts, RunFacts DEF Ground
<1>3. run.caller = "none"
  BY <1>1, <1>2 DEF TInv, Control, CallerAt
<1>4. \A e \in leaves : e \in Directory /\ SameFiles(e, Disk)
  BY <1>2 DEF Directory, SameFiles
<1>5. after \in leaves /\ Disk \in leaves
  <2>1. PrivateTargets \in SUBSET PrivateTargets /\ {} \in SUBSET PrivateTargets
    OBVIOUS
  <2>2. Disk = [Disk EXCEPT !.staging = @ \ {}]
    BY <1>2 DEF Directory
  <2>3. QED
    BY <2>1, <2>2
<1> HIDE DEF after, leaves
<1>6. SUFFICES ASSUME txn.adopts PROVE AdoptInv'
  BY <1>1 DEF AdoptInv
<1>7. Pictured /\ Adopted(wg, txn) /\ ~txn.kept
  BY <1>6 DEF Ground, AdoptInv, Adopted
<1>8. ASSUME Reads
      PROVE  Adopting(pc', run', Disk', wg', txn') /\ (Disk.journal # None => pc' = "reconcile")
  <2>1. CASE pc' = "reconcile" /\ run' = [run EXCEPT !.caller = "recovery", !.journal = Disk.journal]
    <3>1. run'.caller = "recovery"
      BY <1>2, <2>1 DEF RunType
    <3>2. QED
      BY <2>1, <3>1, BareAdopts DEF Unwritten, Filed, Midway, Standing
  <2>2. CASE Disk.journal = None /\ pc' = "ready" /\ run' = run
    BY <1>3, <2>2, BareAdopts DEF Unwritten, Filed, Midway, Standing
  <2>3. CASE Disk.journal = None /\ End("stuck")
    BY <2>3, IdleAdopts DEF End
  <2>4. QED
    BY <1>8, <2>1, <2>2, <2>3
<1>9. /\ Shaped(leaves) /\ Adopting(pc', run', Disk', wg', txn') /\ status' \in {status, "stale"}
      /\ Disk.journal # None => pc' \in {"reconcile", "idle"}
  <2>1. CASE NotDone(run, leaves)
    <3>1. Shaped(leaves)
      BY <1>2, <1>4, <2>1, StoreShaped
    <3>2. Raise(run) => pc' = "idle"
      BY <1>2, <1>3, RaiseLands DEF RunType
    <3>3. status' \in {status, "stale"} /\ pc' = "idle"
      BY <2>1, <3>2 DEF NotDone, Fails, Cuts, Refuses, End
    <3>4. Adopting(pc', run', Disk', wg', txn')
      BY <1>2, <1>3, <1>7, <2>1, NotDoneAdopts
    <3>5. QED
      BY <3>1, <3>3, <3>4
  <2>2. CASE (Completed(after) \/ (after = Disk /\ UNCHANGED <<images, status, faults>>)) /\ Reads
    <3>1. Shaped(leaves)
      BY <1>2, <1>4, <1>5, <2>2, StoreShaped DEF Shaped
    <3>2. QED
      BY <1>8, <2>2, <3>1 DEF Completed
  <2>3. QED
    BY <1>1, <2>1, <2>2
<1>10. leaves \in SUBSET Directory /\ Typed /\ Shaped(leaves)
  BY <1>2, <1>4, <1>9 DEF TInv
<1>11. status' \in {status, "stale"} /\ (Disk.journal # None => pc' \in {"reconcile", "idle"})
  BY <1>9
<1>12. Adopting(pc', run', Disk', wg', txn')
  BY <1>9
<1>13. \A e \in leaves : Shows(e, wg.preManaged) /\ Returned(e, wg.preManaged) = Returned(Disk, wg.preManaged)
  <2>1. Shows(Disk, wg.preManaged)
    BY <1>2, <1>7 DEF Pictured
  <2>2. QED
    BY <1>2, <1>4, <2>1, SameShows
<1>14. ASSUME NEW d \in Img', Returned(d, wg.preManaged) PROVE Excused(d)'
  <2>1. /\ Img' \subseteq Img \cup leaves
        /\ \/ Disk' = d
           \/ Disk' \in leaves
    BY <1>5, <1>10, <1>14, ShapedImages
  <2>2. Excused(d) /\ Disk'.journal = d.journal
    <3>1. CASE d \in leaves
      <4>1. Returned(Disk, wg.preManaged) /\ d.journal = Disk.journal
        BY <1>4, <1>13, <1>14, <3>1 DEF SameFiles
      <4>2. Excused(Disk)
        BY <1>2, <1>7, <4>1 DEF Pictured
      <4>3. QED
        BY <1>4, <2>1, <4>1, <4>2 DEF Excused, SameFiles
    <3>2. CASE d \in Img
      <4>1. Excused(d)
        BY <1>7, <1>14, <3>2 DEF Pictured
      <4>2. QED
        BY <1>4, <2>1, <4>1 DEF Excused, SameFiles
    <3>3. QED
      BY <1>14, <2>1, <3>1, <3>2
  <2>3. /\ Disk.journal # None /\ d.journal.operation \in ApiOperations /\ txn.undone
        /\ d.journal.phase = "verifying" /\ status = "stale" /\ wg.switching = {}
    BY <1>1, <1>14, <2>2, ReturnedCommits, ExcusedFacts DEF Midway, Open
  <2>4. pc' \in Before /\ status' = "stale"
    BY <1>11, <2>3 DEF Before
  <2>5. QED
    BY <1>1, <2>2, <2>3, <2>4, ExcusedStays
<1>15. Pictured'
  <2>1. wg'.preManaged = wg.preManaged
    BY <1>1
  <2>2. QED
    BY <1>2, <1>5, <1>7, <1>10, <1>13, <1>14, <2>1, PicturedGo
<1>16. Adopted(wg, txn)'
  BY <1>1, <1>7 DEF Adopted, Home
<1>17. QED
  BY <1>15, <1>16, <1>12 DEF AdoptInv, Adopting

\* The parts of the invariant after a step.
LEMMA AdoptedOn ==
  ASSUME Adopted(wg', txn'), Pictured', Adopting(pc', run', Disk', wg', txn')
  PROVE  AdoptInv'
BY DEF AdoptInv, Adopted, Adopting, Home

\* Classify never takes the end of an adoption for a restoration; and a proof that
\* came says that its source is not static again.
LEMMA ClassifyAdopts ==
  ASSUME Ground, Classify
  PROVE  AdoptInv'
<1> DEFINE j == run.journal
<1> DEFINE keeps == Underway(Disk) /\ StaticRestoreIsVisible
<1>1. /\ pc = "classify" /\ UNCHANGED <<images, wg, status, timer, faults>>
      /\ txn'.kept = (txn.kept \/ (keeps /\ Len(images) = 1)) /\ verdict' = verdict
      /\ \/ /\ j.phase \in ClosedPhases \/ keeps
            /\ pc' = "cleanConfig" /\ run' = run
         \/ /\ ~keeps /\ j.phase \notin ClosedPhases /\ j.phase \in {"activated", "verifying"}
            /\ j.operation # "static-restore"
            /\ pc' \in {"markVerified", "beginProof"} /\ run' = run
         \/ /\ ~keeps /\ j.phase \notin ClosedPhases
            /\ pc' = UndoStep(run) /\ run' = [run EXCEPT !.caller = "rollback"]
  BY ClassifyLands DEF Ground
<1>2. /\ TInv /\ run.caller = "recovery" /\ run.journal = Disk.journal /\ Disk.journal # None
      /\ wg.switching = {} /\ run \in RunType /\ txn \in TxnType /\ Shut /\ Windows = {} /\ SInv
      /\ Disk \in Directory /\ Disk \in Img /\ Disk' = Disk /\ Disk.journal \in Journal
  BY <1>1, ClassifyingFacts, HostFacts, Hosted DEF Disk, Ground
<1>3. /\ txn'.before = txn.before /\ txn'.profile = txn.profile
      /\ txn'.undone = txn.undone /\ txn'.adopts = txn.adopts
  <2>1. \E k : txn' = [txn EXCEPT !.kept = k]
    BY DEF Classify
  <2>2. QED
    BY <1>2, <2>1 DEF TxnType
<1>4. SUFFICES ASSUME txn.adopts PROVE AdoptInv'
  BY <1>3 DEF AdoptInv
<1>5. Pictured /\ Adopted(wg, txn) /\ Shows(Disk, wg.preManaged)
  BY <1>2, <1>4 DEF Ground, AdoptInv, Pictured
<1>6. ~keeps
  BY <1>5 DEF Shows, Underway, StaticRestoreIsVisible
<1> HIDE DEF keeps
<1>7. Adopted(wg', txn')
  <2>1. txn'.kept = txn.kept
    BY <1>1, <1>2, <1>6 DEF TxnType
  <2>2. QED
    BY <1>1, <1>3, <1>5, <2>1, AdoptedSame
<1>8. ASSUME NEW d \in Img, Returned(d, wg.preManaged), Excused(d), d.journal = Disk'.journal
      PROVE  Excused(d)'
  <2>1. /\ d.journal = Disk.journal /\ d.journal.operation \in ApiOperations /\ txn.undone
        /\ d.journal.phase = "verifying" /\ status = "stale" /\ Open(Disk)
    BY <1>1, <1>8, ReturnedCommits, ExcusedFacts DEF Midway
  <2>2. j.phase \notin ClosedPhases
    BY <1>2, <2>1 DEF Open
  <2>3. pc' = "reconcile"
    BY <1>1, <1>2, <1>6, <2>1, <2>2, ClassifyProves DEF UndoStep
  <2>4. QED
    BY <1>1, <1>2, <1>3, <2>1, <2>3, ExcusedStays DEF Before
<1>9. Pictured'
  <2>1. Shaped({Disk}) /\ wg'.preManaged = wg.preManaged
    BY <1>1, <1>2, StillShaped
  <2>2. QED
    BY <1>2, <1>5, <1>8, <2>1, PicturedStill
<1>10. run.caller = "recovery"
  BY <1>2
<1>11. Adopting(pc', run', Disk', wg', txn')
  <2>1. CASE pc' = "cleanConfig" /\ run' = run
    BY <1>10, <2>1, BareAdopts DEF Unwritten, Filed, Midway, Standing
  <2>2. CASE /\ j.phase \notin ClosedPhases /\ pc' \in {"markVerified", "beginProof"} /\ run' = run
    <3>1. ASSUME wg.preManaged # None PROVE pc' = "markVerified" /\ Disk.config.source = "api"
      <4>1. UndoesAdoption(Disk.journal)
        BY <1>2, <1>5, <3>1 DEF Shows
      <4>2. pc' = "markVerified"
        BY <1>2, <2>2, <4>1, ClassifyProves DEF UndoesAdoption
      <4>3. status = "good" /\ Disk.journal.phase = "verifying"
        BY <1>2, <4>2, ClassifyProves
      <4>4. ~Excused(Disk)
        BY <1>1, <4>3 DEF Excused, Midway
      <4>5. ~Returned(Disk, wg.preManaged)
        BY <1>2, <1>5, <4>4 DEF Pictured
      <4>6. Disk.config.source # "static"
        BY <1>2, <3>1, <4>3, <4>5 DEF Returned, MayStillCommit
      <4>7. QED
        BY <1>2, <4>2, <4>6 DEF Directory, Config
    <3>2. wg' = wg /\ Disk' = Disk
      BY <1>1, <1>2
    <3>3. QED
      BY <1>10, <2>2, <3>1, <3>2 DEF Adopting, Unwritten, Filed
  <2>3. CASE pc' = UndoStep(run) /\ run' = [run EXCEPT !.caller = "rollback"]
    <3>1. run'.caller = "rollback"
      BY <1>2, <2>3 DEF RunType
    <3>2. CASE pc' = "reconcile"
      BY <3>1, <3>2, BareAdopts DEF Unwritten, Filed, Midway, Standing
    <3>3. CASE pc' = "restoreConfig" /\ Disk.journal.operation \notin ApiOperations
      <4>1. wg'.preManaged = None
        BY <1>1, <1>2, <1>5, <3>3 DEF Shows, UndoesAdoption, ApiOperations
      <4>2. QED
        BY <3>1, <3>3, <4>1 DEF Adopting, Unwritten, Filed, Standing
    <3>4. QED
      BY <1>2, <2>3, <3>2, <3>3 DEF UndoStep
  <2>4. QED
    BY <1>1, <1>6, <2>1, <2>2, <2>3
<1>12. QED
  BY <1>7, <1>9, <1>11, AdoptedOn

\* A step of a rollback may return the source while the record may still be
\* committed, for as long as no proof follows.
LEMMA RollbackPictured ==
  ASSUME Ground, txn.adopts, pc \in RollbackSteps,
         NEW leaves \in SUBSET Directory, Disk \in leaves, Shaped(leaves),
         wg'.preManaged = wg.preManaged, txn.undone => txn'.undone,
         \A e \in leaves : /\ e.journal = Disk.journal /\ Shows(e, wg.preManaged)
                           /\ Returned(e, wg.preManaged) => txn'.undone,
         wg.preManaged # None /\ MayStillCommit(Disk) =>
           wg'.switching = {} /\ (pc' \in Midway \/ (status' = "stale" /\ pc' \in Before))
  PROVE  Pictured'
<1>1. TInv /\ Pictured /\ Shows(Disk, wg.preManaged)
  BY HostFacts DEF Ground, AdoptInv, Pictured
<1>2. ASSUME NEW d \in Img', Returned(d, wg.preManaged) PROVE Excused(d)'
  <2>1. Img' \subseteq Img \cup leaves /\ (Disk' = d \/ Disk' \in leaves)
    BY <1>1, <1>2, ShapedImages DEF TInv
  <2>2. d.journal = Disk.journal /\ d.journal = Disk'.journal /\ txn'.undone
    <3>1. CASE d \in leaves
      BY <1>2, <2>1, <3>1
    <3>2. CASE d \in Img
      <4>1. Excused(d)
        BY <1>1, <1>2, <3>2 DEF Pictured
      <4>2. QED
        BY <2>1, <4>1 DEF Excused
    <3>3. QED
      BY <1>2, <2>1, <3>1, <3>2
  <2>3. wg.preManaged # None /\ MayStillCommit(Disk)
    BY <1>2, <2>2 DEF Returned, MayStillCommit
  <2>4. d.journal.operation = "adopt" /\ d.journal.phase = "verifying"
    BY <1>1, <2>2, <2>3 DEF Shows, MayStillCommit, UndoesAdoption
  <2>5. QED
    BY <2>2, <2>3, <2>4, ExcusedStays DEF ApiOperations
<1>3. QED
  BY <1>1, <1>2, PicturedGo

\* A rollback whose call fails, or is refused, ends here.
LEMMA RollbackEndsAdopts ==
  ASSUME Ground, txn.adopts, pc \in RollbackSteps, wg' = wg,
         NEW leaves \in SUBSET Directory, Disk \in leaves,
         txn'.before = txn.before, txn'.profile = txn.profile, txn'.kept = txn.kept,
         txn.undone => txn'.undone,
         \A e \in leaves : /\ e.journal = Disk.journal /\ Shows(e, wg.preManaged)
                           /\ Returned(e, wg.preManaged) => txn'.undone,
         \/ Fails(run, leaves) \/ Cuts(leaves, status)
         \/ ~MayStillCommit(Disk) /\ Shaped(leaves) /\ (Raise(run) \/ End("killed"))
  PROVE  AdoptInv'
<1>1. Rolling(pc, run) /\ run \in RunType /\ SInv /\ Shut /\ Windows = {} /\ WorkInv
  <2>1. SInv /\ Shut /\ Windows = {} /\ WorkInv
    BY DEF Ground
  <2>2. QED
    BY <2>1, HostFacts DEF Rolling, Typed, RunType
<1>2. run.caller \in {"rollback", "undo"}
  BY <1>1, RollingFacts
<1>3. pc' = "idle" /\ run' = NoRun
  <2>1. Raise(run) => pc' = "idle" /\ run' = NoRun
    BY <1>1, <1>2, RaiseLands DEF RunType
  <2>2. QED
    BY <2>1 DEF Fails, Cuts, End
<1>4. Shaped(leaves)
  BY <1>1, StoreShaped DEF NotDone
<1>5. MayStillCommit(Disk) => status' = "stale"
  <2>1. MayStillCommit(Disk) => Fails(run, leaves) \/ Cuts(leaves, status)
    OBVIOUS
  <2>2. QED
    BY <1>1, <2>1, FaultStale DEF Fails, Cuts
<1>6. wg.preManaged # None /\ MayStillCommit(Disk) => wg'.switching = {}
  <2>1. Shows(Disk, wg.preManaged)
    BY <1>1, HostFacts DEF Ground, AdoptInv, Pictured
  <2>2. wg.preManaged # None /\ MayStillCommit(Disk) => Disk.journal.operation \in ApiOperations
    BY <2>1 DEF Shows, MayStillCommit, UndoesAdoption, ApiOperations
  <2>3. QED
    BY <1>1, <2>2 DEF WorkInv, Undoes
<1>7. Pictured'
  <2>1. wg'.preManaged = wg.preManaged /\ pc' \in Before
    BY <1>3 DEF Before
  <2>2. QED
    BY <1>4, <1>5, <1>6, <2>1, RollbackPictured
<1>8. Adopting(pc', run', Disk', wg', txn')
  BY <1>3, IdleAdopts
<1>9. Adopted(wg', txn')
  BY AdoptedSame DEF Ground, AdoptInv
<1>10. QED
  BY <1>7, <1>8, <1>9, AdoptedOn

\* The operator's profile is put back: with it the source, and not before it.
LEMMA UnadoptAdopts ==
  ASSUME Ground, Unadopt
  PROVE  AdoptInv'
<1>1. /\ pc = "unadopt" /\ txn' = [txn EXCEPT !.undone = TRUE]
      /\ \/ /\ ~(UndoesAdoption(run.journal) /\ wg.preManaged # None)
            /\ UNCHANGED <<images, status, faults, wg>> /\ Go("restoreConfig", run)
         \/ /\ UndoesAdoption(run.journal) /\ wg.preManaged # None
            /\ Calls(UnadoptResults, Go("restoreConfig", run), Raise(run))
  BY HostFacts, UnadoptLands DEF Ground
<1>2. SInv /\ Shut /\ Windows = {} /\ TxnInv /\ WorkInv
  BY DEF Ground
<1>3. /\ pc \in RollbackSteps /\ Rolling(pc, run) /\ Disk \in Directory /\ Disk \in Img /\ Typed /\ TInv
      /\ run \in RunType /\ run.caller \in {"rollback", "undo"} /\ run.caller \in Callers
      /\ Open(Disk) /\ Disk.journal # None /\ Record(run.journal) = Record(Disk.journal)
  BY <1>1, <1>2, HostFacts, RollingFacts DEF Rolling, RollbackSteps, Typed, RunType
<1>4. /\ txn'.before = txn.before /\ txn'.profile = txn.profile /\ txn'.adopts = txn.adopts
      /\ txn'.kept = txn.kept /\ txn'.undone
  BY <1>1, <1>2, HostFacts, Hosted DEF TxnType
<1>5. SUFFICES ASSUME txn.adopts PROVE AdoptInv'
  BY <1>4 DEF AdoptInv
<1>6. Pictured /\ Adopted(wg, txn) /\ Shows(Disk, wg.preManaged) /\ Adopting(pc, run, Disk, wg, txn)
  BY <1>3, <1>5 DEF Ground, AdoptInv, Pictured
<1>7. UndoesAdoption(run.journal) = UndoesAdoption(Disk.journal)
  BY <1>3, RecordsAgree
<1>8. CASE /\ ~(UndoesAdoption(run.journal) /\ wg.preManaged # None)
           /\ UNCHANGED <<images, status, faults, wg>> /\ Go("restoreConfig", run)
  <2>1. wg.preManaged = None
    BY <1>3, <1>6, <1>7, <1>8 DEF Shows
  <2>2. pc' = "restoreConfig" /\ run' = run /\ wg' = wg /\ Shaped({Disk})
    BY <1>2, <1>8, StillShaped DEF Go
  <2>3. Pictured'
    BY <1>3, <1>6, <2>1, <2>2, PicturedStill DEF Returned
  <2>4. Adopting(pc', run', Disk', wg', txn')
    BY <1>3, <1>6, <2>1, <2>2 DEF Adopting, Unwritten, Filed, Standing
  <2>5. QED
    BY <1>4, <1>6, <2>2, <2>3, <2>4, AdoptedSame, AdoptedOn
<1>9. CASE /\ UndoesAdoption(run.journal) /\ wg.preManaged # None
           /\ Calls(UnadoptResults, Go("restoreConfig", run), Raise(run))
  <2>1. UnadoptResults \subseteq RestoreStaticResults
    BY DEF UnadoptResults
  <2>2. MayStillCommit(Disk) => \A r \in UnadoptResults : r.wg.switching = {}
    BY <1>2 DEF UnadoptResults
  <2>3. PICK r \in UnadoptResults :
          \/ CallEnds(r) /\ (IF r.ok THEN Go("restoreConfig", run) ELSE Raise(run))
          \/ CallCut(r)
    BY <1>9 DEF Calls
  <2> DEFINE e == Sourced(r.source)
             leaves == {Disk, e}
  <2>4. /\ r \in ResultType /\ r.wg.preManaged = wg.preManaged
        /\ r.source \in {Disk.config.source, "static"} /\ r.source \in {"static", "api"}
        /\ r.ok => r.wg.profile = wg.preManaged /\ r.wg.switching = {}
        /\ r.wg.profile # None /\ r.status = status
    <3>1. wg.profile # None
      BY <1>6 DEF Adopted
    <3>2. r.source \in {Disk.config.source, "static"} /\ r \in ResultType
      BY <1>2, <2>1, RestoreStaticParts
    <3>3. r.wg.preManaged = wg.preManaged /\ r.wg.profile # None
          /\ (r.ok => r.wg.profile = wg.preManaged /\ r.wg.switching = {})
      BY <1>2, <2>1, <3>1, RestoreStaticParts
    <3>4. r.status = status
      BY <2>1, RestoreStaticSilent
    <3>5. QED
      BY <3>2, <3>3, <3>4 DEF ResultType
  <2>5. /\ e \in Directory /\ e.journal = Disk.journal /\ Shows(e, wg.preManaged)
    <3>1. /\ e \in Directory /\ e.journal = Disk.journal
          /\ e.configPrevious = Disk.configPrevious
          /\ e.config.source = r.source /\ (Disk.config.source = r.source => e = Disk)
      BY <1>2, <2>4, SourcedForms
    <3> HIDE DEF e
    <3>2. Former(e).source = "static"
      BY <1>3, <1>6, <2>4, <3>1 DEF Former, Shows
    <3>3. QED
      BY <1>3, <1>6, <1>9, <3>1, <3>2 DEF Shows, Open, Underway
  <2>6. Shaped(leaves) /\ leaves \in SUBSET Directory /\ Disk \in leaves
    <3>1. leaves \in SUBSET Directory /\ Disk \in leaves /\ e \in leaves
          /\ r.source \in {"static", "api"} /\ r.ok \in BOOLEAN
      BY <1>3, <2>4, <2>5 DEF ResultType
    <3>2. CallEnds(r) \/ CallCut(r)
      BY <2>3
    <3> HIDE DEF leaves
    <3>3. QED
      BY <1>2, <1>3, <3>1, <3>2, CallShaped
  <2>7. \A x \in leaves : x.journal = Disk.journal /\ Shows(x, wg.preManaged)
    BY <1>6, <2>5
  <2>8. wg' = r.wg /\ (MayStillCommit(Disk) => wg'.switching = {})
    BY <2>2, <2>3 DEF CallEnds, CallCut
  <2>9. Adopted(wg', txn')
    <3>1. /\ wg'.preManaged = wg.preManaged /\ wg.preManaged # None /\ wg'.profile # None
          /\ wg.preManaged = txn.profile
      BY <1>6, <1>9, <2>4, <2>8 DEF Adopted
    <3>2. QED
      BY <1>4, <1>6, <3>1 DEF Adopted, Home
  <2> HIDE DEF leaves
  <2>10. ASSUME pc' \in Midway \/ ~MayStillCommit(Disk) \/ (status' = "stale" /\ pc' \in Before)
         PROVE  Pictured'
    BY <1>4, <1>5, <1>3, <2>4, <2>6, <2>7, <2>8, <2>10, RollbackPictured
  <2>11. CASE CallEnds(r) /\ r.ok /\ Go("restoreConfig", run)
    <3>1. pc' = "restoreConfig" /\ run' = run
      BY <2>11 DEF Go
    <3>2. wg'.profile = txn'.profile /\ wg'.switching = {}
      BY <1>4, <1>6, <1>9, <2>4, <2>8, <2>11 DEF Adopted
    <3>3. Adopting(pc', run', Disk', wg', txn')
      BY <1>3, <1>6, <3>1, <3>2 DEF Adopting, Unwritten, Filed, Standing
    <3>4. Pictured'
      BY <2>10, <3>1 DEF Midway
    <3>5. QED
      BY <2>9, <3>3, <3>4, AdoptedOn
  <2>12. CASE CallCut(r)
    <3>1. Spend("kill") /\ pc' = "idle" /\ run' = NoRun /\ status' \in {status, "stale"}
      BY <2>4, <2>12 DEF CallCut, End
    <3>2. MayStillCommit(Disk) => status' = "stale"
      BY <1>2, <1>3, <3>1, FaultStale
    <3>3. Pictured'
      BY <2>10, <3>1, <3>2 DEF Before
    <3>4. QED
      BY <2>9, <3>1, <3>3, IdleAdopts, AdoptedOn
  <2>13. CASE CallEnds(r) /\ ~r.ok /\ Raise(run)
    <3>1. status' = status
      BY <2>4, <2>13 DEF CallEnds
    <3>2. pc' = "idle" /\ run' = NoRun
      BY <1>3, <2>13, RaiseLands DEF RunType
    <3>3. CASE r.fault
      <4>1. Spend("runtime")
        BY <2>13, <3>3 DEF CallEnds
      <4>2. MayStillCommit(Disk) => status' = "stale"
        BY <1>2, <1>3, <3>1, <4>1, FaultStale
      <4>3. Pictured'
        BY <2>10, <3>2, <4>2 DEF Before
      <4>4. QED
        BY <2>9, <3>2, <4>3, IdleAdopts, AdoptedOn
    <3>4. CASE ~r.fault
      <4>1. e = Disk /\ images' = LeftOf(r)
        BY <2>4, <2>13, <3>4 DEF ResultType, CallEnds
      <4>2. images' = images
        BY <1>3, <2>4, <2>13, <4>1, CallReturns
      <4>3. Shaped({Disk})
        BY <1>2, <4>2, StillShaped
      <4>4. ASSUME NEW d \in Img, Returned(d, wg.preManaged), Excused(d), d.journal = Disk'.journal
            PROVE  Excused(d)'
        <5>1. /\ d.journal.operation \in ApiOperations /\ MayStillCommit(Disk)
              /\ d.journal.phase = "verifying" /\ status = "stale"
          BY <1>1, <4>4, ReturnedCommits, ExcusedFacts DEF Midway
        <5>2. QED
          BY <1>4, <2>8, <3>1, <3>2, <4>4, <5>1, ExcusedStays DEF Before
      <4>5. Pictured'
        BY <1>3, <1>6, <2>4, <2>8, <4>3, <4>4, PicturedStill
      <4>6. QED
        BY <2>9, <3>2, <4>5, IdleAdopts, AdoptedOn
    <3>5. QED
      BY <3>3, <3>4
  <2>14. QED
    BY <2>3, <2>11, <2>12, <2>13
<1>10. QED
  BY <1>1, <1>8, <1>9

\* What a step of a rollback may leave, for an adoption.
Spares(e) ==
  /\ e.journal = Disk.journal /\ Shows(e, wg.preManaged)
  /\ Returned(e, wg.preManaged) => txn'.undone

\* A file is put back, but the call fails.
LEMMA RestoreFailsAdopts ==
  ASSUME Ground, txn.adopts, pc \in RollbackSteps, wg' = wg,
         NEW target, NEW backup, Disk[backup] # None,
         \/ target = "config" /\ backup = "configPrevious"
         \/ target = "credential" /\ backup = "credentialPrevious",
         txn'.before = txn.before, txn'.profile = txn.profile, txn'.kept = txn.kept,
         txn.undone => txn'.undone, Spares(Disk),
         \A e \in RestoreLeaves(Disk, backup, target) : Spares(e),
         \/ LET leaves == RestoreLeaves(Disk, backup, target)
            IN target \notin Disk.staging /\ (Fails(run, leaves) \/ Cuts(leaves, status))
         \/ /\ target \in Disk.staging
            /\ LET leaves == {Disk, Unstaged(Disk, backup)}
               IN NotDone(run, leaves) \/ (Completed(Unstaged(Disk, backup)) /\ Raise(run))
  PROVE  AdoptInv'
<1>1. /\ SInv /\ Shut /\ Windows = {} /\ WorkInv
  BY DEF Ground
<1>2. /\ Rolling(pc, run) /\ Disk \in Directory
      /\ RestoreLeaves(Disk, backup, target) \in SUBSET Directory
      /\ Unstaged(Disk, backup) \in Directory
      /\ Disk \in RestoreLeaves(Disk, backup, target)
  BY <1>1, HostFacts, RestoreTypes DEF Rolling, RestoreLeaves
<1>3. CASE LET leaves == RestoreLeaves(Disk, backup, target)
           IN Fails(run, leaves) \/ Cuts(leaves, status)
  <2> DEFINE leaves == RestoreLeaves(Disk, backup, target)
  <2>1. /\ leaves \in SUBSET Directory /\ Disk \in leaves
        /\ Fails(run, leaves) \/ Cuts(leaves, status)
        /\ \A e \in leaves : /\ e.journal = Disk.journal /\ Shows(e, wg.preManaged)
                             /\ Returned(e, wg.preManaged) => txn'.undone
    BY <1>2, <1>3 DEF Spares
  <2> HIDE DEF leaves
  <2>2. QED
    BY <2>1, RollbackEndsAdopts
<1>4. CASE /\ target \in Disk.staging
           /\ LET leaves == {Disk, Unstaged(Disk, backup)}
              IN NotDone(run, leaves) \/ (Completed(Unstaged(Disk, backup)) /\ Raise(run))
  <2> DEFINE leaves == {Disk, Unstaged(Disk, backup)}
  <2>1. ~MayStillCommit(Disk)
    <3>1. run.caller = "undo" => Disk.staging \cap {"config", "credential"} = {} \/ ~MayStillCommit(Disk)
      BY <1>1 DEF WorkInv, Undoes
    <3>2. run.caller = "rollback" => Disk.staging \subseteq Snapshots
      BY <1>1, <1>2, RollingFacts
    <3>3. run.caller \in {"rollback", "undo"}
      BY <1>1, <1>2, RollingFacts
    <3>4. QED
      BY <1>4, <3>1, <3>2, <3>3 DEF Snapshots
  <2>2. leaves \in SUBSET Directory /\ Disk \in leaves /\ Unstaged(Disk, backup) \in leaves
    BY <1>2
  <2>3. \A e \in leaves : /\ e.journal = Disk.journal /\ Shows(e, wg.preManaged)
                          /\ Returned(e, wg.preManaged) => txn'.undone
    <3>1. SameFiles(Unstaged(Disk, backup), Disk)
      BY <1>2, RestoreForms DEF StagesFrom, SameFiles
    <3>2. QED
      BY <3>1, SameShows DEF Spares, SameFiles
  <2>4. Shaped(leaves)
    BY <1>1, <1>4, <2>2, StoreShaped
  <2>5. Raise(run) \/ Fails(run, leaves) \/ Cuts(leaves, status)
    BY <1>4 DEF NotDone, Refuses
  <2> HIDE DEF leaves
  <2>6. QED
    BY <2>1, <2>2, <2>3, <2>4, <2>5, RollbackEndsAdopts
<1>5. QED
  BY <1>3, <1>4

\* The rollback goes on: the profile that was put back stays.
LEMMA RollbackGoesAdopts ==
  ASSUME Ground, txn.adopts, wg' = wg, run' = run,
         pc \in {"restoreConfig", "restoreKey"},
         pc' \in {"restoreKey", "dropPreManaged", "markRolledBack"},
         pc' = "markRolledBack" => Disk.journal.operation \notin ApiOperations,
         NEW leaves \in SUBSET Directory, Disk \in leaves, Shaped(leaves),
         txn'.before = txn.before, txn'.profile = txn.profile, txn'.kept = txn.kept,
         txn.undone => txn'.undone, \A e \in leaves : Spares(e)
  PROVE  AdoptInv'
<1>1. /\ SInv /\ Shut /\ Windows = {} /\ WorkInv /\ pc \in RollbackSteps /\ Rolling(pc, run)
  BY HostFacts DEF Ground, RollbackSteps, Rolling
<1>2. /\ Pictured /\ Adopted(wg, txn) /\ Shows(Disk, wg.preManaged)
      /\ Adopting(pc, run, Disk, wg, txn) /\ Disk.journal # None
      /\ run.caller \in {"rollback", "undo"}
  BY <1>1, HostFacts, RollingFacts DEF Ground, AdoptInv, Pictured
<1>3. wg.preManaged # None => Disk.journal.operation \in ApiOperations
  BY <1>2 DEF Shows, UndoesAdoption, ApiOperations
<1>4. wg.preManaged # None /\ MayStillCommit(Disk) => wg'.switching = {}
  BY <1>1, <1>3 DEF WorkInv, Undoes
<1>5. Pictured'
  <2>1. \A e \in leaves : /\ e.journal = Disk.journal /\ Shows(e, wg.preManaged)
                          /\ Returned(e, wg.preManaged) => txn'.undone
    BY DEF Spares
  <2>2. pc' \in Midway /\ wg'.preManaged = wg.preManaged
    BY DEF Midway
  <2>3. QED
    BY <1>1, <1>4, <2>1, <2>2, RollbackPictured
<1>6. Adopting(pc', run', Disk', wg', txn')
  BY <1>2, <1>3 DEF Adopting, Unwritten, Filed, Standing
<1>7. Adopted(wg', txn')
  BY <1>2, AdoptedSame
<1>8. QED
  BY <1>5, <1>6, <1>7, AdoptedOn

\* The operator's configuration is put back.
LEMMA RestoreConfigAdopts ==
  ASSUME Ground, RestoreConfig
  PROVE  AdoptInv'
<1> DEFINE next == IF run.journal.operation \in ApiOperations THEN "restoreKey" ELSE "markRolledBack"
           e == Restored(Disk, "configPrevious", "config")
           leaves == RestoreLeaves(Disk, "configPrevious", "config")
<1>1. /\ pc = "restoreConfig" /\ txn' = [txn EXCEPT !.undone = TRUE] /\ UNCHANGED <<wg, timer>>
      /\ CASE Disk.configPrevious # None ->
                RestoreSnapshot(run, "configPrevious", "config", Go(next, run))
           [] Disk.configPrevious = None /\ run.journal.phase = "prepared" -> Skip(Go(next, run))
           [] OTHER -> Skip(End("stuck"))
  BY DEF RestoreConfig
<1>2. SInv /\ Shut /\ Windows = {}
  BY DEF Ground
<1>3. /\ pc \in RollbackSteps /\ Rolling(pc, run) /\ Disk \in Directory /\ Disk \in Img
  BY <1>1, <1>2, HostFacts DEF Rolling, RollbackSteps
<1>4. /\ Open(Disk) /\ Record(run.journal) = Record(Disk.journal) /\ Disk.journal # None
      /\ run.journal.phase # "prepared" => Disk.configPrevious # None
  BY <1>2, <1>3, RollingFacts
<1>5. /\ txn'.before = txn.before /\ txn'.profile = txn.profile /\ txn'.adopts = txn.adopts
      /\ txn'.kept = txn.kept /\ txn'.undone
  BY <1>1, <1>2, HostFacts, Hosted DEF TxnType
<1>6. /\ next \in {"restoreKey", "markRolledBack"}
      /\ next = "markRolledBack" => Disk.journal.operation \notin ApiOperations
  BY <1>4, RecordsAgree
<1> HIDE DEF next
<1>7. SUFFICES ASSUME txn.adopts PROVE AdoptInv'
  BY <1>5 DEF AdoptInv
<1>8. Shows(Disk, wg.preManaged) /\ Spares(Disk)
  BY <1>3, <1>5, <1>7 DEF Ground, AdoptInv, Pictured, Spares
<1>9. CASE Disk.configPrevious = None
  <2>1. Skip(Go(next, run))
    BY <1>1, <1>4, <1>9
  <2>2. images' = images /\ pc' = next /\ run' = run
    BY <2>1 DEF Skip, Go
  <2>3. Shaped({Disk}) /\ {Disk} \in SUBSET Directory
    BY <1>2, <1>3, <2>2, StillShaped
  <2>4. QED
    BY <1>1, <1>5, <1>6, <1>7, <1>8, <2>2, <2>3, RollbackGoesAdopts
<1>10. CASE Disk.configPrevious # None
  <2>1. RestoreSnapshot(run, "configPrevious", "config", Go(next, run))
    BY <1>1, <1>10
  <2>2. /\ e \in Directory /\ leaves \in SUBSET Directory /\ Disk \in leaves /\ e \in leaves
    BY <1>3, <1>10, RestoreTypes DEF RestoreLeaves, WriteLeaves, Restored
  <2>3. /\ e.journal = Disk.journal /\ e.config = Disk.configPrevious
        /\ e.configPrevious = Disk.configPrevious
        /\ \A x \in leaves : x = e \/ SameFiles(x, Disk)
    BY <1>3, RestoreForms DEF StagesFrom
  <2> HIDE DEF e, leaves
  <2>4. Former(e) = Former(Disk) /\ e.config = Former(Disk) /\ Former(Disk).source = "static"
    BY <1>4, <1>8, <1>10, <2>3 DEF Former, Shows
  <2>5. Spares(e)
    BY <1>4, <1>5, <1>8, <2>3, <2>4 DEF Spares, Shows, Open, Underway
  <2>6. \A x \in leaves : Spares(x)
    <3>1. ASSUME NEW x, SameFiles(x, Disk) PROVE Spares(x)
      BY <1>5, <1>8, <3>1, SameShows DEF Spares, SameFiles
    <3>2. QED
      BY <2>3, <2>5, <3>1
  <2>7. CASE Completed(e) /\ Go(next, run)
    <3>1. Shaped(leaves) /\ pc' = next /\ run' = run
      BY <1>2, <2>2, <2>7, StoreShaped DEF Go
    <3>2. QED
      BY <1>1, <1>5, <1>6, <1>7, <2>2, <2>6, <3>1, RollbackGoesAdopts
  <2>8. CASE \/ "config" \notin Disk.staging /\ (Fails(run, leaves) \/ Cuts(leaves, status))
             \/ /\ "config" \in Disk.staging
                /\ LET kept == {Disk, Unstaged(Disk, "configPrevious")}
                   IN \/ NotDone(run, kept)
                      \/ Completed(Unstaged(Disk, "configPrevious")) /\ Raise(run)
    BY <1>1, <1>3, <1>5, <1>7, <1>8, <1>10, <2>6, <2>8, RestoreFailsAdopts DEF leaves
  <2>9. QED
    BY <1>2, <1>10, <2>1, <2>7, <2>8, RestoreEnds DEF RestoresWith, e, leaves
<1>11. QED
  BY <1>9, <1>10

\* The credential is nothing to the adoption.
LEMMA RestoreKeyAdopts ==
  ASSUME Ground, RestoreKey
  PROVE  AdoptInv'
<1> DEFINE j == run.journal
           next == "dropPreManaged"
<1>1. /\ pc = "restoreKey" /\ UNCHANGED <<wg, timer, txn>>
      /\ CASE j.keyChanged /\ ~j.hadKey -> DurableUnlink(run, "credential", Go(next, run))
           [] j.keyChanged /\ j.hadKey /\ Disk.credentialPrevious # None ->
                RestoreSnapshot(run, "credentialPrevious", "credential", Go(next, run))
           [] j.keyChanged /\ j.hadKey /\ Disk.credentialPrevious = None
                /\ j.phase = "prepared" -> Skip(Go(next, run))
           [] ~j.keyChanged /\ Disk.credentialPrevious = None -> Skip(Go(next, run))
           [] OTHER -> Skip(End("stuck"))
  BY DEF RestoreKey
<1>2. SInv /\ Shut /\ Windows = {}
  BY DEF Ground
<1>3. /\ pc \in RollbackSteps /\ Rolling(pc, run) /\ Disk \in Directory /\ Disk \in Img /\ TInv
      /\ j.keyChanged = Disk.journal.keyChanged /\ j.hadKey = Disk.journal.hadKey
      /\ Worth(Disk, wg, txn.kept) /\ Open(Disk) /\ Disk.journal # None
      /\ KeepsKey(j) /\ j.phase # "prepared" => Disk.credentialPrevious # None
      /\ Disk.journal \in JournalRecord /\ Disk.journal.keyChanged \in BOOLEAN
      /\ Disk.journal.hadKey \in BOOLEAN
  BY <1>1, <1>2, HostFacts, KeyAgain, RollingFacts, JournalRecords DEF RollbackSteps, Directory, JournalRecord
<1> HIDE DEF j
<1>4. SUFFICES ASSUME txn.adopts PROVE AdoptInv'
  BY <1>1 DEF AdoptInv
<1>5. Pictured /\ Shows(Disk, wg.preManaged)
  BY <1>3, <1>4 DEF Ground, AdoptInv, Pictured
<1>6. Returned(Disk, wg.preManaged) => txn'.undone
  BY <1>1, <1>3, <1>5 DEF Pictured, Excused
<1>7. ASSUME NEW x, x.journal = Disk.journal, x.config = Disk.config,
             x.configPrevious = Disk.configPrevious
      PROVE  Spares(x)
  <2>1. Former(x).source = Former(Disk).source
    BY <1>7 DEF Former
  <2>2. Shows(x, wg.preManaged) /\ Returned(x, wg.preManaged) = Returned(Disk, wg.preManaged)
    BY <1>5, <1>7, <2>1, ShowsAlike
  <2>3. QED
    BY <1>6, <1>7, <2>2 DEF Spares
<1>8. Spares(Disk) /\ \A x : SameFiles(x, Disk) => Spares(x)
  BY <1>7 DEF SameFiles
<1>9. ASSUME NEW leaves \in SUBSET Directory, Disk \in leaves, \A x \in leaves : Spares(x),
             Shaped(leaves), Go(next, run)
      PROVE  AdoptInv'
  <2>1. pc' = next /\ run' = run
    BY <1>9 DEF Go
  <2>2. QED
    BY <1>1, <1>4, <1>9, <2>1, RollbackGoesAdopts
<1>10. CASE Skip(Go(next, run))
  <2>1. Shaped({Disk}) /\ {Disk} \in SUBSET Directory /\ Go(next, run)
    BY <1>2, <1>3, <1>10, StillShaped DEF Skip
  <2>2. QED
    BY <1>8, <1>9, <2>1
<1>11. CASE j.keyChanged /\ ~j.hadKey
  <2> DEFINE e == Removed(Disk, "credential")
             leaves == RemoveLeaves(Disk, "credential")
  <2>1. DurableUnlink(run, "credential", Go(next, run))
    BY <1>1, <1>11
  <2>2. e \in Directory /\ leaves \in SUBSET Directory /\ e \in leaves /\ Disk \in leaves
    BY <1>3, RemoveTypes DEF RemoveLeaves
  <2>3. /\ e.journal = Disk.journal /\ e.config = Disk.config
        /\ e.configPrevious = Disk.configPrevious
        /\ \A x \in leaves : SameFiles(x, Disk) \/ x = e
    BY <1>3, RemoveForms
  <2> HIDE DEF e, leaves
  <2>4. \A x \in leaves : Spares(x)
    BY <1>7, <1>8, <2>3
  <2>5. CASE Completed(e) /\ Go(next, run)
    BY <1>2, <1>9, <2>2, <2>4, <2>5, StoreShaped
  <2>6. CASE e = Disk /\ UNCHANGED <<images, status, faults>> /\ Go(next, run)
    BY <1>10, <2>6 DEF Skip
  <2>7. CASE Fails(run, leaves) \/ Cuts(leaves, status)
    BY <1>1, <1>3, <1>4, <2>2, <2>4, <2>7, RollbackEndsAdopts DEF Spares
  <2>8. QED
    BY <1>2, <2>1, <2>5, <2>6, <2>7, UnlinkEnds DEF Gone, e, leaves
<1>12. CASE j.keyChanged /\ j.hadKey /\ Disk.credentialPrevious # None
  <2> DEFINE e == Restored(Disk, "credentialPrevious", "credential")
             leaves == RestoreLeaves(Disk, "credentialPrevious", "credential")
  <2>1. RestoreSnapshot(run, "credentialPrevious", "credential", Go(next, run))
    BY <1>1, <1>12
  <2>2. e \in Directory /\ leaves \in SUBSET Directory /\ e \in leaves /\ Disk \in leaves
    BY <1>3, <1>12, RestoreTypes DEF RestoreLeaves, WriteLeaves, Restored
  <2>3. /\ e.journal = Disk.journal /\ e.config = Disk.config
        /\ e.configPrevious = Disk.configPrevious
        /\ \A x \in leaves : SameFiles(x, Disk) \/ x = e
    BY <1>3, RestoreForms DEF StagesFrom
  <2> HIDE DEF e, leaves
  <2>4. \A x \in leaves : Spares(x)
    BY <1>7, <1>8, <2>3
  <2>5. CASE Completed(e) /\ Go(next, run)
    BY <1>2, <1>9, <2>2, <2>4, <2>5, StoreShaped
  <2>6. CASE \/ "credential" \notin Disk.staging /\ (Fails(run, leaves) \/ Cuts(leaves, status))
             \/ /\ "credential" \in Disk.staging
                /\ LET kept == {Disk, Unstaged(Disk, "credentialPrevious")}
                   IN \/ NotDone(run, kept)
                      \/ Completed(Unstaged(Disk, "credentialPrevious")) /\ Raise(run)
    BY <1>1, <1>3, <1>4, <1>8, <1>12, <2>4, <2>6, RestoreFailsAdopts DEF leaves
  <2>7. QED
    BY <1>2, <1>12, <2>1, <2>5, <2>6, RestoreEnds DEF RestoresWith, e, leaves
<1>13. CASE j.keyChanged /\ j.hadKey /\ Disk.credentialPrevious = None
  <2>1. j.phase = "prepared"
    BY <1>3, <1>13 DEF KeepsKey
  <2>2. QED
    BY <1>1, <1>10, <1>13, <2>1
<1>14. CASE ~j.keyChanged
  <2>1. Disk.credentialPrevious = None
    BY <1>3, <1>14 DEF Worth
  <2>2. QED
    BY <1>1, <1>10, <1>14, <2>1
<1>15. QED
  BY <1>3, <1>11, <1>12, <1>13, <1>14

\* The snapshot goes last: by then the profile it keeps is installed, and the source
\* that the operator's configuration names.
LEMMA DropAdopts ==
  ASSUME Ground, DropPreManaged
  PROVE  AdoptInv'
<1> DEFINE dropped == [wg EXCEPT !.preManaged = None]
<1>1. /\ pc = "dropPreManaged" /\ txn' = txn
      /\ \/ /\ wg' = IF UndoesAdoption(run.journal) THEN dropped ELSE wg
            /\ Skip(Go("markRolledBack", run))
         \/ /\ UndoesAdoption(run.journal) /\ wg' \in {wg, dropped}
            /\ \/ Spend("error") /\ UNCHANGED <<images, status>> /\ Raise(run)
               \/ Spend("kill") /\ Killed(images, status)
  BY DEF DropPreManaged
<1>2. SInv /\ Shut /\ Windows = {} /\ WorkInv
  BY DEF Ground
<1>3. /\ pc \in RollbackSteps /\ Rolling(pc, run) /\ Disk \in Directory /\ Disk \in Img /\ Typed /\ TInv
      /\ run \in RunType /\ run.caller \in {"rollback", "undo"} /\ wg \in Host
      /\ images \in Seq(Directory) /\ Len(images) >= 1
      /\ Open(Disk) /\ Disk.journal # None /\ Record(run.journal) = Record(Disk.journal)
  BY <1>1, <1>2, HostFacts, RollingFacts, TypedFacts DEF Rolling, RollbackSteps, Typed
<1>4. SUFFICES ASSUME txn.adopts PROVE AdoptInv'
  BY <1>1 DEF AdoptInv
<1>5. Pictured /\ Adopted(wg, txn) /\ Shows(Disk, wg.preManaged) /\ Adopting(pc, run, Disk, wg, txn)
  BY <1>3, <1>4 DEF Ground, AdoptInv, Pictured
<1>6. UndoesAdoption(run.journal) = UndoesAdoption(Disk.journal)
  BY <1>3, RecordsAgree
<1>7. wg.preManaged # None => UndoesAdoption(Disk.journal) /\ Disk.journal.operation \in ApiOperations
  BY <1>3, <1>5 DEF Shows, UndoesAdoption, ApiOperations
<1>8. /\ wg' \in {wg, dropped}
      /\ \/ pc' = "markRolledBack" /\ run' = run /\ images' = images /\ wg'.preManaged = None
         \/ /\ pc' = "idle" /\ run' = NoRun
            /\ \/ images' = images /\ status' = status
               \/ status' = "stale" /\ Lost({})
            /\ MayStillCommit(Disk) => status' = "stale"
  <2>1. CASE /\ wg' = IF UndoesAdoption(run.journal) THEN dropped ELSE wg
             /\ Skip(Go("markRolledBack", run))
    <3>1. dropped.preManaged = None
      BY <1>3 DEF Host
    <3>2. wg'.preManaged = None
      BY <1>6, <1>7, <2>1, <3>1
    <3>3. wg' \in {wg, dropped}
      BY <2>1
    <3>4. pc' = "markRolledBack" /\ run' = run /\ images' = images
      BY <2>1 DEF Skip, Go
    <3>5. QED
      BY <3>2, <3>3, <3>4
  <2>2. CASE /\ wg' \in {wg, dropped}
             /\ \/ Spend("error") /\ UNCHANGED <<images, status>> /\ Raise(run)
                \/ Spend("kill") /\ Killed(images, status)
    <3>1. Killed(images, status) =>
            /\ End("killed")
            /\ \/ images' = images /\ status' = status
               \/ Lost({}) /\ status' = "stale"
      BY <1>3, KilledImages
    <3>2. Raise(run) => pc' = "idle" /\ run' = NoRun
      BY <1>3, RaiseLands DEF RunType
    <3>3. MayStillCommit(Disk) => status = "stale"
      BY <1>2, <1>3, <2>2, FaultStale
    <3>4. QED
      BY <2>2, <3>1, <3>2, <3>3 DEF End
  <2>3. QED
    BY <1>1, <2>1, <2>2
<1>9. Img' \subseteq Img /\ Shaped({Disk}) /\ {Disk} \in SUBSET Directory
  <2>1. CASE images' = images
    BY <1>2, <1>3, <2>1, StillShaped DEF Img
  <2>2. CASE Lost({})
    <3>1. PICK d \in Directory : images' = <<d>> /\ d \in Img
      BY <1>2, <2>2 DEF Lost
    <3>2. Img' = {d}
      BY <3>1, OneImage
    <3>3. QED
      BY <1>2, <1>3, <2>2, <3>1, <3>2, StillShaped
  <2>3. QED
    BY <1>8, <2>1, <2>2
<1>10. Adopting(pc', run', Disk', wg', txn')
  <2>1. CASE pc' = "idle" /\ run' = NoRun
    BY <2>1, IdleAdopts
  <2>2. CASE pc' = "markRolledBack" /\ run' = run /\ wg'.preManaged = None
    BY <1>3, <1>5, <2>2 DEF Adopting, Unwritten, Filed, Standing
  <2>3. QED
    BY <1>8, <2>1, <2>2
<1>11. CASE wg' = wg
  <2>1. wg.preManaged # None => pc' \in Before
    BY <1>8, <1>11 DEF Before
  <2>2. wg.preManaged # None /\ MayStillCommit(Disk) => wg'.switching = {} /\ status' = "stale"
    BY <1>2, <1>3, <1>7, <1>8, <1>11 DEF WorkInv, Undoes
  <2>3. Returned(Disk, wg.preManaged) => txn'.undone
    BY <1>1, <1>3, <1>5 DEF Pictured, Excused
  <2>4. Pictured'
    BY <1>1, <1>3, <1>4, <1>5, <1>9, <1>11, <2>1, <2>2, <2>3, RollbackPictured
  <2>5. Adopted(wg', txn')
    BY <1>1, <1>5, <1>11
  <2>6. QED
    BY <1>10, <2>4, <2>5, AdoptedOn
<1>12. CASE wg' # wg
  <2>1. /\ wg'.preManaged = None /\ wg'.profile = wg.profile /\ wg'.switching = wg.switching
        /\ wg.preManaged # None
    BY <1>3, <1>8, <1>12 DEF Host
  <2>2. wg.profile = txn.profile /\ wg.switching = {}
    BY <1>1, <1>5, <2>1 DEF Adopting
  <2>3. Adopted(wg', txn')
    BY <1>1, <1>5, <2>1, <2>2 DEF Adopted, Home
  <2>4. Img = {Disk} /\ Disk.config.source = "static"
    <3>1. /\ Disk.config = Former(Disk) /\ Disk.journal.phase # "prepared"
          /\ Disk.journal.phase # "prepared" => Len(images) = 1
      BY <1>1, <1>2, <1>3, <1>5, <2>1 DEF WorkInv, Undoes, Shows
    <3>2. Disk.config.source = "static"
      BY <1>3, <1>5, <3>1 DEF Shows
    <3>3. Len(images) = 1
      BY <3>1
    <3>4. Img = {Disk}
      BY <3>3 DEF Img, Disk
    <3>5. QED
      BY <3>2, <3>4
  <2>5. Shows(Disk, None)
    BY <1>5, <2>4 DEF Shows
  <2>6. Pictured'
    <3>1. \A d \in Img' : Shows(d, wg'.preManaged) /\ ~Returned(d, wg'.preManaged)
      BY <1>9, <2>1, <2>4, <2>5 DEF Returned
    <3>2. QED
      BY <3>1 DEF Pictured, Shows, Returned, MayStillCommit, Open, Former, Underway
  <2>7. QED
    BY <1>10, <2>3, <2>6, AdoptedOn
<1>13. QED
  BY <1>11, <1>12

\* Outside a rollback nothing is returned.
LEMMA CalmFacts ==
  ASSUME Ground, txn.adopts, pc \notin Midway \cup Before \/ wg.preManaged = None
  PROVE  /\ SInv /\ TInv /\ Shut /\ Windows = {} /\ WorkInv /\ Disk \in Directory /\ Disk \in Img
         /\ Pictured /\ Adopted(wg, txn) /\ ~txn.kept /\ Adopting(pc, run, Disk, wg, txn)
         /\ run \in RunType
         /\ \A d \in Img : Shows(d, wg.preManaged) /\ ~Returned(d, wg.preManaged)
         /\ Shows(Disk, wg.preManaged) /\ ~Returned(Disk, wg.preManaged)
<1>1. SInv /\ Shut /\ Windows = {} /\ Pictured /\ Adopted(wg, txn) /\ Adopting(pc, run, Disk, wg, txn) /\ WorkInv
  BY DEF Ground, AdoptInv
<1>2. TInv /\ Disk \in Directory /\ Disk \in Img /\ run \in RunType
  BY <1>1, HostFacts DEF Typed, RunType
<1>3. ~txn.kept
  BY <1>1 DEF Adopted
<1>4. ASSUME NEW d \in Img PROVE Shows(d, wg.preManaged) /\ ~Returned(d, wg.preManaged)
  <2>1. Shows(d, wg.preManaged) /\ (Returned(d, wg.preManaged) => Excused(d))
    BY <1>1 DEF Pictured
  <2>2. Excused(d) => pc \in Midway \cup Before
    BY DEF Excused
  <2>3. QED
    BY <2>1, <2>2 DEF Returned
<1>5. QED
  BY <1>1, <1>2, <1>3, <1>4

\* A step that leaves the profiles, by what it may leave of the directory.
LEMMA CalmAdopts ==
  ASSUME Ground, txn.adopts, pc \notin Midway \cup Before \/ wg.preManaged = None,
         NEW leaves \in SUBSET Directory, Disk \in leaves, Shaped(leaves),
         wg'.preManaged = wg.preManaged,
         \A e \in leaves : \/ SameFiles(e, Disk)
                           \/ Shows(e, wg.preManaged) /\ ~Returned(e, wg.preManaged),
         Adopted(wg', txn'), Adopting(pc', run', Disk', wg', txn')
  PROVE  AdoptInv'
<1>1. /\ TInv /\ Pictured
      /\ \A d \in Img : Shows(d, wg.preManaged) /\ ~Returned(d, wg.preManaged)
      /\ Shows(Disk, wg.preManaged) /\ ~Returned(Disk, wg.preManaged)
  BY CalmFacts
<1>2. \A e \in leaves : Shows(e, wg.preManaged) /\ ~Returned(e, wg.preManaged)
  BY <1>1, SameShows
<1>3. Img' \subseteq Img \cup leaves
  BY <1>1, ShapedImages DEF TInv
<1>4. Pictured'
  BY <1>1, <1>2, <1>3, PicturedGo
<1>5. QED
  BY <1>4, AdoptedOn

\* A call on the store: completed, or given up.
LEMMA StoreAdopts ==
  ASSUME Ground, txn.adopts, pc \notin Midway \cup Before \/ wg.preManaged = None,
         UNCHANGED <<wg, txn>>,
         NEW leaves \in SUBSET Directory, Disk \in leaves, NEW after \in leaves,
         NEW held \in RunType, held.caller = "apply" => UndoesAdoption(held.journal),
         \A e \in leaves : \/ SameFiles(e, Disk)
                           \/ Shows(e, wg.preManaged) /\ ~Returned(e, wg.preManaged),
         \/ Completed(after) /\ Adopting(pc', run', Disk', wg', txn')
         \/ NotDone(held, leaves)
  PROVE  AdoptInv'
<1>1. Shut /\ Windows = {} /\ Adopted(wg, txn) /\ ~txn.kept
  BY CalmFacts
<1>2. Shaped(leaves)
  BY <1>1, StoreShaped
<1>3. Adopting(pc', run', Disk', wg', txn')
  BY <1>1, NotDoneAdopts
<1>4. Adopted(wg', txn') /\ wg'.preManaged = wg.preManaged
  BY <1>1
<1>5. QED
  BY <1>2, <1>3, <1>4, CalmAdopts

\* The record of the invocation is written, or the call fails.
LEMMA JournalAdopts ==
  ASSUME Ground, txn.adopts, pc \notin Midway \cup Before \/ wg.preManaged = None,
         UNCHANGED <<wg, txn>>,
         NEW held \in RunType, held.caller = "apply" => UndoesAdoption(held.journal),
         NEW j \in Journal,
         NEW after, after = Written(Disk, "journal", j),
         Shows(after, wg.preManaged) /\ ~Returned(after, wg.preManaged),
         \/ Completed(after) /\ Adopting(pc', run', Disk', wg', txn')
         \/ NotDone(held, WriteLeaves(Disk, "journal", j))
  PROVE  AdoptInv'
<1> DEFINE leaves == WriteLeaves(Disk, "journal", j)
<1>1. Disk \in Directory
  BY CalmFacts
<1>2. leaves \in SUBSET Directory /\ Disk \in leaves /\ after \in leaves
  BY <1>1, WriteTypes DEF WriteLeaves, Entry
<1>3. \A e \in leaves : SameFiles(e, Disk) \/ e = after
  BY <1>1, JournalForms DEF StagesFrom
<1> HIDE DEF leaves
<1>4. QED
  BY <1>2, <1>3, StoreAdopts DEF leaves

\* A record in its next phase shows what it did.
LEMMA PhaseShows ==
  ASSUME NEW j \in Journal, j # None, Record(j) = Record(Disk.journal), Disk \in Directory,
         Open(Disk), Shows(Disk, wg.preManaged),
         wg.preManaged = None => j.operation # "static-restore",
         wg.preManaged # None => j.phase # "prepared" /\ Disk.config.source = "api"
  PROVE  LET after == Written(Disk, "journal", j)
         IN Shows(after, wg.preManaged) /\ ~Returned(after, wg.preManaged)
<1> DEFINE after == Written(Disk, "journal", j)
<1>1. /\ after.journal = j /\ after.config = Disk.config
      /\ after.configPrevious = Disk.configPrevious
  BY DEF Written, Directory
<1> HIDE DEF after
<1>2. Former(after) = Former(Disk)
  BY <1>1 DEF Former
<1>3. UndoesAdoption(j) = UndoesAdoption(Disk.journal) /\ j.operation = Disk.journal.operation
  BY RecordsAgree
<1>4. UndoesAdoption(j) => j.operation # "static-restore"
  BY DEF UndoesAdoption
<1>5. Disk.journal # None
  BY DEF Open
<1>6. Shows(after, wg.preManaged)
  BY <1>1, <1>2, <1>3, <1>4, <1>5 DEF Shows, Underway
<1>7. ~Returned(after, wg.preManaged)
  BY <1>1 DEF Returned
<1>8. QED
  BY <1>6, <1>7 DEF after

\* The rollback is recorded when the snapshot has gone.
LEMMA MarkRolledBackAdopts ==
  ASSUME Ground, MarkRolledBack
  PROVE  AdoptInv'
<1> DEFINE j == RolledBack(run.journal)
           after == Written(Disk, "journal", j)
<1>1. SInv
  BY DEF Ground
<1>2. /\ pc = "markRolledBack" /\ UNCHANGED <<wg, timer, txn>> /\ j \in Journal
      /\ \/ /\ Completed(after) /\ pc' = "cleanConfig" /\ run' = run
         \/ NotDone(run, WriteLeaves(Disk, "journal", j))
  BY <1>1, HostFacts, MarkRolledBackLands
<1>3. SUFFICES ASSUME txn.adopts PROVE AdoptInv'
  BY <1>2 DEF AdoptInv
<1>4. wg.preManaged = None
  BY <1>2, <1>3 DEF Ground, AdoptInv, Adopting
<1>5. /\ Disk \in Directory /\ Shows(Disk, wg.preManaged) /\ Adopting(pc, run, Disk, wg, txn)
      /\ run \in RunType
  BY <1>3, <1>4, CalmFacts
<1>6. run.caller \in {"rollback", "undo"} /\ Rolling(pc, run) /\ run.journal \in JournalRecord
  <2>1. Rolling(pc, run)
    BY <1>2 DEF Rolling, RollbackSteps
  <2>2. QED
    BY <1>1, <2>1, HostFacts, RunFacts, RollingFacts
<1>7. j.phase = "rolled-back"
  BY <1>6 DEF RolledBack, JournalRecord
<1> HIDE DEF j
<1>8. after.journal = j /\ after.config = Disk.config
  BY <1>5 DEF Written, Directory
<1> HIDE DEF after
<1>9. Shows(after, wg.preManaged) /\ ~Returned(after, wg.preManaged)
  <2>1. ~Open(after)
    BY <1>7, <1>8 DEF Open, ClosedPhases
  <2>2. QED
    BY <1>4, <1>5, <1>8, <2>1 DEF Shows, Returned
<1>10. Completed(after) /\ pc' = "cleanConfig" /\ run' = run => Adopting(pc', run', Disk', wg', txn')
  BY <1>5, <1>6 DEF Adopting, Unwritten, Filed, Standing
<1>11. QED
  BY <1>2, <1>3, <1>4, <1>5, <1>6, <1>9, <1>10, JournalAdopts DEF after

\* The record of an adoption is closed with the source it has come to.
LEMMA CleanAdopts ==
  ASSUME Ground, txn.adopts, pc \in CleanSteps, UNCHANGED <<wg, timer, txn>>,
         NEW entry \in {"journal", "configPrevious", "credentialPrevious"},
         \/ Gone(entry) /\ Adopting(pc', run', Disk', wg', txn')
         \/ NotDone(run, RemoveLeaves(Disk, entry))
  PROVE  AdoptInv'
<1> DEFINE after == Removed(Disk, entry)
           leaves == RemoveLeaves(Disk, entry)
<1>1. pc \notin Midway \cup Before
  BY DEF CleanSteps, Midway, Before
<1>2. /\ SInv /\ Shut /\ Windows = {} /\ Disk \in Directory /\ Shows(Disk, wg.preManaged) /\ run \in RunType
      /\ Adopted(wg, txn) /\ TInv
  BY <1>1, CalmFacts
<1>3. ~Open(Disk) /\ run.caller # "apply"
  BY <1>2, CleaningFacts DEF Shows, Underway
<1>4. leaves \in SUBSET Directory /\ Disk \in leaves /\ after \in leaves
  BY <1>2, RemoveTypes DEF RemoveLeaves
<1>5. /\ after.journal \in {Disk.journal, None} /\ after.config = Disk.config
      /\ \A e \in leaves : SameFiles(e, Disk) \/ e = after
  BY <1>2, RemoveForms
<1> HIDE DEF after, leaves
<1>6. Shows(after, wg.preManaged) /\ ~Returned(after, wg.preManaged)
  <2>1. ~Open(after)
    BY <1>3, <1>5 DEF Open
  <2>2. ~Returned(after, wg.preManaged)
    BY <2>1, ReturnedCommits
  <2>3. QED
    BY <1>2, <1>3, <1>5, <2>1, <2>2 DEF Shows
<1>7. \A e \in leaves : \/ SameFiles(e, Disk)
                        \/ Shows(e, wg.preManaged) /\ ~Returned(e, wg.preManaged)
  BY <1>5, <1>6
<1>8. CASE \/ Completed(after) /\ Adopting(pc', run', Disk', wg', txn')
           \/ NotDone(run, leaves)
  BY <1>1, <1>2, <1>3, <1>4, <1>7, <1>8, StoreAdopts
<1>9. CASE UNCHANGED <<images, status, faults>> /\ Adopting(pc', run', Disk', wg', txn')
  <2>1. Shaped({Disk}) /\ {Disk} \in SUBSET Directory /\ wg'.preManaged = wg.preManaged
    BY <1>2, <1>9, StillShaped
  <2>2. Adopted(wg', txn')
    BY <1>2
  <2>3. \A e \in {Disk} : \/ SameFiles(e, Disk)
                          \/ Shows(e, wg.preManaged) /\ ~Returned(e, wg.preManaged)
    BY DEF SameFiles
  <2>4. QED
    BY <1>1, <1>9, <2>1, <2>2, <2>3, CalmAdopts
<1>10. QED
  BY <1>8, <1>9 DEF Gone, after, leaves

\* Closing a record step by step: the snapshot of the configuration,
LEMMA CleanConfigAdopts ==
  ASSUME Ground, CleanConfig
  PROVE  AdoptInv'
<1>1. SInv
  BY DEF Ground
<1>2. /\ pc = "cleanConfig" /\ UNCHANGED <<wg, timer, txn>>
      /\ \/ Gone("configPrevious") /\ pc' = "cleanKey" /\ run' = run
         \/ NotDone(run, RemoveLeaves(Disk, "configPrevious"))
  BY <1>1, HostFacts, CleanConfigLands
<1>3. SUFFICES ASSUME txn.adopts PROVE AdoptInv'
  BY <1>2 DEF AdoptInv
<1>4. Adopting(pc, run, Disk, wg, txn)
  BY <1>3 DEF Ground, AdoptInv
<1>5. pc' = "cleanKey" /\ run' = run => Adopting(pc', run', Disk', wg', txn')
  BY <1>4 DEF Adopting, Unwritten, Filed, Standing
<1>6. QED
  BY <1>2, <1>3, <1>5, CleanAdopts DEF CleanSteps

\* the snapshot of the credential,
LEMMA CleanKeyAdopts ==
  ASSUME Ground, CleanKey
  PROVE  AdoptInv'
<1>1. SInv
  BY DEF Ground
<1>2. /\ pc = "cleanKey" /\ UNCHANGED <<wg, timer, txn>>
      /\ \/ Gone("credentialPrevious") /\ pc' = "cleanJournal" /\ run' = run
         \/ NotDone(run, RemoveLeaves(Disk, "credentialPrevious"))
  BY <1>1, HostFacts, CleanKeyLands
<1>3. SUFFICES ASSUME txn.adopts PROVE AdoptInv'
  BY <1>2 DEF AdoptInv
<1>4. Adopting(pc, run, Disk, wg, txn)
  BY <1>3 DEF Ground, AdoptInv
<1>5. pc' = "cleanJournal" /\ run' = run => Adopting(pc', run', Disk', wg', txn')
  BY <1>4 DEF Adopting, Unwritten, Filed, Standing
<1>6. QED
  BY <1>2, <1>3, <1>5, CleanAdopts DEF CleanSteps

\* and the record itself.
LEMMA CleanJournalAdopts ==
  ASSUME Ground, CleanJournal
  PROVE  AdoptInv'
<1>1. SInv
  BY DEF Ground
<1>2. /\ pc = "cleanJournal" /\ UNCHANGED <<wg, timer, txn>>
      /\ \/ /\ Gone("journal")
            /\ \/ pc' = "ready" /\ run' = [run EXCEPT !.caller = "none", !.journal = None]
               \/ End("failed") \/ End("kept")
               \/ /\ run.caller = "finalize" /\ pc' = "reset"
                  /\ run' = [run EXCEPT !.caller = "post"]
         \/ NotDone(run, RemoveLeaves(Disk, "journal"))
  BY <1>1, HostFacts, CleanJournalLands
<1>3. SUFFICES ASSUME txn.adopts PROVE AdoptInv'
  BY <1>2 DEF AdoptInv
<1>4. Adopting(pc, run, Disk, wg, txn) /\ run \in RunType
  BY <1>1, <1>3, HostFacts DEF Ground, AdoptInv, Typed, RunType
<1>5. ASSUME pc' = "ready", run' = [run EXCEPT !.caller = "none", !.journal = None]
      PROVE  Adopting(pc', run', Disk', wg', txn')
  <2>1. run'.caller = "none"
    BY <1>4, <1>5 DEF RunType
  <2>2. QED
    BY <1>5, <2>1, BareAdopts DEF Unwritten, Filed, Midway, Standing
<1>6. End("failed") \/ End("kept") => Adopting(pc', run', Disk', wg', txn')
  BY IdleAdopts DEF End
<1>7. ASSUME run.caller = "finalize", pc' = "reset", run' = [run EXCEPT !.caller = "post"]
      PROVE  Adopting(pc', run', Disk', wg', txn')
  <2>1. run'.caller = "post" /\ run'.journal = run.journal /\ run'.request = run.request
    BY <1>4, <1>7 DEF RunType
  <2>2. UndoesAdoption(run.journal) /\ run.request.mode = "api"
    BY <1>4, <1>7 DEF Adopting
  <2>3. QED
    BY <1>7, <2>1, <2>2 DEF Adopting, Unwritten, Filed, Standing
<1>8. QED
  BY <1>2, <1>3, <1>5, <1>6, <1>7, CleanAdopts DEF CleanSteps

\* An adoption whose files are all written has its source from the runtime.
LEMMA StandingApi ==
  ASSUME Ground, txn.adopts, pc \in Standing, run.caller \in {"apply", "finalize"}
  PROVE  /\ Disk.config.source = "api" /\ wg.preManaged # None
         /\ UndoesAdoption(run.journal) /\ run.request.mode = "api"
<1>1. pc \notin Midway \cup Before
  BY DEF Standing, Midway, Before
<1>2. Shows(Disk, wg.preManaged) /\ Adopting(pc, run, Disk, wg, txn) /\ WorkInv
  BY <1>1, CalmFacts
<1>3. UndoesAdoption(run.journal) /\ run.request.mode = "api"
  BY <1>2 DEF Adopting
<1>4. Triple(Disk) = txn.after /\ txn.after.source = "api"
  BY <1>2, <1>3 DEF WorkInv, Halfway, Aims
<1>5. Disk.config.source = "api"
  BY <1>4 DEF Triple
<1>6. QED
  BY <1>2, <1>3, <1>5 DEF Shows

\* A mark of the try block.
LEMMA MarkAdopts ==
  ASSUME Ground, txn.adopts, run.caller = "apply", UNCHANGED <<wg, txn>>,
         pc \in {"markConfig", "markKey", "markActivated", "markVerifying"},
         Open(Disk), Disk.journal = run.journal,
         NEW held \in RunType, Record(held.journal) = Record(run.journal),
         NEW j \in Journal, j # None, Record(j) = Record(run.journal), j.phase # "prepared",
         \/ /\ Completed(Written(Disk, "journal", j))
            /\ run'.caller = "apply" /\ run'.request = run.request /\ run'.journal = j
            /\ pc' \in Filed \cup Standing /\ (pc' \in Filed => pc \in Filed)
         \/ NotDone(held, WriteLeaves(Disk, "journal", j))
  PROVE  AdoptInv'
<1>1. pc \notin Midway \cup Before
  BY DEF Midway, Before
<1>2. /\ Shows(Disk, wg.preManaged) /\ Adopting(pc, run, Disk, wg, txn) /\ Disk \in Directory
  BY <1>1, CalmFacts
<1>3. /\ UndoesAdoption(run.journal) /\ run.request.mode = "api"
      /\ UndoesAdoption(held.journal) /\ UndoesAdoption(j) /\ j.operation # "static-restore"
  <2>1. UndoesAdoption(run.journal) /\ run.request.mode = "api"
    BY <1>2 DEF Adopting
  <2>2. UndoesAdoption(held.journal) /\ UndoesAdoption(j)
    BY <2>1, RecordsAgree
  <2>3. QED
    BY <2>1, <2>2 DEF UndoesAdoption
<1>4. wg.preManaged # None => Disk.config.source = "api"
  <2>1. pc \in Filed => wg.preManaged = None
    BY <1>2 DEF Adopting
  <2>2. pc \notin Filed => pc \in Standing
    BY DEF Filed, Standing
  <2>3. QED
    BY <2>1, <2>2, StandingApi
<1>5. Shows(Written(Disk, "journal", j), wg.preManaged)
      /\ ~Returned(Written(Disk, "journal", j), wg.preManaged)
  BY <1>2, <1>3, <1>4, PhaseShows
<1>6. ASSUME run'.caller = "apply", run'.request = run.request, run'.journal = j,
             pc' \in Filed \cup Standing, pc' \in Filed => pc \in Filed
      PROVE  Adopting(pc', run', Disk', wg', txn')
  <2>1. pc' \in Filed => wg'.preManaged = None /\ wg'.profile = txn'.profile
    BY <1>2, <1>6 DEF Adopting
  <2>2. pc' \notin {"validate", "restoreConfig", "restoreKey", "dropPreManaged", "markRolledBack"}
        /\ pc' \notin Unwritten
    BY <1>6 DEF Filed, Standing, Unwritten
  <2>3. QED
    BY <1>3, <1>6, <2>1, <2>2 DEF Adopting
<1>7. QED
  BY <1>1, <1>3, <1>5, <1>6, JournalAdopts

\* MarkConfig and MarkKey come before the profile is adopted,
LEMMA MarkConfigAdopts ==
  ASSUME Ground, MarkConfig
  PROVE  AdoptInv'
<1> DEFINE self == Phased("config")
           next == CASE run.journal.keyChanged -> "writeKey"
                     [] ~run.journal.keyChanged /\ Activates -> "activate"
                     [] OTHER -> "markActivated"
<1>1. pc = "markConfig" /\ Mark(pc, "config", next) /\ SInv
  BY DEF MarkConfig, Mark, Ground
<1>2. /\ run.journal.phase = "prepared" /\ run.journal.operation \in ApiOperations
      /\ run.journal.keyChanged \in BOOLEAN
  BY <1>1, RunFacts DEF SInv, TInv, Control, JournalAt, CallerAt, ApplySteps, JournalRecord
<1>3. /\ pc \in ApplySteps /\ run.journal.phase \notin ProofPhases \cup ClosedPhases
      /\ "config" \in Phases \ ProofPhases
      /\ "config" \in OperationPhases(run.journal.operation)
  BY <1>1, <1>2 DEF ApplySteps, ProofPhases, ClosedPhases, Phases, OperationPhases
<1>4. next \in {"writeKey", "activate", "markActivated"}
  BY <1>2
<1> HIDE DEF next
<1>5. /\ run.caller = "apply" /\ Open(Disk) /\ UNCHANGED txn
      /\ self \in RunType /\ self.caller = "apply" /\ self.request = run.request
      /\ self.journal \in Journal /\ self.journal # None
      /\ Record(self.journal) = Record(run.journal) /\ self.journal.phase = "config"
      /\ Disk.journal = run.journal
      /\ \/ /\ Completed(Written(Disk, "journal", self.journal))
            /\ pc' = next /\ run' = self
         \/ NotDone(self, WriteLeaves(Disk, "journal", self.journal))
  BY <1>1, <1>3, MarkParts
<1> HIDE DEF self
<1>6. UNCHANGED wg
  BY DEF MarkConfig, Mark
<1>7. SUFFICES ASSUME txn.adopts PROVE AdoptInv'
  BY <1>5 DEF AdoptInv
<1>8. next \in Filed \cup Standing /\ pc \in Filed
  BY <1>1, <1>4 DEF Filed, Standing
<1>9. QED
  BY <1>1, <1>5, <1>6, <1>7, <1>8, MarkAdopts

\* and so does the mark of the new key.
LEMMA MarkKeyAdopts ==
  ASSUME Ground, MarkKey
  PROVE  AdoptInv'
<1> DEFINE self == Phased("credential")
<1>1. pc = "markKey" /\ Mark(pc, "credential", "revalidate") /\ SInv
  BY DEF MarkKey, Mark, Ground
<1>2. run.journal.phase = "config" /\ run.journal.operation \in ApiOperations
  BY <1>1 DEF SInv, TInv, Control, JournalAt
<1>3. /\ pc \in ApplySteps /\ run.journal.phase \notin ProofPhases \cup ClosedPhases
      /\ "credential" \in Phases \ ProofPhases
      /\ "credential" \in OperationPhases(run.journal.operation)
  BY <1>1, <1>2 DEF ApplySteps, ProofPhases, ClosedPhases, Phases, OperationPhases
<1>4. /\ run.caller = "apply" /\ Open(Disk) /\ UNCHANGED txn
      /\ self \in RunType /\ self.caller = "apply" /\ self.request = run.request
      /\ self.journal \in Journal /\ self.journal # None
      /\ Record(self.journal) = Record(run.journal) /\ self.journal.phase = "credential"
      /\ Disk.journal = run.journal
      /\ \/ /\ Completed(Written(Disk, "journal", self.journal))
            /\ pc' = "revalidate" /\ run' = self
         \/ NotDone(self, WriteLeaves(Disk, "journal", self.journal))
  BY <1>1, <1>3, MarkParts
<1> HIDE DEF self
<1>5. UNCHANGED wg
  BY DEF MarkKey, Mark
<1>6. SUFFICES ASSUME txn.adopts PROVE AdoptInv'
  BY <1>4 DEF AdoptInv
<1>7. "revalidate" \in Filed /\ pc \in Filed
  BY <1>1 DEF Filed
<1>8. QED
  BY <1>1, <1>4, <1>5, <1>6, <1>7, MarkAdopts

\* and MarkActivated after.
LEMMA MarkActivatedAdopts ==
  ASSUME Ground, MarkActivated
  PROVE  AdoptInv'
<1> DEFINE self == Phased("activated")
<1>1. pc = "markActivated" /\ Mark(pc, "activated", "beginProof") /\ SInv
  BY DEF MarkActivated, Mark, Ground
<1>2. run.journal.phase \in {"prepared", "config", "credential", "activating"} /\ run.caller = "apply"
  BY <1>1 DEF SInv, TInv, Control, JournalAt, CallerAt, ApplySteps
<1>3. /\ pc \in ApplySteps /\ run.journal.phase \notin ProofPhases \cup ClosedPhases
      /\ "activated" \in Phases \ ProofPhases
      /\ "activated" \in OperationPhases(run.journal.operation)
  BY <1>1, <1>2 DEF ApplySteps, ProofPhases, ClosedPhases, Phases, OperationPhases
<1>4. /\ Open(Disk) /\ UNCHANGED txn
      /\ self \in RunType /\ self.caller = "apply" /\ self.request = run.request
      /\ self.journal \in Journal /\ self.journal # None
      /\ Record(self.journal) = Record(run.journal) /\ self.journal.phase = "activated"
      /\ Disk.journal = run.journal
      /\ \/ /\ Completed(Written(Disk, "journal", self.journal))
            /\ pc' = "beginProof" /\ run' = self
         \/ NotDone(self, WriteLeaves(Disk, "journal", self.journal))
  BY <1>1, <1>3, MarkParts
<1> HIDE DEF self
<1>5. UNCHANGED wg
  BY DEF MarkActivated, Mark
<1>6. SUFFICES ASSUME txn.adopts PROVE AdoptInv'
  BY <1>4 DEF AdoptInv
<1>7. "beginProof" \in Standing /\ "beginProof" \notin Filed
  BY DEF Filed, Standing
<1>8. QED
  BY <1>1, <1>2, <1>4, <1>5, <1>6, <1>7, MarkAdopts

\* Restoring the static profile is no part of an adoption.
LEMMA RestorationAdopts ==
  ASSUME Ground, MarkActivating \/ RestoreStatic
  PROVE  AdoptInv'
<1>1. pc \in {"markActivating", "restoreStatic"} /\ SInv
  BY DEF MarkActivating, Mark, RestoreStatic, Ground
<1>2. run.journal.operation = "static-restore" /\ run.caller = "apply"
  BY <1>1 DEF SInv, TInv, Control, CallerAt, JournalAt, ApplySteps
<1>3. txn.adopts => UndoesAdoption(run.journal)
  BY <1>2 DEF Ground, AdoptInv, Adopting
<1>4. ~txn.adopts
  BY <1>2, <1>3 DEF UndoesAdoption
<1>5. txn'.adopts = txn.adopts
  <2>1. txn \in TxnType
    BY <1>1, HostFacts, Hosted
  <2>2. txn' = txn \/ \E k : txn' = [txn EXCEPT !.kept = k]
    BY Zenon DEF MarkActivating, Mark, RestoreStatic
  <2>3. QED
    BY <2>1, <2>2 DEF TxnType
<1>6. QED
  BY <1>4, <1>5 DEF AdoptInv

\* BeginProof changes nothing but the status.
LEMMA BeginProofAdopts ==
  ASSUME Ground, BeginProof
  PROVE  AdoptInv'
<1>1. pc = "beginProof" /\ pc' = "markVerifying" /\ run' = run /\ UNCHANGED <<images, wg, txn>>
  BY DEF BeginProof, Go
<1>2. SUFFICES ASSUME txn.adopts PROVE AdoptInv'
  BY <1>1 DEF AdoptInv
<1>3. pc \notin Midway \cup Before
  BY <1>1 DEF Midway, Before
<1>4. SInv /\ Disk \in Directory /\ Adopted(wg, txn) /\ Adopting(pc, run, Disk, wg, txn) /\ Shut /\ Windows = {}
  BY <1>2, <1>3, CalmFacts
<1>5. Shaped({Disk}) /\ {Disk} \in SUBSET Directory
  BY <1>1, <1>4, StillShaped
<1>6. \A e \in {Disk} : SameFiles(e, Disk)
  BY DEF SameFiles
<1>7. Adopting(pc', run', Disk', wg', txn')
  BY <1>1, <1>4 DEF Adopting, Unwritten, Filed, Standing
<1>8. Adopted(wg', txn') /\ wg'.preManaged = wg.preManaged
  BY <1>1, <1>4
<1>9. QED
  BY <1>2, <1>3, <1>5, <1>6, <1>7, <1>8, CalmAdopts

\* The start of the proof is recorded.
LEMMA MarkVerifyingAdopts ==
  ASSUME Ground, MarkVerifying
  PROVE  AdoptInv'
<1> DEFINE j == [run.journal EXCEPT !.phase = "verifying", !.proof = TRUE]
<1>1. SInv
  BY DEF Ground
<1>2. /\ pc = "markVerifying" /\ UNCHANGED <<wg, timer, txn>>
      /\ j \in Journal /\ run.journal \in Journal
      /\ \/ /\ Completed(Written(Disk, "journal", j))
            /\ pc' = "verify" /\ run' = [run EXCEPT !.journal = j]
         \/ NotDone(run, WriteLeaves(Disk, "journal", j))
  BY <1>1, HostFacts, MarkVerifyingLands
<1>3. TInv /\ run.caller \in {"recovery", "apply"} /\ run \in RunType /\ run.journal # None
      /\ run.journal.phase = "activated" /\ Disk \in Directory
  BY <1>1, <1>2, HostFacts, RunFacts DEF TInv, Control, CallerAt, JournalAt, ProofSteps
<1>4. /\ Record(j) = Record(run.journal) /\ j.phase = "verifying" /\ j # None
      /\ j.operation = run.journal.operation
  <2>1. run.journal \in JournalRecord
    BY <1>2, JournalRecords
  <2>2. QED
    BY <1>2, <2>1, NoneApart DEF Record, JournalRecord
<1>5. run' = [run EXCEPT !.journal = j] =>
        /\ run'.caller = run.caller /\ run'.request = run.request /\ run'.journal = j
  BY <1>3 DEF RunType
<1> HIDE DEF j
<1>6. SUFFICES ASSUME txn.adopts PROVE AdoptInv'
  BY <1>2 DEF AdoptInv
<1>7. CASE run.caller = "apply"
  <2>1. Disk.journal = run.journal /\ Open(Disk)
    BY <1>1, <1>2, <1>3, <1>7, ApplyFacts DEF Open, ClosedPhases, CleanSteps
  <2>2. "verify" \in Standing /\ "verify" \notin Filed
    BY DEF Filed, Standing
  <2>3. QED
    BY <1>2, <1>3, <1>4, <1>5, <1>6, <1>7, <2>1, <2>2, MarkAdopts
<1>8. CASE run.caller = "recovery"
  <2>1. run.journal = Disk.journal /\ Open(Disk)
    BY <1>1, <1>2, <1>8, ProvingFacts
  <2>2. run.journal.operation \in {"api-update", "static"}
    BY <1>2, <1>8 DEF Ground, WorkInv, Halfway
  <2>3. pc \notin Midway \cup Before /\ pc \in Standing /\ pc # "markVerified"
    BY <1>2 DEF Midway, Before, Standing
  <2>4. Shows(Disk, wg.preManaged) /\ Adopting(pc, run, Disk, wg, txn)
    BY <1>6, <2>3, CalmFacts
  <2>5. wg.preManaged = None
    BY <1>8, <2>3, <2>4 DEF Adopting
  <2>6. Shows(Written(Disk, "journal", j), wg.preManaged)
        /\ ~Returned(Written(Disk, "journal", j), wg.preManaged)
    BY <1>2, <1>3, <1>4, <2>1, <2>2, <2>4, <2>5, PhaseShows
  <2>7. pc' = "verify" /\ run' = [run EXCEPT !.journal = j] => Adopting(pc', run', Disk', wg', txn')
    <3>1. wg'.preManaged = None
      BY <1>2, <2>5
    <3>2. QED
      BY <1>5, <1>8, <3>1, BareAdopts DEF Unwritten, Filed, Midway, Standing
  <2>8. QED
    BY <1>2, <1>3, <1>6, <1>8, <2>3, <2>6, <2>7, JournalAdopts
<1>9. QED
  BY <1>3, <1>7, <1>8

\* A command of the runtime that leaves the source and the snapshot of the profile.
LEMMA CallsAdopt ==
  ASSUME Ground, txn.adopts, pc \notin Midway \cup Before \/ wg.preManaged = None,
         UNCHANGED txn, NEW results,
         \A r \in results : /\ r \in ResultType /\ r.source = Disk.config.source
                            /\ Adopted(r.wg, txn) /\ r.wg.preManaged = wg.preManaged,
         NEW ACTION Done, NEW ACTION Failed, Calls(results, Done, Failed),
         \A r \in results : r.ok /\ CallEnds(r) /\ images' = images /\ Done
                              => Adopting(pc', run', Disk', wg', txn'),
         \A r \in results : ~r.ok /\ CallEnds(r) /\ images' = images /\ Failed
                              => Adopting(pc', run', Disk', wg', txn')
  PROVE  AdoptInv'
<1>1. PICK r \in results : \/ CallEnds(r) /\ (IF r.ok THEN Done ELSE Failed)
                           \/ CallCut(r)
  BY DEF Calls
<1>2. SInv /\ Shut /\ Windows = {} /\ Disk \in Directory
  BY CalmFacts
<1>3. /\ r \in ResultType /\ r.source = Disk.config.source
      /\ Adopted(r.wg, txn) /\ r.wg.preManaged = wg.preManaged
  OBVIOUS
<1>4. /\ CallEnds(r) => images' = images /\ wg' = r.wg
      /\ CallCut(r) => /\ wg' = r.wg /\ pc' = "idle" /\ run' = NoRun
                       /\ (images' = images \/ Lost({Disk}))
  BY <1>2, <1>3, SourceKept
<1>5. wg' = r.wg /\ (images' = images \/ Lost({Disk}))
  BY <1>1, <1>4
<1>6. Shaped({Disk})
  BY <1>2, <1>5, StillShaped
<1>7. Adopting(pc', run', Disk', wg', txn')
  <2>1. CASE CallCut(r)
    BY <1>4, <2>1, IdleAdopts
  <2>2. CASE CallEnds(r) /\ r.ok /\ Done
    BY <1>4, <2>2
  <2>3. CASE CallEnds(r) /\ ~r.ok /\ Failed
    BY <1>4, <2>3
  <2>4. QED
    BY <1>1, <2>1, <2>2, <2>3
<1>8. Adopted(wg', txn') /\ wg'.preManaged = wg.preManaged
  BY <1>3, <1>5
<1>9. SameFiles(Disk, Disk)
  BY DEF SameFiles
<1>10. QED
  BY <1>2, <1>6, <1>7, <1>8, <1>9, CalmAdopts

\* The health check of a proof, whatever comes of it.
LEMMA VerifyAdopts ==
  ASSUME Ground, Verify
  PROVE  AdoptInv'
<1>1. SInv
  BY DEF Ground
<1>2. pc = "verify" /\ UNCHANGED <<timer, txn>> /\ Calls(CheckResults, ProofEnds, ProofFails)
  BY <1>1, HostFacts, VerifyLands
<1>3. TInv /\ run.caller \in {"recovery", "apply"} /\ run \in RunType
  BY <1>1, <1>2, HostFacts, RunFacts DEF TInv, Control, CallerAt, ProofSteps
<1>4. SUFFICES ASSUME txn.adopts PROVE AdoptInv'
  BY <1>2 DEF AdoptInv
<1>5. pc \notin Midway \cup Before /\ pc \in Standing
  BY <1>2 DEF Midway, Before, Standing
<1>6. /\ Shut /\ Windows = {} /\ Adopted(wg, txn) /\ ~txn.kept
      /\ Shows(Disk, wg.preManaged) /\ Adopting(pc, run, Disk, wg, txn)
  BY <1>4, <1>5, CalmFacts
<1>7. \A r \in CheckResults : /\ r \in ResultType /\ r.source = Disk.config.source
                              /\ Adopted(r.wg, txn) /\ r.wg.preManaged = wg.preManaged
  BY <1>1, <1>3, <1>6, CheckTypes, AdoptedCheck DEF TInv
<1>8. run.caller = "recovery" => wg.preManaged = None
  BY <1>2, <1>5, <1>6 DEF Adopting
<1>9. run.caller = "apply" => UndoesAdoption(run.journal) /\ run.request.mode = "api"
  BY <1>6 DEF Adopting
<1>10. ASSUME NEW r \in CheckResults, CallEnds(r), ProofFails
       PROVE  Adopting(pc', run', Disk', wg', txn')
  <2>1. wg'.preManaged = wg.preManaged
    BY <1>7, <1>10 DEF CallEnds
  <2>2. CASE run.caller = "recovery" /\ RollBack(run)
    <3>1. pc' \in {"reconcile", "restoreConfig"} /\ run'.caller = "rollback"
      BY <1>3, <2>2 DEF RollBack, Go, RunType
    <3>2. QED
      BY <1>8, <2>1, <2>2, <3>1 DEF Adopting, Unwritten, Filed, Standing
  <2>3. CASE run.caller = "apply" /\ Raise(run)
    BY <1>3, <1>6, <1>9, <2>3, RaiseAdopts
  <2>4. QED
    BY <1>3, <1>10, <2>2, <2>3 DEF ProofFails
<1>11. ASSUME NEW r \in CheckResults, CallEnds(r), ProofEnds
       PROVE  Adopting(pc', run', Disk', wg', txn')
  <2>1. wg'.preManaged = wg.preManaged
    BY <1>7, <1>11 DEF CallEnds
  <2>2. CASE run.caller = "recovery" /\ pc' = "markVerified" /\ run' = run
    BY <1>8, <2>1, <2>2, BareAdopts DEF Unwritten, Filed, Midway
  <2>3. CASE run.caller = "apply" /\ pc' = "markVerified" /\ run' = [run EXCEPT !.caller = "finalize"]
    <3>1. run'.caller = "finalize" /\ run'.request = run.request /\ run'.journal = run.journal
      BY <1>3, <2>3 DEF RunType
    <3>2. QED
      BY <1>9, <2>3, <3>1 DEF Adopting, Unwritten, Filed
  <2>4. CASE ProofFails
    BY <1>10, <1>11, <2>4
  <2>5. QED
    BY <1>3, <1>11, <2>2, <2>3, <2>4 DEF ProofEnds, Go
<1> HIDE DEF Calls
<1>12. QED
  BY <1>2, <1>4, <1>5, <1>7, <1>10, <1>11, CallsAdopt

\* The commit.
LEMMA MarkVerifiedAdopts ==
  ASSUME Ground, MarkVerified
  PROVE  AdoptInv'
<1> DEFINE self == Phased("verified")
<1>1. pc = "markVerified" /\ Mark("markVerified", "verified", "cleanConfig") /\ SInv
  BY DEF MarkVerified, Mark, Ground
<1>2. TInv /\ run.caller \in {"recovery", "finalize"} /\ run \in RunType /\ run.journal # None
      /\ run.journal.phase = "verifying" /\ Disk \in Directory /\ run.journal \in Journal
  BY <1>1, HostFacts, RunFacts DEF TInv, Control, CallerAt, JournalAt, ApplySteps
<1>3. "verified" \in Phases /\ "verified" \in OperationPhases(run.journal.operation)
      /\ (run.journal.proof <=> "verified" \in ProofPhases)
  BY <1>2, Unproved DEF Phases, OperationPhases, ProofPhases
<1>4. /\ self \in RunType /\ self.caller = run.caller /\ self.request = run.request
      /\ self.journal \in Journal /\ self.journal # None
      /\ Record(self.journal) = Record(run.journal) /\ self.journal.phase = "verified"
      /\ self.journal.operation = run.journal.operation
      /\ self.journal.hadPreManaged = run.journal.hadPreManaged
  BY <1>2, <1>3, PhasedKeeps, PhasedAt
<1>5. /\ UNCHANGED <<wg, timer, txn>>
      /\ \/ /\ Completed(Written(Disk, "journal", self.journal))
            /\ pc' = "cleanConfig" /\ run' = self
         \/ NotDone(self, WriteLeaves(Disk, "journal", self.journal))
  BY <1>1, <1>2, <1>3, MarkLands
<1> HIDE DEF self
<1>6. SUFFICES ASSUME txn.adopts PROVE AdoptInv'
  BY <1>5 DEF AdoptInv
<1>7. pc \notin Midway \cup Before /\ pc \in Standing
  BY <1>1 DEF Midway, Before, Standing
<1>8. /\ Shows(Disk, wg.preManaged) /\ Adopting(pc, run, Disk, wg, txn)
  BY <1>6, <1>7, CalmFacts
<1>9. run.caller = "finalize" =>
        /\ Disk.config.source = "api" /\ wg.preManaged # None
        /\ UndoesAdoption(run.journal) /\ run.request.mode = "api"
  BY <1>6, <1>7, StandingApi
<1>10. Disk.journal = run.journal /\ Open(Disk)
  <2>1. run.caller = "recovery" => Disk.journal = run.journal
    BY <1>1, ProvingFacts
  <2>2. run.caller = "finalize" => Disk.journal = run.journal
    BY <1>1, ApplyFacts DEF CleanSteps
  <2>3. QED
    BY <1>2, <2>1, <2>2 DEF Open, ClosedPhases
<1>11. /\ wg.preManaged = None => self.journal.operation # "static-restore"
       /\ wg.preManaged # None => Disk.config.source = "api"
  <2>1. CASE run.caller = "finalize"
    BY <1>9, <2>1
  <2>2. CASE run.caller = "recovery"
    <3>1. run.journal.operation # "static-restore"
      BY <1>1, <2>2, ProvingFacts
    <3>2. wg.preManaged # None => Disk.config.source = "api"
      BY <1>7, <1>8, <2>2 DEF Adopting
    <3>3. QED
      BY <1>4, <3>1, <3>2
  <2>3. QED
    BY <1>2, <2>1, <2>2
<1>12. Shows(Written(Disk, "journal", self.journal), wg.preManaged)
       /\ ~Returned(Written(Disk, "journal", self.journal), wg.preManaged)
  BY <1>2, <1>4, <1>8, <1>10, <1>11, PhaseShows
<1>13. ASSUME pc' = "cleanConfig", run' = self
       PROVE  Adopting(pc', run', Disk', wg', txn')
  <2>1. CASE run.caller = "recovery"
    BY <1>4, <1>13, <2>1, BareAdopts DEF Unwritten, Filed, Midway, Standing
  <2>2. CASE run.caller = "finalize"
    <3>1. UndoesAdoption(self.journal) /\ run'.request.mode = "api"
      BY <1>4, <1>9, <1>13, <2>2 DEF UndoesAdoption
    <3>2. QED
      BY <1>13, <3>1 DEF Adopting, Unwritten, Filed, Standing
  <2>3. QED
    BY <1>2, <2>1, <2>2
<1>14. self.caller # "apply"
  BY <1>2, <1>4
<1>15. QED
  BY <1>4, <1>5, <1>6, <1>7, <1>12, <1>13, <1>14, JournalAdopts

\* A dry run of the runtime leaves the profiles.
LEMMA ValidationAdopts ==
  ASSUME SInv, Adopted(wg, txn), NEW r \in ValidationResults
  PROVE  /\ r \in ResultType /\ r.source = Disk.config.source /\ (r.ok => r.wg = wg)
         /\ Adopted(r.wg, txn) /\ r.wg.preManaged = wg.preManaged
<1> DEFINE lone == [wg EXCEPT !.candidate = TRUE]
<1>1. r \in ResultType /\ r.source = Disk.config.source /\ (r.ok => r.wg = wg) /\ wg \in Host
  BY HostFacts, ValidationParts DEF Typed
<1>2. Adopted(lone, txn) /\ lone.preManaged = wg.preManaged
  BY <1>1 DEF Adopted, Host
<1>3. \/ r = Result(wg, Disk.config.source, status, TRUE, FALSE)
      \/ r \in Failures({wg, lone}, {Disk.config.source})
  BY DEF ValidationResults
<1> HIDE DEF lone
<1>4. r.wg \in {wg, lone}
  <2>1. CASE r = Result(wg, Disk.config.source, status, TRUE, FALSE)
    BY <2>1 DEF Result
  <2>2. CASE r \in Failures({wg, lone}, {Disk.config.source})
    BY <2>2, FailureParts
  <2>3. QED
    BY <1>3, <2>1, <2>2
<1>5. QED
  BY <1>1, <1>2, <1>4

\* The validation of an adoption before its record exists,
LEMMA ValidateAdopts ==
  ASSUME Ground, Validate
  PROVE  AdoptInv'
<1> DEFINE self == [run EXCEPT !.caller = "apply"]
<1>1. SInv
  BY DEF Ground
<1>2. /\ pc = "validate" /\ UNCHANGED <<timer, txn>>
      /\ Calls(ValidationResults, Go("prepare", self), End("refused"))
  BY <1>1, HostFacts, ValidateLands
<1>3. SUFFICES ASSUME txn.adopts PROVE AdoptInv'
  BY <1>2 DEF AdoptInv
<1>4. pc \notin Midway \cup Before
  BY <1>2 DEF Midway, Before
<1>5. Adopted(wg, txn) /\ Adopting(pc, run, Disk, wg, txn) /\ run \in RunType
  BY <1>3, <1>4, CalmFacts
<1>6. \A r \in ValidationResults :
        /\ r \in ResultType /\ r.source = Disk.config.source
        /\ Adopted(r.wg, txn) /\ r.wg.preManaged = wg.preManaged
  BY <1>1, <1>5, ValidationAdopts
<1>7. /\ UndoesAdoption(run.journal) /\ run.request.mode = "api"
      /\ wg.preManaged = None /\ wg.profile = txn.profile
  BY <1>2, <1>5 DEF Adopting
<1>8. ASSUME NEW r \in ValidationResults, r.ok, CallEnds(r), Go("prepare", self)
      PROVE  Adopting(pc', run', Disk', wg', txn')
  <2>1. wg' = wg
    BY <1>1, <1>5, <1>8, ValidationAdopts DEF CallEnds
  <2>2. pc' = "prepare" /\ run'.caller = "apply" /\ run'.request = run.request /\ run'.journal = run.journal
    BY <1>5, <1>8 DEF Go, RunType
  <2>3. QED
    BY <1>2, <1>7, <2>1, <2>2 DEF Adopting, Standing
<1>9. End("refused") => Adopting(pc', run', Disk', wg', txn')
  BY IdleAdopts DEF End
<1> HIDE DEF Calls, self
<1>10. QED
  BY <1>2, <1>3, <1>4, <1>6, <1>8, <1>9, CallsAdopt

\* and the one after its new key.
LEMMA RevalidateAdopts ==
  ASSUME Ground, Revalidate
  PROVE  AdoptInv'
<1> DEFINE next == IF Activates THEN "activate" ELSE "markActivated"
<1>1. SInv
  BY DEF Ground
<1>2. /\ pc = "revalidate" /\ UNCHANGED <<timer, txn>>
      /\ Calls(ValidationResults, Go(next, run), Raise(run))
  BY <1>1, HostFacts, RevalidateLands
<1>3. SUFFICES ASSUME txn.adopts PROVE AdoptInv'
  BY <1>2 DEF AdoptInv
<1>4. pc \notin Midway \cup Before /\ run.caller = "apply"
  BY <1>1, <1>2, FilingFacts DEF Midway, Before
<1>5. /\ Adopted(wg, txn) /\ Adopting(pc, run, Disk, wg, txn) /\ run \in RunType
      /\ Shows(Disk, wg.preManaged) /\ ~txn.kept
  BY <1>3, <1>4, CalmFacts
<1>6. \A r \in ValidationResults :
        /\ r \in ResultType /\ r.source = Disk.config.source
        /\ Adopted(r.wg, txn) /\ r.wg.preManaged = wg.preManaged
  BY <1>1, <1>5, ValidationAdopts
<1>7. /\ UndoesAdoption(run.journal) /\ run.request.mode = "api"
      /\ wg.preManaged = None /\ wg.profile = txn.profile
  BY <1>2, <1>4, <1>5 DEF Adopting, Filed
<1>8. next = "activate"
  BY <1>5, <1>7 DEF Shows, Activates
<1>9. ASSUME NEW r \in ValidationResults, r.ok, CallEnds(r), Go(next, run)
      PROVE  Adopting(pc', run', Disk', wg', txn')
  <2>1. wg' = wg /\ pc' = "activate" /\ run' = run
    BY <1>1, <1>5, <1>8, <1>9, ValidationAdopts DEF CallEnds, Go
  <2>2. QED
    BY <1>2, <1>7, <2>1 DEF Adopting, Standing
<1>10. Raise(run) => Adopting(pc', run', Disk', wg', txn')
  BY <1>5, <1>7, RaiseAdopts
<1> HIDE DEF Calls, next
<1>11. QED
  BY <1>2, <1>3, <1>4, <1>6, <1>9, <1>10, CallsAdopt

\* What follows a commit: the state of the provider is reset,
LEMMA ResetAdopts ==
  ASSUME Ground, ResetApiState
  PROVE  AdoptInv'
<1>1. SInv
  BY DEF Ground
<1>2. /\ pc = "reset" /\ UNCHANGED <<timer, txn>>
      /\ \/ UNCHANGED <<images, status, faults, wg>> /\ Go("removeKey", run)
         \/ Calls(ResetResults, Go("removeKey", run), Raise(run))
  BY <1>1, HostFacts, ResetLands
<1>3. SUFFICES ASSUME txn.adopts PROVE AdoptInv'
  BY <1>2 DEF AdoptInv
<1>4. pc \notin Midway \cup Before /\ run.caller = "post"
  BY <1>1, <1>2, PostFacts DEF Midway, Before, PostSteps
<1>5. /\ Adopted(wg, txn) /\ Adopting(pc, run, Disk, wg, txn) /\ run \in RunType
      /\ Shut /\ Windows = {} /\ ~txn.kept /\ TInv /\ Disk \in Directory
  BY <1>3, <1>4, CalmFacts
<1>6. UndoesAdoption(run.journal) /\ run.request.mode = "api"
  BY <1>4, <1>5 DEF Adopting
<1>7. Go("removeKey", run) => Adopting(pc', run', Disk', wg', txn')
  BY <1>4, <1>6 DEF Go, Adopting, Unwritten, Filed, Standing
<1>8. CASE UNCHANGED <<images, status, faults, wg>> /\ Go("removeKey", run)
  <2>1. Shaped({Disk}) /\ {Disk} \in SUBSET Directory /\ wg'.preManaged = wg.preManaged
    BY <1>1, <1>5, <1>8, StillShaped
  <2>2. Adopted(wg', txn')
    BY <1>2, <1>5, <1>8
  <2>3. \A e \in {Disk} : \/ SameFiles(e, Disk)
                          \/ Shows(e, wg.preManaged) /\ ~Returned(e, wg.preManaged)
    BY DEF SameFiles
  <2>4. QED
    BY <1>3, <1>4, <1>7, <1>8, <2>1, <2>2, <2>3, CalmAdopts
<1>9. CASE Calls(ResetResults, Go("removeKey", run), Raise(run))
  <2>1. ResetResults \subseteq ResultType
    BY <1>5, ResetTypes DEF TInv
  <2>2. \A r \in ResetResults : r.source = Disk.config.source /\ r.wg = wg
    BY DEF ResetResults, Failures, Result
  <2>3. \A r \in ResetResults :
          /\ r \in ResultType /\ r.source = Disk.config.source
          /\ Adopted(r.wg, txn) /\ r.wg.preManaged = wg.preManaged
    BY <1>5, <2>1, <2>2
  <2>4. Raise(run) => Adopting(pc', run', Disk', wg', txn')
    BY <1>4, <1>5, RaiseAdopts
  <2> HIDE DEF Calls
  <2>5. QED
    BY <1>2, <1>3, <1>4, <1>7, <1>9, <2>3, <2>4, CallsAdopt
<1>10. QED
  BY <1>2, <1>8, <1>9

\* no key is removed after an adoption,
LEMMA RemoveKeyAdopts ==
  ASSUME Ground, RemoveKey
  PROVE  AdoptInv'
<1> DEFINE removes == run.request.mode = "static" /\ run.request.remove
<1>1. SInv /\ txn \in TxnType
  BY Hosted, HostFacts DEF Ground
<1>2. /\ pc = "removeKey" /\ UNCHANGED <<wg, timer>>
      /\ txn' = IF removes THEN [txn EXCEPT !.after.key = None, !.removes = TRUE] ELSE txn
      /\ \/ /\ IF removes THEN Gone("credential") ELSE UNCHANGED <<images, status, faults>>
            /\ pc' = "enable" /\ run' = run
         \/ removes /\ NotDone(run, RemoveLeaves(Disk, "credential"))
  BY <1>1, HostFacts, RemoveKeyLands
<1>3. SUFFICES ASSUME txn.adopts PROVE AdoptInv'
  BY <1>1, <1>2 DEF AdoptInv, TxnType
<1>4. pc \notin Midway \cup Before /\ run.caller = "post"
  BY <1>1, <1>2, PostFacts DEF Midway, Before, PostSteps
<1>5. /\ Adopted(wg, txn) /\ Adopting(pc, run, Disk, wg, txn) /\ Shut /\ Windows = {} /\ Disk \in Directory
  BY <1>3, <1>4, CalmFacts
<1>6. UndoesAdoption(run.journal) /\ run.request.mode = "api"
  BY <1>4, <1>5 DEF Adopting
<1>7. UNCHANGED <<images, wg, txn>> /\ pc' = "enable" /\ run' = run
  BY <1>2, <1>6
<1>8. Adopting(pc', run', Disk', wg', txn')
  BY <1>4, <1>6, <1>7 DEF Adopting, Unwritten, Filed, Standing
<1>9. Shaped({Disk}) /\ {Disk} \in SUBSET Directory
  BY <1>1, <1>5, <1>7, StillShaped
<1>10. Adopted(wg', txn') /\ wg'.preManaged = wg.preManaged
  BY <1>5, <1>7
<1>11. \A e \in {Disk} : \/ SameFiles(e, Disk)
                         \/ Shows(e, wg.preManaged) /\ ~Returned(e, wg.preManaged)
  BY DEF SameFiles
<1>12. QED
  BY <1>3, <1>4, <1>8, <1>9, <1>10, <1>11, CalmAdopts

\* and the timer is enabled.
LEMMA EnableAdopts ==
  ASSUME Ground, EnableTimer
  PROVE  AdoptInv'
<1>1. SInv /\ Shut /\ Windows = {}
  BY DEF Ground
<1>2. /\ pc = "enable" /\ UNCHANGED <<wg, txn>>
      /\ \/ UNCHANGED <<images, status>> /\ End("done")
         \/ UNCHANGED <<images, status>> /\ End("committed")
         \/ Spend("kill") /\ Killed(images, status)
  BY DEF EnableTimer, Skip
<1>3. images \in Seq(Directory) /\ Len(images) = 1
  BY <1>1, <1>2, PostFacts, HostFacts DEF PostSteps, TInv, Typed
<1>4. Killed(images, status) => End("killed") /\ (images' = images \/ Lost({}))
  BY <1>3, KilledImages
<1>5. Shaped({Disk}) /\ pc' = "idle" /\ run' = NoRun
  BY <1>1, <1>2, <1>4, StillShaped DEF End
<1>6. SUFFICES ASSUME txn.adopts PROVE AdoptInv'
  BY <1>2 DEF AdoptInv
<1>7. pc \notin Midway \cup Before
  BY <1>2 DEF Midway, Before
<1>8. Adopted(wg, txn) /\ Disk \in Directory
  BY <1>6, <1>7, CalmFacts
<1>9. Adopted(wg', txn') /\ wg'.preManaged = wg.preManaged /\ {Disk} \in SUBSET Directory
  BY <1>2, <1>8
<1>10. Adopting(pc', run', Disk', wg', txn')
  BY <1>5, IdleAdopts
<1>11. \A e \in {Disk} : \/ SameFiles(e, Disk)
                         \/ Shows(e, wg.preManaged) /\ ~Returned(e, wg.preManaged)
  BY DEF SameFiles
<1>12. QED
  BY <1>5, <1>6, <1>7, <1>9, <1>10, <1>11, CalmAdopts

\* A file of an adoption is written: the sources stay.
LEMMA FileAdopts ==
  ASSUME Ground, txn.adopts, UNCHANGED <<wg, txn>>,
         pc \in {"snapshotConfig", "snapshotKey", "writeConfig", "writeKey"},
         NEW leaves \in SUBSET Directory, Disk \in leaves, NEW after \in leaves,
         \A e \in leaves : /\ e.journal = Disk.journal /\ Former(e).source = Former(Disk).source
                           /\ e.config.source = Disk.config.source,
         \/ Completed(after) /\ run' = run /\ pc' \in Unwritten \cup Filed
         \/ NotDone(run, leaves)
  PROVE  AdoptInv'
<1>1. SInv
  BY DEF Ground
<1>2. run.caller = "apply" /\ pc \in Unwritten \cup Filed /\ pc \notin Midway \cup Before
  BY <1>1, FilingFacts DEF Unwritten, Filed, Midway, Before
<1>3. /\ Adopting(pc, run, Disk, wg, txn) /\ run \in RunType
      /\ Shows(Disk, wg.preManaged) /\ ~Returned(Disk, wg.preManaged)
  BY <1>2, CalmFacts
<1>4. /\ UndoesAdoption(run.journal) /\ run.request.mode = "api"
      /\ wg.preManaged = None /\ wg.profile = txn.profile
  BY <1>2, <1>3 DEF Adopting
<1>5. \A e \in leaves : Shows(e, wg.preManaged) /\ ~Returned(e, wg.preManaged)
  BY <1>3, ShowsAlike
<1>6. run' = run /\ pc' \in Unwritten \cup Filed => Adopting(pc', run', Disk', wg', txn')
  BY <1>2, <1>4 DEF Adopting, Unwritten, Filed, Standing
<1>7. QED
  BY <1>2, <1>3, <1>4, <1>5, <1>6, StoreAdopts

\* The configuration is kept,
LEMMA SnapshotConfigAdopts ==
  ASSUME Ground, SnapshotConfig
  PROVE  AdoptInv'
<1> DEFINE leaves == SnapshotLeaves(Disk, "config", "configPrevious")
           after == Snapshotted(Disk, "config", "configPrevious")
           j == run.journal
<1>1. SInv
  BY DEF Ground
<1>2. /\ pc = "snapshotConfig" /\ UNCHANGED <<wg, timer, txn>>
      /\ \/ /\ Completed(after)
            /\ pc' = IF j.operation = "static-restore" THEN "markActivating"
                     ELSE IF j.keyChanged /\ j.hadKey THEN "snapshotKey" ELSE "writeConfig"
            /\ run' = run
         \/ NotDone(run, leaves)
  BY <1>1, HostFacts, SnapshotConfigLands
<1>3. Disk \in Directory /\ Disk.configPrevious = None
  BY <1>1, <1>2, FilingFacts
<1>4. leaves \in SUBSET Directory /\ Disk \in leaves /\ after \in leaves
  BY <1>3, SnapshotTypes DEF SnapshotLeaves
<1>5. \A e \in leaves : /\ e.journal = Disk.journal /\ e.config = Disk.config
                        /\ e.configPrevious \in {None, Disk.config}
  BY <1>3, SnapshotForms DEF StagesFrom, SameFiles
<1> HIDE DEF leaves, after
<1>6. \A e \in leaves : Former(e) = Former(Disk)
  BY <1>3, <1>5 DEF Former
<1>7. SUFFICES ASSUME txn.adopts PROVE AdoptInv'
  BY <1>2 DEF AdoptInv
<1>8. pc' \in {"markActivating", "snapshotKey", "writeConfig"} => pc' \in Unwritten
  BY DEF Unwritten
<1>9. QED
  BY <1>2, <1>4, <1>5, <1>6, <1>7, <1>8, FileAdopts

\* so is the key,
LEMMA SnapshotKeyAdopts ==
  ASSUME Ground, SnapshotKey
  PROVE  AdoptInv'
<1> DEFINE leaves == SnapshotLeaves(Disk, "credential", "credentialPrevious")
           after == Snapshotted(Disk, "credential", "credentialPrevious")
<1>1. SInv
  BY DEF Ground
<1>2. /\ pc = "snapshotKey" /\ UNCHANGED <<wg, timer, txn>>
      /\ \/ Completed(after) /\ pc' = "writeConfig" /\ run' = run
         \/ NotDone(run, leaves)
  BY <1>1, HostFacts, SnapshotKeyLands
<1>3. Disk \in Directory /\ Disk.credentialPrevious = None
  BY <1>1, <1>2, FilingFacts
<1>4. leaves \in SUBSET Directory /\ Disk \in leaves /\ after \in leaves
  BY <1>3, SnapshotTypes DEF SnapshotLeaves
<1>5. \A e \in leaves : /\ e.journal = Disk.journal /\ e.config = Disk.config
                        /\ e.configPrevious = Disk.configPrevious
  BY <1>3, SnapshotForms DEF StagesFrom, SameFiles
<1> HIDE DEF leaves, after
<1>6. \A e \in leaves : Former(e) = Former(Disk)
  BY <1>5 DEF Former
<1>7. SUFFICES ASSUME txn.adopts PROVE AdoptInv'
  BY <1>2 DEF AdoptInv
<1>8. "writeConfig" \in Unwritten
  BY DEF Unwritten
<1>9. QED
  BY <1>2, <1>4, <1>5, <1>6, <1>7, <1>8, FileAdopts

\* the new settings are written over the source of before,
LEMMA WriteConfigAdopts ==
  ASSUME Ground, WriteConfig
  PROVE  AdoptInv'
<1> DEFINE leaves == WriteLeaves(Disk, "config", Asks(run.request))
           after == Written(Disk, "config", Asks(run.request))
<1>1. SInv
  BY DEF Ground
<1>2. /\ pc = "writeConfig" /\ UNCHANGED <<wg, timer, txn>>
      /\ Asks(run.request) \in Config
      /\ \/ /\ Completed(after) /\ run' = run
            /\ pc' = IF run.request.mode = "api" THEN "markConfig" ELSE "markActivated"
         \/ NotDone(run, leaves)
  BY <1>1, HostFacts, WriteConfigLands
<1>3. Disk \in Directory /\ Disk.configPrevious # None /\ run.caller = "apply"
  BY <1>1, <1>2, FilingFacts
<1>4. leaves \in SUBSET Directory /\ Disk \in leaves /\ after \in leaves
  BY <1>2, <1>3, WriteTypes DEF WriteLeaves, Entry
<1>5. \A e \in leaves : /\ e.journal = Disk.journal /\ e.config \in {Disk.config, Asks(run.request)}
                        /\ e.configPrevious = Disk.configPrevious
  BY <1>2, <1>3, ConfigForms DEF StagesFrom, SameFiles
<1> HIDE DEF leaves, after
<1>6. \A e \in leaves : Former(e) = Former(Disk)
  BY <1>3, <1>5 DEF Former
<1>7. SUFFICES ASSUME txn.adopts PROVE AdoptInv'
  BY <1>2 DEF AdoptInv
<1>8. run.request.mode = "api"
  <2>1. pc \notin Midway \cup Before
    BY <1>2 DEF Midway, Before
  <2>2. QED
    BY <1>3, <1>7, <2>1, CalmFacts DEF Adopting
<1>9. Asks(run.request).source = Disk.config.source
  BY <1>3, <1>8 DEF Asks, Directory, Config
<1>10. "markConfig" \in Filed
  BY DEF Filed
<1>11. QED
  BY <1>2, <1>4, <1>5, <1>6, <1>7, <1>8, <1>9, <1>10, FileAdopts

\* and the new key.
LEMMA WriteKeyAdopts ==
  ASSUME Ground, WriteKey
  PROVE  AdoptInv'
<1> DEFINE leaves == WriteLeaves(Disk, "credential", run.supplied)
           after == Written(Disk, "credential", run.supplied)
<1>1. SInv
  BY DEF Ground
<1>2. /\ pc = "writeKey" /\ UNCHANGED <<wg, timer, txn>>
      /\ \/ Completed(after) /\ pc' = "markKey" /\ run' = run
         \/ NotDone(run, leaves)
  BY <1>1, HostFacts, WriteKeyLands
<1>3. /\ Disk \in Directory /\ run.caller = "apply" /\ TInv
      /\ (Disk.credentialPrevious # None <=> KeepsKey(run.journal))
  BY <1>1, <1>2, HostFacts, FilingFacts
<1>4. run.journal.keyChanged /\ run.journal.operation \in ApiOperations
  BY <1>2, <1>3 DEF TInv, Control, JournalAt
<1>5. leaves \in SUBSET Directory /\ Disk \in leaves /\ after \in leaves
  BY <1>2, <1>3, <1>4, RunFacts, FilingFacts, <1>1, WriteTypes DEF WriteLeaves, Entry
<1>6. \A e \in leaves : /\ e.journal = Disk.journal /\ e.config = Disk.config
                        /\ e.configPrevious = Disk.configPrevious
  BY <1>3, KeyForms DEF StagesFrom, SameFiles
<1> HIDE DEF leaves, after
<1>7. \A e \in leaves : Former(e) = Former(Disk)
  BY <1>6 DEF Former
<1>8. SUFFICES ASSUME txn.adopts PROVE AdoptInv'
  BY <1>2 DEF AdoptInv
<1>9. "markKey" \in Filed
  BY DEF Filed
<1>10. QED
  BY <1>2, <1>5, <1>6, <1>7, <1>8, <1>9, FileAdopts

\* What the runtime's adoption may leave: the source is flipped last.
LEMMA AdoptionParts ==
  ASSUME SInv, Adopted(wg, txn), wg.preManaged = None, wg.profile = txn.profile,
         NEW r \in ActivationResults
  PROVE  /\ r \in ResultType /\ Adopted(r.wg, txn)
         /\ r.source = "api" => r.wg.preManaged # None
         /\ r.source \in {"static", "api"}
<1> DEFINE adopted == [wg EXCEPT !.preManaged = wg.profile]
           hosts == {wg, adopted}
           lone == {[h EXCEPT !.candidate = TRUE] : h \in hosts}
           Fine(h) == Adopted(h, txn)
<1>1. wg \in Host /\ r \in ResultType /\ wg.profile # None
  BY HostFacts, ActivationTypes DEF Typed, Adopted
<1>2. \/ r = Result(adopted, "api", status, TRUE, FALSE)
      \/ r \in Failures(hosts \cup lone, {"static"})
      \/ r \in Failures({adopted}, {"api"})
  BY <1>1 DEF ActivationResults
<1>3. Fine(wg)
  OBVIOUS
<1>4. Fine(adopted) /\ adopted.preManaged # None
  BY <1>1 DEF Adopted, Host
<1>5. [wg EXCEPT !.candidate = TRUE].preManaged = wg.preManaged
      /\ Fine([wg EXCEPT !.candidate = TRUE])
  BY <1>1 DEF Adopted, Host
<1>6. Fine([adopted EXCEPT !.candidate = TRUE])
  BY <1>1 DEF Adopted, Host
<1> HIDE DEF Fine, adopted
<1>7. \A h \in hosts \cup lone : Fine(h)
  BY <1>3, <1>4, <1>5, <1>6
<1>8. Fine(r.wg) /\ (r.source = "api" => r.wg.preManaged # None)
  <2>1. CASE r = Result(adopted, "api", status, TRUE, FALSE)
    BY <1>4, <2>1 DEF Result
  <2>2. CASE r \in Failures(hosts \cup lone, {"static"})
    <3>1. r.wg \in hosts \cup lone /\ r.source \in {"static"}
      BY <2>2, FailureParts
    <3>2. QED
      BY <1>7, <3>1
  <2>3. CASE r \in Failures({adopted}, {"api"})
    BY <1>4, <2>3, FailureParts
  <2>4. QED
    BY <1>2, <2>1, <2>2, <2>3
<1>9. QED
  BY <1>1, <1>8 DEF Fine, ResultType

\* The adoption: it may be cut with the snapshot there and the source still static.
LEMMA ActivateAdopts ==
  ASSUME Ground, Activate
  PROVE  AdoptInv'
<1>1. SInv
  BY DEF Ground
<1>2. /\ pc = "activate" /\ UNCHANGED <<timer, txn>>
      /\ Calls(ActivationResults, Go("markActivated", run), Raise(run))
  BY <1>1, HostFacts, ActivateLands
<1>3. /\ TInv /\ run.caller = "apply" /\ Disk.journal = run.journal /\ Disk \in Directory
      /\ Open(Disk) /\ Disk.configPrevious # None /\ Img = {Disk} /\ Typed /\ run \in RunType
  BY <1>1, <1>2, HostFacts, FilingFacts
<1>4. run.journal.phase \in {"config", "credential"}
  BY <1>2, <1>3 DEF TInv, Control, JournalAt
<1>5. SUFFICES ASSUME txn.adopts PROVE AdoptInv'
  BY <1>2 DEF AdoptInv
<1>6. pc \notin Midway \cup Before /\ pc \in Filed
  BY <1>2 DEF Midway, Before, Filed
<1>7. /\ Adopted(wg, txn) /\ Adopting(pc, run, Disk, wg, txn) /\ Shut /\ Windows = {} /\ ~txn.kept
      /\ Shows(Disk, wg.preManaged)
  BY <1>5, <1>6, CalmFacts
<1>8. /\ UndoesAdoption(run.journal) /\ run.request.mode = "api"
      /\ wg.preManaged = None /\ wg.profile = txn.profile
  BY <1>3, <1>6, <1>7 DEF Adopting
<1>9. PICK r \in ActivationResults : \/ CallEnds(r) /\ (IF r.ok THEN Go("markActivated", run)
                                                               ELSE Raise(run))
                                     \/ CallCut(r)
  BY <1>2 DEF Calls
<1>10. /\ r \in ResultType /\ Adopted(r.wg, txn) /\ r.source \in {"static", "api"} /\ r.ok \in BOOLEAN
       /\ r.source = "api" => r.wg.preManaged # None
  BY <1>1, <1>7, <1>8, AdoptionParts DEF ResultType
<1>11. wg' = r.wg
  BY <1>9 DEF CallEnds, CallCut
<1>12. Adopting(pc', run', Disk', wg', txn')
  <2>1. CASE CallCut(r)
    BY <2>1, IdleAdopts DEF CallCut, End
  <2>2. CASE Go("markActivated", run)
    <3>1. pc' = "markActivated" /\ run' = run
      BY <2>2 DEF Go
    <3>2. QED
      BY <1>3, <1>8, <3>1 DEF Adopting, Unwritten, Filed
  <2>3. CASE Raise(run)
    BY <1>3, <1>7, <1>8, <2>3, RaiseAdopts
  <2>4. QED
    BY <1>9, <2>1, <2>2, <2>3
<1> DEFINE e == Sourced(r.source)
<1>13. /\ e \in Directory /\ e.journal = Disk.journal /\ e.configPrevious = Disk.configPrevious
       /\ e.config.source = r.source /\ (Disk.config.source = r.source => e = Disk)
  BY <1>1, <1>10, SourcedForms
<1>14. Img' \subseteq {Disk, e}
  <2>1. Shaped({Disk, e}) /\ {Disk, e} \in SUBSET Directory
    BY <1>3, <1>7, <1>9, <1>10, <1>13, CallShaped
  <2>2. QED
    BY <1>3, <2>1, ShapedImages
<1> HIDE DEF e
<1>15. Disk.config.source = "static" /\ Former(Disk).source = "static" /\ Former(e) = Former(Disk)
  BY <1>3, <1>7, <1>8, <1>13 DEF Shows, Former
<1>16. ASSUME NEW d \in {Disk, e}
       PROVE  /\ Open(d) /\ ~Underway(d) /\ UndoesAdoption(d.journal) /\ d.journal.phase # "prepared"
              /\ ~MayStillCommit(d) /\ Former(d).source = "static"
  <2>1. d.journal = run.journal
    BY <1>3, <1>13
  <2>2. Open(d) /\ ~MayStillCommit(d)
    BY <1>3, <1>4, <2>1 DEF Open, MayStillCommit
  <2>3. ~Underway(d)
    BY <1>8, <2>1 DEF Underway, UndoesAdoption
  <2>4. QED
    BY <1>4, <1>8, <1>15, <2>1, <2>2, <2>3
<1>17. ASSUME NEW d \in Img'
       PROVE  Shows(d, wg'.preManaged) /\ ~Returned(d, wg'.preManaged)
  <2>1. d \in {Disk, e}
    BY <1>14
  <2>2. wg'.preManaged = None => d.config.source = "static"
    BY <1>10, <1>11, <1>13, <1>15, <2>1
  <2>3. QED
    BY <1>16, <2>1, <2>2 DEF Shows, Returned
<1>18. Pictured'
  BY <1>17 DEF Pictured, Shows, Returned, MayStillCommit, Open, Former, Underway
<1>19. Adopted(wg', txn')
  BY <1>2, <1>10, <1>11
<1>20. QED
  BY <1>12, <1>18, <1>19, AdoptedOn

\* The first record of an adoption is written: it has no snapshot yet.
LEMMA PrepareAdopts ==
  ASSUME Ground, Prepare
  PROVE  AdoptInv'
<1> DEFINE self == Phased("prepared")
           j == self.journal
           leaves == WriteLeaves(Disk, "journal", j)
           after == Written(Disk, "journal", j)
<1>1. pc = "prepare" /\ Mark(pc, "prepared", "snapshotConfig") /\ SInv
  BY DEF Prepare, Mark, Ground
<1>2. /\ TInv /\ run.caller = "apply" /\ run \in RunType /\ run.journal # None
      /\ run.journal.phase = "prepared" /\ Disk \in Directory
  BY <1>1, HostFacts, RunFacts DEF TInv, Control, CallerAt, JournalAt, ApplySteps
<1>3. "prepared" \in Phases /\ "prepared" \in OperationPhases(run.journal.operation)
      /\ (run.journal.proof <=> "prepared" \in ProofPhases)
  BY <1>2, Unproved DEF Phases, OperationPhases, ProofPhases
<1>4. /\ self \in RunType /\ self.caller = run.caller /\ self.request = run.request
      /\ j \in Journal /\ j # None /\ j.operation = run.journal.operation
      /\ j.hadPreManaged = run.journal.hadPreManaged
  BY <1>2, <1>3, PhasedKeeps, PhasedAt
<1>5. /\ UNCHANGED <<wg, timer, txn>>
      /\ \/ Completed(after) /\ pc' = "snapshotConfig" /\ run' = self
         \/ NotDone(self, leaves)
  BY <1>1, <1>2, <1>3, MarkLands
<1>6. SetupArtifactsClear(Disk)
  BY <1>1 DEF SInv, RunInv, Runs, Starting
<1>7. SUFFICES ASSUME txn.adopts PROVE AdoptInv'
  BY <1>5 DEF AdoptInv
<1>8. pc \notin Midway \cup Before /\ pc \in Unwritten
  BY <1>1 DEF Midway, Before, Unwritten
<1>9. Adopting(pc, run, Disk, wg, txn) /\ Shows(Disk, wg.preManaged)
  BY <1>7, <1>8, CalmFacts
<1>10. /\ UndoesAdoption(run.journal) /\ run.request.mode = "api"
       /\ wg.preManaged = None /\ wg.profile = txn.profile
  BY <1>2, <1>8, <1>9 DEF Adopting
<1>11. UndoesAdoption(self.journal)
  BY <1>4, <1>10 DEF UndoesAdoption
<1> HIDE DEF self
<1>12. Shows(after, wg.preManaged) /\ ~Returned(after, wg.preManaged)
  <2>1. /\ after.journal = j /\ after.config = Disk.config
        /\ after.configPrevious = Disk.configPrevious
    BY <1>2 DEF Written, Directory
  <2>2. Disk.config.source = "static" /\ Disk.configPrevious = None
    BY <1>6, <1>9, <1>10 DEF Shows, SetupArtifactsClear
  <2>3. Former(after).source = "static"
    BY <2>1, <2>2 DEF Former
  <2>4. ~Underway(after)
    BY <1>11, <2>1 DEF Underway, UndoesAdoption
  <2>5. QED
    BY <1>10, <2>1, <2>2, <2>3, <2>4 DEF Shows, Returned
<1>13. pc' = "snapshotConfig" /\ run' = self => Adopting(pc', run', Disk', wg', txn')
  <2>1. SUFFICES ASSUME pc' = "snapshotConfig", run' = self
                 PROVE  Adopting(pc', run', Disk', wg', txn')
    OBVIOUS
  <2>2. run'.caller = "apply" /\ UndoesAdoption(run'.journal) /\ run'.request.mode = "api"
    BY <1>2, <1>4, <1>10, <1>11, <2>1
  <2>3. QED
    BY <1>5, <1>10, <2>1, <2>2 DEF Adopting, Standing
<1>14. QED
  BY <1>4, <1>5, <1>7, <1>8, <1>11, <1>12, <1>13, JournalAdopts

\* An adoption begins only where the source is static in every image.
LEMMA BegunStatic ==
  ASSUME SInv, TxnInv, pc = "ready", Disk.journal = None, Disk.config.source = "static",
         wg.preManaged = None
  PROVE  \A d \in Img : Shows(d, None)
<1>1. /\ Disk \in Img /\ (\A d \in Img : d \in Directory)
  BY HostFacts
<1>2. \A d \in Img : Plain(d, Triple(images[1]), txn)
  BY DEF TxnInv, Cleared
<1>3. \A d \in Img : Triple(d).source = Triple(images[1]).source
  <2>1. Keyless(Triple(images[1])).source = Triple(images[1]).source
    BY DEF Keyless, Triple
  <2>2. QED
    BY <1>2, <2>1 DEF Plain
<1>4. \A d \in Img : d.config.source = "static"
  BY <1>1, <1>3 DEF Triple
<1>5. \A d \in Img : ~Underway(d)
  BY DEF SInv, RunInv, Runs, Fits, Refusing
<1>6. ASSUME NEW d \in Img, Open(d) PROVE Former(d).source = "static"
  <2>1. Recovered(d).source = Former(d).source
    BY <1>1, <1>6, RecoveredIs
  <2>2. Triple(d).source = "static"
    BY <1>4 DEF Triple
  <2>3. Recovered(d) = Triple(d)
    BY <1>2 DEF Plain
  <2>4. QED
    BY <2>1, <2>2, <2>3
<1>7. QED
  BY <1>4, <1>5, <1>6 DEF Shows

\* A transaction begins, which may be an adoption.
LEMMA BeginAdopts ==
  ASSUME Ground, Begin
  PROVE  AdoptInv'
<1> DEFINE r == run.request
<1>1. SInv /\ TxnInv /\ Shut /\ Windows = {}
  BY DEF Ground
<1>2. /\ pc = "ready" /\ UNCHANGED <<images, wg, status, timer, faults>>
      /\ \/ /\ txn' = txn
            /\ \/ End("blocked") \/ End("refused")
               \/ ~SetupArtifactsClear(Disk) /\ End("stuck")
         \/ /\ SetupArtifactsClear(Disk) /\ ~wg.candidate /\ wg.switching = {} /\ Admitted(r)
            /\ txn' = Started(r)
            /\ IF r.mode = "api" THEN Go("validate", Opened(r))
                                 ELSE Go("prepare", OpenedApply(r))
  BY <1>1, HostFacts, BeginLands
<1>3. TInv /\ run.caller = "none" /\ r \in Request /\ Disk \in Directory /\ wg \in Host
  BY <1>1, <1>2, HostFacts, RunFacts DEF TInv, Control, CallerAt, Typed
<1>4. CASE txn' = txn /\ (End("blocked") \/ End("refused") \/ End("stuck"))
  <2>1. SUFFICES ASSUME txn.adopts PROVE AdoptInv'
    BY <1>4 DEF AdoptInv
  <2>2. pc \notin Midway \cup Before
    BY <1>2 DEF Midway, Before
  <2>3. Adopted(wg, txn)
    BY <2>1, <2>2, CalmFacts
  <2>4. Adopting(pc', run', Disk', wg', txn')
    BY <1>4, IdleAdopts DEF End
  <2>5. Shaped({Disk}) /\ {Disk} \in SUBSET Directory
    BY <1>1, <1>2, <1>3, StillShaped
  <2>6. Adopted(wg', txn') /\ wg'.preManaged = wg.preManaged
    BY <1>2, <1>4, <2>3
  <2>7. \A e \in {Disk} : \/ SameFiles(e, Disk)
                          \/ Shows(e, wg.preManaged) /\ ~Returned(e, wg.preManaged)
    BY DEF SameFiles
  <2>8. QED
    BY <2>1, <2>2, <2>4, <2>5, <2>6, <2>7, CalmAdopts
<1>5. CASE /\ SetupArtifactsClear(Disk) /\ wg.switching = {} /\ txn' = Started(r)
           /\ IF r.mode = "api" THEN Go("validate", Opened(r)) ELSE Go("prepare", OpenedApply(r))
  <2>1. SUFFICES ASSUME txn'.adopts PROVE AdoptInv'
    BY DEF AdoptInv
  <2>2. UndoesAdoption(NewJournal(r))
    BY <1>5, <2>1 DEF Started
  <2>3. /\ r.mode = "api" /\ Disk.config.source # "api" /\ wg.profile # None /\ wg.preManaged = None
    <3>1. NewJournal(r).operation = "adopt" /\ ~NewJournal(r).hadPreManaged
      BY <2>2 DEF UndoesAdoption
    <3>2. r.mode \in {"api", "static"}
      BY <1>3 DEF Request
    <3>3. wg.preManaged = None
      BY <3>1 DEF NewJournal
    <3>4. r.mode = "api" /\ Disk.config.source # "api" /\ wg.profile # None
      BY <3>1, <3>2 DEF NewJournal
    <3>5. QED
      BY <3>3, <3>4
  <2>4. Disk.config.source = "static"
    BY <1>3, <2>3 DEF Directory, Config
  <2>5. /\ txn'.before.source = "static" /\ txn'.kept = FALSE /\ txn'.profile = wg.profile
    BY <1>5, <2>4 DEF Started, Triple
  <2>6. Adopted(wg', txn')
    BY <1>2, <1>5, <2>3, <2>5 DEF Adopted, Home
  <2>7. Pictured'
    <3>1. \A d \in Img : Shows(d, None)
      BY <1>1, <1>2, <1>5, <2>3, <2>4, BegunStatic DEF SetupArtifactsClear
    <3>2. Img' = Img /\ wg'.preManaged = None
      BY <1>2, <2>3 DEF Img
    <3>3. QED
      BY <3>1, <3>2 DEF Pictured, Shows, Returned, MayStillCommit, Open, Former, Underway
  <2>8. /\ pc' = "validate" /\ run'.caller = "none" /\ run'.request = r /\ run'.journal = NewJournal(r)
    BY <1>3, <1>5, <2>3, OpenedTypes DEF Go
  <2>9. Adopting(pc', run', Disk', wg', txn')
    BY <1>2, <2>2, <2>3, <2>5, <2>8 DEF Adopting, Standing
  <2>10. QED
    BY <2>6, <2>7, <2>9, AdoptedOn
<1>6. QED
  BY <1>2, <1>4, <1>5

\* Every step keeps it,
LEMMA StepAdopts ==
  ASSUME Ground, Next
  PROVE  AdoptInv'
<1>1. CASE Recovery
  BY <1>1, DiscardAdopts, ReconcileAdopts, CleanupCandidateAdopts, ClassifyAdopts DEF Recovery
<1>2. CASE RollingBack
  BY <1>2, UnadoptAdopts, RestoreConfigAdopts, RestoreKeyAdopts, DropAdopts, MarkRolledBackAdopts
     DEF RollingBack
<1>3. CASE CleanUp
  BY <1>3, CleanConfigAdopts, CleanKeyAdopts, CleanJournalAdopts DEF CleanUp
<1>4. CASE Applying
  BY <1>4, BeginAdopts, ValidateAdopts, PrepareAdopts, SnapshotConfigAdopts, SnapshotKeyAdopts,
     WriteConfigAdopts, MarkConfigAdopts, WriteKeyAdopts, MarkKeyAdopts, RevalidateAdopts,
     ActivateAdopts, RestorationAdopts, MarkActivatedAdopts DEF Applying
<1>5. CASE Proving
  BY <1>5, BeginProofAdopts, MarkVerifyingAdopts, VerifyAdopts, MarkVerifiedAdopts DEF Proving
<1>6. CASE Ending
  BY <1>6, ResetAdopts, RemoveKeyAdopts, EnableAdopts DEF Ending
<1>7. CASE \/ Enter \/ StopUnits \/ Preview \/ PowerLoss \/ (\E q \in Requests : Ask(q))
  BY <1>7, BetweenAdopts
<1>8. CASE Check
  BY <1>8, CheckAdopts
<1>9. QED
  BY <1>1, <1>2, <1>3, <1>4, <1>5, <1>6, <1>7, <1>8 DEF Next, Proceed

\* and nothing changes when nothing does.
LEMMA StutterAdopts ==
  ASSUME AdoptInv, UNCHANGED vars
  PROVE  AdoptInv'
<1>1. /\ images' = images /\ wg' = wg /\ status' = status /\ pc' = pc /\ run' = run
      /\ txn' = txn /\ Disk' = Disk /\ Img' = Img
  BY DEF vars, Disk, Img
<1>2. \A d : Excused(d)' = Excused(d)
  BY <1>1 DEF Excused
<1>3. Pictured => Pictured'
  BY <1>1, <1>2 DEF Pictured, Shows, Returned, MayStillCommit, Open, Former, Underway
<1>4. QED
  BY <1>1, <1>3 DEF AdoptInv, Adopted, Adopting, Home

\* The invariant says of an adoption without its record what the property says.
LEMMA AdoptionTold ==
  ASSUME SInv, AdoptInv
  PROVE  AdoptionUndone
<1>1. SUFFICES ASSUME txn.adopts, Disk.journal = None, Triple(Disk) = txn.before
               PROVE  /\ wg.profile \in {txn.profile, Moved(txn.profile)} \/ wg.switching # {}
                      /\ wg.preManaged = None \/ pc # "idle"
  BY DEF AdoptionUndone
<1>2. Disk \in Img /\ Disk.config.source = "static" /\ ~Open(Disk)
  BY <1>1, HostFacts DEF AdoptInv, Adopted, Triple, Open
<1>3. wg.preManaged = None
  BY <1>1, <1>2 DEF AdoptInv, Pictured, Shows
<1>4. wg.profile \in Home(txn)
  BY <1>1, <1>3 DEF AdoptInv, Adopted
<1>5. QED
  BY <1>3, <1>4 DEF Home

\* An adoption that did not commit is undone: with its record gone and what was found
\* back in place, the operator's own profile is installed, at most with another
\* endpoint, and no snapshot of it is left (_rollback_api, application.py).
THEOREM AdoptionsUndone == ASSUME Windows = {} PROVE Spec => []AdoptionUndone
<1>1. Init => AdoptInv
  BY DEF Init, AdoptInv
<1>2. SInv /\ TxnInv /\ WorkInv /\ AdoptInv /\ [Next]_vars => AdoptInv'
  <2>1. Shut
    BY DEF Shut
  <2>2. QED
    BY <2>1, StepAdopts, StutterAdopts DEF Ground
<1>3. SInv /\ AdoptInv => AdoptionUndone
  BY AdoptionTold
<1>4. QED
  BY <1>1, <1>2, <1>3, ClosedSound, EngineExact, PTL DEF Spec
=============================================================================
