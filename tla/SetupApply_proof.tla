-------------------------- MODULE SetupApply_proof --------------------------
(***************************************************************************)
(* Theorems about SetupApply: its types, for every set of settings, keys   *)
(* and requests, every budget of faults and every window.                  *)
(*                                                                         *)
(* The types are not inductive.  A journal that is written must be one     *)
(* recovery can read, and whether it is depends on the record in memory    *)
(* and the step at which it is marked: Control says which part of the      *)
(* engine an invocation is in, and what operation and phase its record has *)
(* there.                                                                  *)
(*                                                                         *)
(* Most lemmas come in families, named for an action X.  XTypes: what its  *)
(* results are.  XLands: the ways it can end, completed, failed, cut by a  *)
(* kill or a power loss, in terms the later proofs use in the place of the *)
(* action.  XTyped: it preserves TInv.                                     *)
(***************************************************************************)
EXTENDS SetupApply, TLAPS

(* ------------------------ what a call may leave ------------------------ *)

Img == {images[i] : i \in 1..Len(images)}

Phases == {"prepared", "config", "credential", "activating", "activated", "verifying",
           "verified", "rolled-back"}

\* A record is one recovery can read if its fields agree.
LEMMA JournalRecords ==
  /\ JournalRecord = [operation : ApiOperations \cup StaticOperations, phase : Phases,
                      hadKey : BOOLEAN, hadPreManaged : BOOLEAN, keyChanged : BOOLEAN,
                      proof : BOOLEAN]
  /\ \A j \in Journal : j \in JournalRecord /\ ValidateSemantics(j)
  /\ \A j \in JournalRecord : ValidateSemantics(j) => j \in Journal
<1>1. UNION {OperationPhases(o) : o \in ApiOperations \cup StaticOperations} = Phases
  BY DEF OperationPhases, ApiOperations, StaticOperations, ProofPhases, Phases
<1>2. QED
  BY <1>1 DEF JournalRecord, Journal

\* None is no value of any kind.
LEMMA NoneApart ==
  /\ None \notin Settings /\ None \notin Keys /\ None \notin Config /\ None \notin Journal
  /\ None \notin Requests /\ None \notin Profiles
<1>1. None \notin JournalRecord
  BY RecordsAssumption
<1>2. None \notin Journal
  BY <1>1 DEF Journal
<1>3. QED
  BY <1>2, RecordsAssumption, ApplyAssumption DEF Profiles

\* What a store call may leave of a directory is a directory.
LEMMA WriteTypes ==
  ASSUME NEW d \in Directory, NEW value,
         NEW entry \in Entry,
         entry = "journal" => value \in Journal,
         entry = "config" => value \in Config,
         entry = "credential" => value \in Keys \cup {None},
         entry = "configPrevious" => value \in Config \cup {None},
         entry = "credentialPrevious" => value \in Keys \cup {None}
  PROVE  /\ Written(d, entry, value) \in Directory
         /\ WriteLeaves(d, entry, value) \subseteq Directory
<1>1. Written(d, entry, value) \in Directory
  BY DEF Written, Directory, Entry
<1>2. Staged(d, entry) \in Directory
  BY DEF Staged, Directory, Entry
<1>3. QED
  BY <1>1, <1>2 DEF WriteLeaves

\* Neither does it leave anything else when it discards a staging name,
LEMMA UnstagedTypes ==
  ASSUME NEW d \in Directory, NEW entry
  PROVE  Unstaged(d, entry) \in Directory
BY DEF Unstaged, Directory

\* takes a snapshot,
LEMMA SnapshotTypes ==
  ASSUME NEW d \in Directory, NEW source, NEW backup,
         \/ source = "config" /\ backup = "configPrevious"
         \/ source = "credential" /\ backup = "credentialPrevious"
  PROVE  /\ Snapshotted(d, source, backup) \in Directory
         /\ SnapshotLeaves(d, source, backup) \subseteq Directory
<1>1. [d EXCEPT ![backup] = d[source]] \in Directory
  BY DEF Directory
<1>2. \A e \in Directory : Staged(e, backup) \in Directory
  BY DEF Staged, Directory, Entry
<1>3. QED
  BY <1>1, <1>2, UnstagedTypes DEF Snapshotted, SnapshotLeaves

\* puts one back
LEMMA RestoreTypes ==
  ASSUME NEW d \in Directory, NEW target, NEW backup, d[backup] # None,
         \/ target = "config" /\ backup = "configPrevious"
         \/ target = "credential" /\ backup = "credentialPrevious"
  PROVE  /\ Restored(d, backup, target) \in Directory
         /\ RestoreLeaves(d, backup, target) \subseteq Directory
         /\ Unstaged(d, backup) \in Directory
<1>1. /\ target \in Entry
      /\ target = "config" => d[backup] \in Config
      /\ target = "credential" => d[backup] \in Keys \cup {None}
  BY DEF Directory, Entry
<1>2. Unstaged(d, backup) \in Directory
  BY UnstagedTypes
<1>3. /\ Written(Unstaged(d, backup), target, d[backup]) \in Directory
      /\ WriteLeaves(Unstaged(d, backup), target, d[backup]) \subseteq Directory
  <2>1. target # "journal" /\ target # "configPrevious" /\ target # "credentialPrevious"
    OBVIOUS
  <2>2. QED
    BY <1>1, <1>2, <2>1, WriteTypes
<1>4. QED
  BY <1>2, <1>3 DEF Restored, RestoreLeaves

\* or removes a file.
LEMMA RemoveTypes ==
  ASSUME NEW d \in Directory,
         NEW entry \in {"journal", "credential", "configPrevious", "credentialPrevious"}
  PROVE  /\ Removed(d, entry) \in Directory
         /\ RemoveLeaves(d, entry) \subseteq Directory
<1>1. Cleaned(d, entry) \in Directory
  BY UnstagedTypes DEF Cleaned
<1>2. Removed(d, entry) \in Directory
  BY <1>1 DEF Removed, Directory
<1>3. QED
  BY <1>1, <1>2 DEF RemoveLeaves

RunType == [request : Requests \cup {None}, supplied : Keys \cup {None},
            recovering : BOOLEAN, caller : Callers, journal : Journal \cup {None}]

\* A call that does not complete leaves the images that were there, and more.
Extends(leaves) ==
  /\ images' \in Seq(Directory) /\ Len(images') \in 1..(Len(images) + 2)
  /\ images'[1] = images[1]
  /\ Img' \subseteq Img \cup leaves
  /\ Disk' \in leaves

\* A power loss leaves one of the images.
Lost(leaves) ==
  \E d \in Directory :
    /\ images' = <<d>>
    /\ "reordered" \notin Windows => d \in Img \cup leaves

\* The three ways a store call ends.
Fails(self, leaves) ==
  Spend("error") /\ status' = status /\ Extends(leaves) /\ Raise(self)
Cuts(leaves, found) ==
  /\ Spend("kill") /\ End("killed")
  /\ \/ Extends(leaves) /\ status' = found
     \/ Lost(leaves) /\ status' = "stale"

\* The images a call leaves that was cut, or that failed: those of before, and more.
LEMMA DirtyLands ==
  ASSUME images \in Seq(Directory), Len(images) >= 1, NEW leaves \in SUBSET Directory,
         NEW d \in leaves, NEW cut \in leaves
  PROVE  /\ images' = Dirty(d) => Extends(leaves)
         /\ images' = DirtyVia(cut, d) => Extends(leaves)
         /\ \A e \in Survivors(Dirty(d)) :
              e \in Directory /\ ("reordered" \notin Windows => e \in Img \cup leaves)
<1> DEFINE One(s) == /\ s \in Seq(Directory) /\ Len(s) \in 1..(Len(images) + 2)
                     /\ s[1] = images[1] /\ s[Len(s)] \in leaves
                     /\ \A i \in 1..Len(s) : s[i] \in Img \cup leaves
<1>1. \A i \in 1..Len(images) : images[i] \in Img /\ images[i] \in Directory
  BY DEF Img
<1>2. One(Dirty(d))
  <2>1. CASE d = Disk
    BY <1>1, <2>1 DEF Dirty, Disk
  <2>2. CASE d # Disk
    <3>1. Dirty(d) = Append(images, d)
      BY <2>2 DEF Dirty
    <3> HIDE DEF Dirty
    <3>2. QED
      BY <1>1, <3>1
  <2>3. QED
    BY <2>1, <2>2
<1>3. One(DirtyVia(cut, d))
  <2>1. CASE cut \in {Disk, d}
    BY <1>2, <2>1 DEF DirtyVia
  <2>2. CASE cut \notin {Disk, d}
    <3>1. DirtyVia(cut, d) = Append(Append(images, cut), d)
      BY <2>2 DEF DirtyVia
    <3> DEFINE s == Append(images, cut)
    <3>2. s \in Seq(Directory) /\ Len(s) = Len(images) + 1
          /\ \A i \in 1..Len(images) : s[i] = images[i]
      BY <1>1
    <3>3. s[Len(s)] = cut
      BY <3>2
    <3> HIDE DEF s
    <3>4. Append(s, d) \in Seq(Directory) /\ Len(Append(s, d)) = Len(images) + 2
          /\ \A i \in 1..Len(s) : Append(s, d)[i] = s[i]
      BY <3>2
    <3>5. Append(s, d)[Len(images) + 2] = d
      BY <3>2
    <3>6. Append(s, d)[1] = images[1]
      BY <3>2, <3>4
    <3>7. ASSUME NEW i \in 1..(Len(images) + 2) PROVE Append(s, d)[i] \in Img \cup leaves
      BY <1>1, <3>2, <3>3, <3>4, <3>5
    <3>8. DirtyVia(cut, d) = Append(s, d)
      BY <3>1 DEF s
    <3>9. QED
      BY <3>4, <3>5, <3>6, <3>7, <3>8
  <2>3. QED
    BY <2>1, <2>2
<1>4. ASSUME NEW s, One(s), images' = s PROVE Extends(leaves)
  BY <1>4 DEF Extends, Img, Disk
<1>5. ASSUME NEW s, One(s), NEW e \in Survivors(s)
      PROVE  e \in Directory /\ ("reordered" \notin Windows => e \in Img \cup leaves)
  <2>1. \A i \in 1..Len(s) : s[i] \in Directory
    BY <1>5
  <2>2. CASE e \in {s[i] : i \in 1..Len(s)}
    BY <1>5, <2>1, <2>2
  <2>3. ASSUME \E i, j, k \in 1..Len(s) :
               e = [journal |-> s[i].journal, config |-> s[j].config,
                    credential |-> s[j].credential, configPrevious |-> s[k].configPrevious,
                    credentialPrevious |-> s[k].credentialPrevious, staging |-> s[j].staging]
        PROVE  e \in Directory
    <3>1. PICK i, j, k \in 1..Len(s) :
            e = [journal |-> s[i].journal, config |-> s[j].config,
                 credential |-> s[j].credential, configPrevious |-> s[k].configPrevious,
                 credentialPrevious |-> s[k].credentialPrevious, staging |-> s[j].staging]
      BY <2>3
    <3>2. s[i] \in Directory /\ s[j] \in Directory /\ s[k] \in Directory
      BY <2>1
    <3>3. ASSUME NEW a \in Directory, NEW b \in Directory, NEW c \in Directory
          PROVE  [journal |-> a.journal, config |-> b.config, credential |-> b.credential,
                  configPrevious |-> c.configPrevious,
                  credentialPrevious |-> c.credentialPrevious, staging |-> b.staging]
                   \in Directory
      BY DEF Directory
    <3> HIDE DEF One
    <3>4. e \in Directory
      BY <3>1, <3>2, <3>3
    <3>5. QED
      BY <3>4
  <2>4. CASE "reordered" \in Windows
    BY <1>5, <2>2, <2>3, <2>4 DEF Survivors
  <2>5. CASE "reordered" \notin Windows
    BY <1>5, <2>2, <2>5 DEF Survivors
  <2>6. QED
    BY <1>5, <2>2, <2>3, <2>4, <2>5
<1> HIDE DEF One
<1>6. QED
  BY <1>2, <1>3, <1>4, <1>5

\* What is not done may fail: the calls of the store and of the runtime.
LEMMA StoreCallLands ==
  ASSUME images \in Seq(Directory), Len(images) >= 1, NEW self, NEW after,
         NEW leaves \in SUBSET Directory, StoreCall(self, after, leaves, FALSE)
  PROVE  Fails(self, leaves) \/ Cuts(leaves, status)
<1>1. PICK d \in leaves :
        \/ Spend("error") /\ UNCHANGED status
             /\ \E cut \in leaves : images' = DirtyVia(cut, d)
             /\ Raise(self)
        \/ Spend("kill") /\ Killed(Dirty(d), status)
  BY DEF StoreCall
<1>2. CASE Spend("error") /\ UNCHANGED status
             /\ \E cut \in leaves : images' = DirtyVia(cut, d)
             /\ Raise(self)
  BY <1>2, DirtyLands DEF Fails
<1>3. CASE Spend("kill") /\ Killed(Dirty(d), status)
  <2>1. CASE images' = Dirty(d) /\ status' = status
    BY <1>3, <2>1, DirtyLands DEF Cuts, Killed
  <2>2. ASSUME NEW e \in Survivors(Dirty(d)), images' = <<e>>, status' = "stale"
        PROVE Lost(leaves)
    BY <2>2, DirtyLands DEF Lost
  <2>3. QED
    BY <1>3, <2>1, <2>2 DEF Cuts, Killed
<1>4. QED
  BY <1>1, <1>2, <1>3

\* What a command of the runtime leaves in the directory.
LeftOf(r) ==
  IF r.ok /\ Sourced(r.source) # Disk THEN <<Sourced(r.source)>> ELSE Dirty(Sourced(r.source))
CallEnds(r) ==
  /\ wg' = r.wg /\ status' = r.status /\ images' = LeftOf(r)
  /\ IF r.fault THEN Spend("runtime") ELSE UNCHANGED faults
CallCut(r) ==
  /\ wg' = r.wg /\ Spend("kill") /\ End("killed")
  /\ \/ images' = LeftOf(r) /\ status' = r.status
     \/ Lost({Sourced(r.source)}) /\ status' = "stale"

\* What a command leaves is one image, or the images of before and one more.
LEMMA LeftLands ==
  ASSUME images \in Seq(Directory), Len(images) >= 1, NEW r,
         r.source \in {"static", "api"}, r.ok \in BOOLEAN, images' = LeftOf(r)
  PROVE  /\ Sourced(r.source) \in Directory
         /\ \/ r.ok /\ images' = <<Sourced(r.source)>>
            \/ images' = images /\ Sourced(r.source) = Disk
            \/ ~r.ok /\ Sourced(r.source) # Disk /\ Extends({Sourced(r.source)})
<1>1. Disk \in Directory
  BY DEF Disk
<1>2. Sourced(r.source) \in Directory
  BY <1>1 DEF Sourced, Directory, Config
<1>3. CASE Sourced(r.source) = Disk
  BY <1>2, <1>3 DEF LeftOf, Dirty
<1>4. CASE Sourced(r.source) # Disk /\ ~r.ok
  BY <1>2, <1>4, DirtyLands DEF LeftOf
<1>5. CASE Sourced(r.source) # Disk /\ r.ok
  BY <1>2, <1>5 DEF LeftOf
<1>6. QED
  BY <1>3, <1>4, <1>5

\* A command cut by a kill leaves its result, or a power loss takes an image.
LEMMA KilledLands ==
  ASSUME images \in Seq(Directory), Len(images) >= 1, NEW r,
         r.source \in {"static", "api"}, r.ok \in BOOLEAN,
         wg' = r.wg, Spend("kill"), Killed(LeftOf(r), r.status)
  PROVE  CallCut(r)
<1> DEFINE d == Sourced(r.source)
<1>1. Disk \in Directory
  BY DEF Disk
<1>2. d \in Directory
  BY <1>1 DEF Sourced, Directory, Config
<1>3. ASSUME NEW e \in Survivors(LeftOf(r)), images' = <<e>> PROVE Lost({d})
  <2>1. CASE LeftOf(r) = Dirty(d)
    BY ZenonT(60), <1>2, <1>3, <2>1, DirtyLands DEF Lost
  <2>2. CASE LeftOf(r) = <<d>>
    <3>1. ASSUME NEW f \in Survivors(<<d>>) PROVE f = d
      <4>1. \A i \in 1..Len(<<d>>) : <<d>>[i] = d
        OBVIOUS
      <4>2. CASE f \in {<<d>>[i] : i \in 1..Len(<<d>>)}
        BY <4>1, <4>2
      <4>3. ASSUME \E i, j, k \in 1..Len(<<d>>) :
                f = [journal |-> <<d>>[i].journal, config |-> <<d>>[j].config,
                     credential |-> <<d>>[j].credential,
                     configPrevious |-> <<d>>[k].configPrevious,
                     credentialPrevious |-> <<d>>[k].credentialPrevious,
                     staging |-> <<d>>[j].staging]
            PROVE f = d
        <5>1. f = [journal |-> d.journal, config |-> d.config, credential |-> d.credential,
                   configPrevious |-> d.configPrevious,
                   credentialPrevious |-> d.credentialPrevious, staging |-> d.staging]
          BY <4>1, <4>3
        <5>2. \A x \in Directory :
                x = [journal |-> x.journal, config |-> x.config, credential |-> x.credential,
                     configPrevious |-> x.configPrevious,
                     credentialPrevious |-> x.credentialPrevious, staging |-> x.staging]
          BY DEF Directory
        <5>3. QED
          BY <1>2, <5>1, <5>2
      <4>4. QED
        BY <3>1, <4>2, <4>3 DEF Survivors
    <3>2. QED
      BY <1>2, <1>3, <2>2, <3>1 DEF Lost
  <2>3. QED
    BY <2>1, <2>2 DEF LeftOf
<1>4. QED
  BY <1>3 DEF Killed, CallCut

\* An invocation killed between its calls leaves the images, or a power loss takes one.
LEMMA KilledImages ==
  ASSUME images \in Seq(Directory), Len(images) >= 1, Killed(images, status)
  PROVE  /\ End("killed")
         /\ \/ images' = images /\ status' = status
            \/ Lost({}) /\ status' = "stale"
<1>1. Disk \in Directory /\ Dirty(Disk) = images /\ Disk \in Img
  BY DEF Disk, Dirty, Img
<1>2. \A e \in Survivors(images) :
        e \in Directory /\ ("reordered" \notin Windows => e \in Img \cup {Disk})
  BY <1>1, DirtyLands
<1>3. QED
  BY <1>1, <1>2 DEF Killed, Lost

\* What a raised error does with the invocation.
LEMMA RaiseLands ==
  ASSUME NEW self, self.caller \in Callers, Raise(self)
  PROVE  \/ /\ pc' = "idle" /\ run' = NoRun
            /\ \/ verdict' \in {"refused", "incomplete"}
               \/ self.caller \in {"finalize", "keep"} /\ verdict' = "unfinalized"
               \/ self.caller = "post" /\ verdict' = "committed"
               \/ /\ self.caller = "apply" /\ ~txn.kept /\ verdict' = "failed"
                  /\ Disk'.journal = None
         \/ /\ self.caller = "apply" /\ txn.kept
            /\ pc' = "cleanConfig" /\ run' = [self EXCEPT !.caller = "keep"] /\ verdict' = verdict
         \/ /\ self.caller = "apply" /\ ~txn.kept /\ Disk'.journal # None
            /\ pc' = IF self.journal.operation \in ApiOperations THEN "reconcile"
                                                                 ELSE "restoreConfig"
            /\ run' = [self EXCEPT !.caller = "undo"] /\ verdict' = verdict
<1>1. Disk' = images'[Len(images')]
  BY DEF Disk
<1>2. CASE self.caller \in {"none", "recovery", "rollback", "undo", "finalize", "keep", "post"}
  BY <1>2 DEF Raise, End
<1>3. CASE self.caller = "apply" /\ txn.kept
  BY <1>3 DEF Raise, Go
<1>4. CASE self.caller = "apply" /\ ~txn.kept /\ Disk'.journal # None
  BY <1>1, <1>4 DEF Raise, Go
<1>5. CASE self.caller = "apply" /\ ~txn.kept /\ Disk'.journal = None
  BY <1>1, <1>5 DEF Raise, End
<1>6. QED
  BY <1>2, <1>3, <1>4, <1>5 DEF Callers

(* ---------------------------- the invariant ---------------------------- *)

TxnType == [before : Triples, after : Triples, profile : Profiles \cup {None},
            adopts : BOOLEAN, kept : BOOLEAN, undone : BOOLEAN, removes : BOOLEAN]

\* Every value has its type, and a fault adds two images at most.
Typed ==
  /\ images \in Seq(Directory) /\ Len(images) \in 1..(2 * faults + 1)
  /\ wg \in Host
  /\ status \in {"stale", "good"}
  /\ timer \in BOOLEAN
  /\ pc \in Steps
  /\ run \in RunType
  /\ verdict \in Verdicts
  /\ txn \in TxnType
  /\ faults \in 0..MaxFaults

ApplySteps == {"prepare", "snapshotConfig", "snapshotKey", "writeConfig", "markConfig", "writeKey",
               "markKey", "revalidate", "activate", "markActivating", "restoreStatic",
               "markActivated"}
CleanSteps == {"cleanConfig", "cleanKey", "cleanJournal"}
ProofSteps == {"beginProof", "markVerifying", "verify"}
PostSteps == {"reset", "removeKey", "enable"}

\* Which part of the engine the invocation is in, and the record it holds.
CallerAt(p, r) ==
  /\ p = "idle" => r = NoRun
  /\ p # "idle" => r.request # None
  /\ p \in {"enter", "stop", "discard", "ready"} => r.caller = "none" /\ r.journal = None
  /\ p \notin {"idle", "enter", "stop", "discard", "ready"} => r.journal # None
  /\ p = "validate" => r.caller = "none"
  /\ p \in {"reconcile", "unstage"} => r.caller \in {"recovery", "rollback", "undo"}
  /\ p = "classify" => r.caller = "recovery"
  /\ p \in RollbackSteps => r.caller \in {"rollback", "undo"}
  /\ p \in CleanSteps => r.caller \in {"recovery", "rollback", "undo", "keep", "finalize"}
  /\ p \in ApplySteps => r.caller = "apply"
  /\ p \in ProofSteps => r.caller \in {"recovery", "apply"}
  /\ p = "markVerified" => r.caller \in {"recovery", "finalize"}
  /\ p \in PostSteps => r.caller = "post"

\* The operation and the phase of that record at each step.
JournalAt(p, r) ==
  LET j == r.journal
  IN /\ p = "validate" \/ r.caller = "apply" =>
          (r.request.mode = "api" <=> j.operation \in ApiOperations)
     /\ p \in {"validate", "prepare", "snapshotConfig", "snapshotKey", "writeConfig",
               "markConfig", "markActivating"} => j.phase = "prepared"
     /\ p \in {"markConfig", "writeKey", "markKey", "revalidate", "activate"} =>
          j.operation \in ApiOperations
     /\ p \in {"writeKey", "markKey"} => j.phase = "config" /\ j.keyChanged
     /\ p = "revalidate" => j.phase = "credential"
     /\ p = "activate" => j.phase \in {"config", "credential"}
     /\ p = "snapshotKey" => j.keyChanged /\ j.hadKey
     /\ p \in {"snapshotKey", "writeConfig"} => j.operation # "static-restore"
     /\ p \in {"markActivating", "restoreStatic"} => j.operation = "static-restore"
     /\ p = "restoreStatic" => j.phase = "activating"
     /\ p = "markActivated" => j.phase \in {"prepared", "config", "credential", "activating"}
     /\ p \in {"beginProof", "markVerifying"} => j.phase = "activated"
     /\ p \in {"verify", "markVerified"} => j.phase = "verifying"
     /\ p \in {"unadopt", "restoreKey", "dropPreManaged"} => j.operation \in ApiOperations
     /\ p \in {"reconcile", "unstage"} /\ r.caller # "recovery" => j.operation \in ApiOperations

Control == CallerAt(pc, run) /\ JournalAt(pc, run)
TInv == Typed /\ Control

\* The budget of faults is a number.
LEMMA Bounds == MaxFaults \in Nat
BY ApplyAssumption

\* What the types say of the present directory.
LEMMA TypedFacts ==
  ASSUME Typed
  PROVE  /\ Disk \in Directory /\ Disk \in Img /\ images[1] \in Img /\ Len(images) >= 1
         /\ \A d \in Img : d \in Directory
         /\ Len(images) \in Nat /\ faults \in Nat
<1>1. faults \in Nat /\ images \in Seq(Directory) /\ Len(images) \in 1..(2 * faults + 1)
  BY Bounds DEF Typed
<1>2. Len(images) \in Nat /\ Len(images) >= 1
  BY <1>1
<1>3. \A i \in 1..Len(images) : images[i] \in Directory
  BY <1>1
<1>4. QED
  BY <1>1, <1>2, <1>3 DEF Disk, Img

\* An invocation that ends is typed,
LEMMA EndTyped ==
  ASSUME NEW outcome \in Verdicts, pc' = "idle", run' = NoRun, verdict' = outcome
  PROVE  pc' \in Steps /\ run' \in RunType /\ verdict' \in Verdicts /\ Control'
<1>1. run' \in RunType
  BY DEF NoRun, RunType, Callers
<1>2. pc' \in Steps
  BY DEF Steps
<1>3. CallerAt(pc', run')
  BY DEF CallerAt, RollbackSteps, ApplySteps, CleanSteps, ProofSteps, PostSteps
<1>4. JournalAt(pc', run')
  BY DEF JournalAt, NoRun
<1>5. QED
  BY <1>1, <1>2, <1>3, <1>4 DEF Control

\* and keeps the record of its end.
LEMMA EndsTyped ==
  ASSUME NEW outcome \in Verdicts, End(outcome)
  PROVE  pc' \in Steps /\ run' \in RunType /\ verdict' \in Verdicts /\ Control'
BY EndTyped DEF End

\* A record that comes out of a phase.
LEMMA PhaseRecords ==
  ASSUME NEW j \in Journal, NEW phase \in Phases,
         phase \in OperationPhases(j.operation),
         j.proof <=> phase \in ProofPhases
  PROVE  [j EXCEPT !.phase = phase] \in Journal
<1>1. j \in JournalRecord /\ ValidateSemantics(j)
  BY JournalRecords
<1>2. [j EXCEPT !.phase = phase] \in JournalRecord
  BY <1>1, JournalRecords
<1>3. ValidateSemantics([j EXCEPT !.phase = phase])
  BY <1>1, JournalRecords DEF ValidateSemantics
<1>4. QED
  BY <1>2, <1>3, JournalRecords

\* More images are typed while the fault that left them is counted.
LEMMA ExtendsTyped ==
  ASSUME Typed, NEW leaves, Extends(leaves), faults' = faults + 1
  PROVE  images' \in Seq(Directory) /\ Len(images') \in 1..(2 * faults' + 1)
BY TypedFacts DEF Extends, Typed

\* A power loss leaves typed images.
LEMMA LostTyped ==
  ASSUME Typed, NEW leaves, Lost(leaves), faults' \in Nat
  PROVE  images' \in Seq(Directory) /\ Len(images') \in 1..(2 * faults' + 1)
<1>1. PICK d \in Directory : images' = <<d>>
  BY DEF Lost
<1>2. images' \in Seq(Directory) /\ Len(images') = 1
  BY <1>1
<1>3. \A n \in Nat : 1 \in 1..(2 * n + 1)
  OBVIOUS
<1>4. QED
  BY <1>2, <1>3

\* A fault is within the budget.
LEMMA SpendTyped ==
  ASSUME Typed, NEW fault, Spend(fault)
  PROVE  faults' = faults + 1 /\ faults' \in 0..MaxFaults /\ faults' \in Nat
<1>1. faults \in 0..MaxFaults
  BY DEF Typed
<1>2. faults < MaxFaults /\ faults' = faults + 1
  BY DEF Spend
<1>3. QED
  BY <1>1, <1>2, Bounds

\* An error leads to a typed step.
LEMMA RaiseTyped ==
  ASSUME Typed, NEW self \in RunType, self.request # None,
         self.caller = "apply" => self.journal # None, Raise(self)
  PROVE  pc' \in Steps /\ run' \in RunType /\ verdict' \in Verdicts /\ Control'
<1>1. self.caller \in Callers
  BY DEF RunType
<1>2. CASE pc' = "idle" /\ run' = NoRun
            /\ verdict' \in {"refused", "incomplete", "unfinalized", "committed", "failed"}
  BY <1>2, EndTyped DEF Verdicts
<1>3. CASE /\ self.caller = "apply" /\ pc' = "cleanConfig"
           /\ run' = [self EXCEPT !.caller = "keep"] /\ verdict' = verdict
  <2>1. run' \in RunType
    BY <1>3 DEF RunType, Callers
  <2>2. pc' \in Steps /\ verdict' \in Verdicts
    BY <1>3 DEF Steps, Typed
  <2>3. run'.request # None /\ run'.journal # None /\ run'.caller = "keep"
    BY <1>3 DEF RunType
  <2>4. CallerAt(pc', run')
    BY <1>3, <2>3 DEF CallerAt, RollbackSteps, ApplySteps, CleanSteps, ProofSteps, PostSteps
  <2>5. JournalAt(pc', run')
    BY <1>3, <2>3 DEF JournalAt
  <2>6. QED
    BY <2>1, <2>2, <2>4, <2>5 DEF Control
<1>4. CASE /\ self.caller = "apply" /\ run' = [self EXCEPT !.caller = "undo"]
           /\ verdict' = verdict
           /\ pc' = IF self.journal.operation \in ApiOperations THEN "reconcile"
                                                               ELSE "restoreConfig"
  <2>1. run' \in RunType
    BY <1>4 DEF RunType, Callers
  <2>2. pc' \in Steps /\ verdict' \in Verdicts
    BY <1>4 DEF Steps, Typed
  <2>3. /\ run'.request # None /\ run'.journal # None /\ run'.caller = "undo"
        /\ run'.journal = self.journal
    BY <1>4 DEF RunType
  <2>4. CallerAt(pc', run')
    BY <1>4, <2>3 DEF CallerAt, RollbackSteps, ApplySteps, CleanSteps, ProofSteps, PostSteps
  <2>5. JournalAt(pc', run')
    BY <1>4, <2>3 DEF JournalAt
  <2>6. QED
    BY <2>1, <2>2, <2>4, <2>5 DEF Control
<1>5. QED
  BY <1>1, <1>2, <1>3, <1>4, RaiseLands

\* A store call that is not completed keeps the types.
LEMMA StoreFailsTyped ==
  ASSUME TInv, NEW self \in RunType, self.request # None,
         self.caller = "apply" => self.journal # None,
         NEW leaves, Fails(self, leaves) \/ Cuts(leaves, status),
         wg' \in Host, timer' \in BOOLEAN, txn' \in TxnType
  PROVE  TInv'
<1>1. Typed
  BY DEF TInv
<1>2. CASE Fails(self, leaves)
  <2>1. faults' = faults + 1 /\ faults' \in 0..MaxFaults
    BY <1>1, <1>2, SpendTyped DEF Fails
  <2>2. images' \in Seq(Directory) /\ Len(images') \in 1..(2 * faults' + 1)
    BY <1>1, <1>2, <2>1, ExtendsTyped DEF Fails
  <2>3. pc' \in Steps /\ run' \in RunType /\ verdict' \in Verdicts /\ Control'
    BY <1>1, <1>2, RaiseTyped DEF Fails
  <2>4. status' \in {"stale", "good"}
    BY <1>1, <1>2 DEF Fails, Typed
  <2>5. QED
    BY <2>1, <2>2, <2>3, <2>4 DEF TInv, Typed
<1>3. CASE Cuts(leaves, status)
  <2>1. faults' = faults + 1 /\ faults' \in 0..MaxFaults /\ faults' \in Nat
    BY <1>1, <1>3, SpendTyped DEF Cuts
  <2>2. images' \in Seq(Directory) /\ Len(images') \in 1..(2 * faults' + 1)
    BY <1>1, <1>3, <2>1, ExtendsTyped, LostTyped DEF Cuts
  <2>3. pc' \in Steps /\ run' \in RunType /\ verdict' \in Verdicts /\ Control'
    BY <1>3, EndsTyped DEF Cuts, Verdicts
  <2>4. status' \in {"stale", "good"}
    BY <1>1, <1>3 DEF Cuts, Typed
  <2>5. QED
    BY <2>1, <2>2, <2>3, <2>4 DEF TInv, Typed
<1>4. QED
  BY <1>2, <1>3

(* ------------------------ what a command returns ----------------------- *)

\* A result whose exit is a refusal leaves the directory as it is.
ResultType ==
  {r \in [wg : Host, source : {"static", "api"}, status : {"stale", "good"},
          ok : BOOLEAN, fault : BOOLEAN] : r.ok \/ r.fault \/ Sourced(r.source) = Disk}

\* Flipping the source keeps the types.
LEMMA SourcedTypes ==
  ASSUME Typed
  PROVE  /\ Disk.config.source \in {"static", "api"}
         /\ Sourced(Disk.config.source) = Disk
         /\ \A s \in {"static", "api"} :
              /\ Sourced(s) \in Directory
              /\ Sourced(s) = [Disk EXCEPT !.config = [Disk.config EXCEPT !.source = s]]
<1>1. Disk \in Directory
  BY TypedFacts
<1>2. QED
  BY <1>1 DEF Directory, Config, Sourced

\* A result is one of ResultType if its parts have their types.
LEMMA ResultIn ==
  ASSUME NEW h \in Host, NEW s \in {"static", "api"}, NEW f \in {"stale", "good"},
         NEW ok \in BOOLEAN, NEW fault \in BOOLEAN,
         ok \/ fault \/ Sourced(s) = Disk
  PROVE  Result(h, s, f, ok, fault) \in ResultType
BY DEF Result, ResultType

\* The profiles and their links have their types.
LEMMA HostTypes ==
  ASSUME NEW h \in Host
  PROVE  /\ \A b \in BOOLEAN : [h EXCEPT !.candidate = b] \in Host
         /\ \A p \in Profiles \cup {None} : [h EXCEPT !.profile = p] \in Host
         /\ \A p \in Profiles \cup {None} : [h EXCEPT !.preManaged = p] \in Host
         /\ \A s \in SUBSET Profiles : [h EXCEPT !.switching = s] \in Host
         /\ h.profile \in Profiles \cup {None} /\ h.preManaged \in Profiles \cup {None}
         /\ h.candidate \in BOOLEAN /\ h.switching \in SUBSET Profiles
<1> USE DEF Host
<1>1. \A b \in BOOLEAN : [h EXCEPT !.candidate = b] \in Host
  OBVIOUS
<1>2. \A p \in Profiles \cup {None} : [h EXCEPT !.profile = p] \in Host
  OBVIOUS
<1>3. \A p \in Profiles \cup {None} : [h EXCEPT !.preManaged = p] \in Host
  OBVIOUS
<1>4. \A s \in SUBSET Profiles : [h EXCEPT !.switching = s] \in Host
  OBVIOUS
<1>5. QED
  BY <1>1, <1>2, <1>3, <1>4

\* What a failed call may leave is typed.
LEMMA FailureTypes ==
  ASSUME Typed, NEW hosts \in SUBSET Host, NEW sources \in SUBSET {"static", "api"}
  PROVE  Failures(hosts, sources) \subseteq ResultType
<1>1. status \in {"stale", "good"}
  BY DEF Typed
<1>2. ASSUME NEW h \in hosts, NEW s \in sources
      PROVE  Result(h, s, status, FALSE, TRUE) \in ResultType
  BY <1>1, ResultIn
<1>3. ASSUME NEW x, x \in Failures(hosts, sources)
      PROVE  \E h \in hosts : \E s \in sources : x = Result(h, s, status, FALSE, TRUE)
  BY <1>3, SMT DEF Failures, Result
<1>4. QED
  BY <1>2, <1>3 DEF Result

\* What validation may leave is typed.
LEMMA ValidationTypes == ASSUME Typed PROVE ValidationResults \subseteq ResultType
<1>1. wg \in Host /\ [wg EXCEPT !.candidate = TRUE] \in Host /\ status \in {"stale", "good"}
  BY HostTypes DEF Typed
<1>2. Disk.config.source \in {"static", "api"}
  BY SourcedTypes
<1>3. Result(wg, Disk.config.source, status, TRUE, FALSE) \in ResultType
  BY <1>1, <1>2, ResultIn
<1>4. Failures({wg, [wg EXCEPT !.candidate = TRUE]}, {Disk.config.source}) \subseteq ResultType
  BY <1>1, <1>2, FailureTypes
<1>5. QED
  BY <1>3, <1>4 DEF ValidationResults

\* What activation may leave is typed.
LEMMA ActivationTypes == ASSUME Typed PROVE ActivationResults \subseteq ResultType
<1> DEFINE installed == IF wg.profile # None THEN [wg EXCEPT !.preManaged = wg.profile]
                                            ELSE [wg EXCEPT !.profile = "managed"]
<1> DEFINE hosts == {wg, installed}
<1> DEFINE more == hosts \cup {[h EXCEPT !.candidate = TRUE] : h \in hosts}
<1>1. wg \in Host /\ status \in {"stale", "good"}
  BY DEF Typed
<1>2. installed \in Host
  BY <1>1, HostTypes DEF Profiles
<1> HIDE DEF installed
<1>3. more \in SUBSET Host
  BY <1>1, <1>2, HostTypes
<1>4. Result(wg, Disk.config.source, status, FALSE, FALSE) \in ResultType
  BY <1>1, SourcedTypes, ResultIn
<1>5. Result(installed, "api", status, TRUE, FALSE) \in ResultType
  BY <1>1, <1>2, ResultIn
<1>6. Failures(more, {"static"}) \subseteq ResultType
      /\ Failures({installed}, {"api"}) \subseteq ResultType
  BY <1>2, <1>3, FailureTypes
<1>7. ActivationResults \subseteq
        {Result(wg, Disk.config.source, status, FALSE, FALSE)} \cup
        {Result(installed, "api", status, TRUE, FALSE)} \cup Failures(more, {"static"})
          \cup Failures({installed}, {"api"})
  BY DEF ActivationResults, installed
<1>8. QED
  BY <1>4, <1>5, <1>6, <1>7

\* What the static restoration may leave of the profiles is typed.
LEMMA RestoreStaticTypes == ASSUME Typed PROVE RestoreStaticResults \subseteq ResultType
<1> DEFINE restored == [wg EXCEPT !.profile = wg.preManaged, !.candidate = FALSE]
           cut == [wg EXCEPT !.switching = {wg.profile, wg.preManaged}]
           lone == [wg EXCEPT !.candidate = TRUE]
<1>1. wg \in Host /\ status \in {"stale", "good"}
  BY DEF Typed
<1>2. restored \in Host /\ lone \in Host
  BY <1>1 DEF Host
<1>3. Disk.config.source \in {"static", "api"} /\ Sourced(Disk.config.source) = Disk
  BY SourcedTypes
<1>4. Result(wg, Disk.config.source, status, FALSE, FALSE) \in ResultType
  BY <1>1, <1>3, ResultIn
<1>5. CASE None \in {wg.profile, wg.preManaged} \/ wg.switching # {}
  BY <1>4, <1>5 DEF RestoreStaticResults
<1>6. CASE ~(None \in {wg.profile, wg.preManaged} \/ wg.switching # {})
  <2>1. cut \in Host
    BY <1>1, <1>6 DEF Host
  <2>2. Result(restored, "static", status, TRUE, FALSE) \in ResultType
    BY <1>1, <1>2, ResultIn
  <2>3. Failures({wg}, {Disk.config.source, "static"}) \subseteq ResultType
    BY <1>1, <1>3, FailureTypes
  <2>4. Failures({restored, cut, lone}, {"static"}) \subseteq ResultType
    BY <1>2, <2>1, FailureTypes
  <2>5. RestoreStaticResults \subseteq {Result(restored, "static", status, TRUE, FALSE)}
          \cup Failures({wg}, {Disk.config.source, "static"})
          \cup Failures({restored, cut, lone}, {"static"})
    BY <1>6 DEF RestoreStaticResults
  <2>6. QED
    BY <2>2, <2>3, <2>4, <2>5
<1>7. QED
  BY <1>5, <1>6

\* What a rotation may make of the profile is typed.
LEMMA MovesTypes == ASSUME Typed PROVE Moves \subseteq Profiles
<1>1. wg.profile \in Profiles \cup {None}
  BY HostTypes DEF Typed
<1>2. wg.profile # None => Moved(wg.profile) \in Profiles
  BY <1>1 DEF Moved, Profiles
<1>3. QED
  BY <1>1, <1>2 DEF Moves, Profiles

\* What a check leaves of the host: it settles or stays in a switch, moves the profile
\* or is cut in that, or leaves a candidate.
Checked(h, ok) ==
  \/ wg.switching = {} /\ h = wg
  \/ wg.switching = {} /\ \E p \in Moves : h = [wg EXCEPT !.profile = p]
  \/ wg.switching = {} /\ ~ok /\ \E p \in Moves : h = [wg EXCEPT !.switching = {wg.profile, p}]
  \/ wg.switching = {} /\ ~ok /\ h = [wg EXCEPT !.candidate = TRUE]
  \/ wg.switching # {} /\ ~ok /\ h = wg
  \/ \E p \in wg.switching : h = [wg EXCEPT !.profile = p, !.switching = {}, !.candidate = FALSE]

LEMMA CheckShapes ==
  ASSUME NEW r \in CheckResults
  PROVE  \E h, f, ok :
           /\ ok \in BOOLEAN /\ f \in {"stale", "good", status} /\ Checked(h, ok)
           /\ r = Result(h, Disk.config.source, f, ok, ~ok /\ wg.profile # None)
<1>1. \A h \in CheckEnds : Checked(h, TRUE) /\ Checked(h, FALSE)
  BY DEF Checked, CheckEnds
<1>2. \A h \in CheckHalts : Checked(h, FALSE)
  BY DEF Checked, CheckHalts
<1>3. \/ \E h \in CheckEnds :
            r = Result(h, Disk.config.source, "good", TRUE, ~TRUE /\ wg.profile # None)
      \/ \E h \in CheckEnds \cup CheckHalts :
            \E f \in {"stale", IF wg.profile = None THEN status ELSE "good"} :
               r = Result(h, Disk.config.source, f, FALSE, ~FALSE /\ wg.profile # None)
  BY SMT DEF CheckResults, Result
<1>4. CASE \E h \in CheckEnds :
             r = Result(h, Disk.config.source, "good", TRUE, ~TRUE /\ wg.profile # None)
  BY <1>1, <1>4
<1>5. CASE \E h \in CheckEnds \cup CheckHalts :
             \E f \in {"stale", IF wg.profile = None THEN status ELSE "good"} :
                r = Result(h, Disk.config.source, f, FALSE, ~FALSE /\ wg.profile # None)
  <2>1. PICK h \in CheckEnds \cup CheckHalts,
             f \in {"stale", IF wg.profile = None THEN status ELSE "good"} :
               r = Result(h, Disk.config.source, f, FALSE, ~FALSE /\ wg.profile # None)
    BY <1>5
  <2>2. Checked(h, FALSE) /\ f \in {"stale", "good", status} /\ FALSE \in BOOLEAN
    BY <1>1, <1>2, <2>1
  <2>3. QED
    BY <2>1, <2>2
<1>6. QED
  BY <1>3, <1>4, <1>5

\* A check leaves the directory as it is.
LEMMA CheckTypes ==
  ASSUME Typed
  PROVE  CheckResults \subseteq ResultType
         /\ \A r \in CheckResults : r.source = Disk.config.source
<1> DEFINE source == Disk.config.source
<1>1. wg \in Host /\ status \in {"stale", "good"} /\ Moves \subseteq Profiles
  BY MovesTypes DEF Typed
<1>2. source \in {"static", "api"} /\ Sourced(source) = Disk
  BY SourcedTypes
<1>3. SUFFICES ASSUME NEW r \in CheckResults PROVE r \in ResultType /\ r.source = source
  OBVIOUS
<1>4. PICK h, f, ok :
         /\ ok \in BOOLEAN /\ f \in {"stale", "good", status} /\ Checked(h, ok)
         /\ r = Result(h, source, f, ok, ~ok /\ wg.profile # None)
  BY CheckShapes
<1>5. h \in Host
  <2>1. \A p \in Moves : [wg EXCEPT !.profile = p] \in Host
    BY <1>1, HostTypes
  <2>2. \A p \in Moves : [wg EXCEPT !.switching = {wg.profile, p}] \in Host
    <3>1. \A p \in Moves : {wg.profile, p} \in SUBSET Profiles
      <4>1. wg.profile = None => Moves = {}
        BY DEF Moves
      <4>2. QED
        BY <1>1, <4>1, HostTypes
    <3>2. QED
      BY <1>1, <3>1, HostTypes
  <2>3. [wg EXCEPT !.candidate = TRUE] \in Host
    BY <1>1, HostTypes
  <2>4. \A p \in wg.switching :
          [wg EXCEPT !.profile = p, !.switching = {}, !.candidate = FALSE] \in Host
    BY ZenonT(60), <1>1 DEF Host, Profiles
  <2>5. QED
    BY <1>1, <1>4, <2>1, <2>2, <2>3, <2>4 DEF Checked
<1>6. f \in {"stale", "good"} /\ (~ok /\ wg.profile # None) \in BOOLEAN
  BY <1>1, <1>4
<1>7. Result(h, source, f, ok, ~ok /\ wg.profile # None) \in ResultType
  BY <1>2, <1>4, <1>5, <1>6, ResultIn
<1>8. QED
  BY <1>4, <1>7 DEF Result

\* A command of the runtime keeps the types.
LEMMA CallTyped ==
  ASSUME TInv, NEW r \in ResultType
  PROVE  /\ CallEnds(r) => /\ wg' \in Host /\ status' \in {"stale", "good"}
                           /\ images' \in Seq(Directory) /\ Len(images') \in 1..(2 * faults' + 1)
                           /\ faults' \in 0..MaxFaults
         /\ CallCut(r) /\ timer' \in BOOLEAN /\ txn' \in TxnType => TInv'
<1>1. Typed /\ images \in Seq(Directory) /\ Len(images) >= 1
  BY TypedFacts DEF TInv, Typed
<1>2. r.wg \in Host /\ r.status \in {"stale", "good"} /\ r.source \in {"static", "api"}
      /\ r.ok \in BOOLEAN /\ r.fault \in BOOLEAN /\ (r.ok \/ r.fault \/ Sourced(r.source) = Disk)
  BY DEF ResultType
<1>3. ASSUME images' = LeftOf(r), faults' = faults + 1
      PROVE  images' \in Seq(Directory) /\ Len(images') \in 1..(2 * faults' + 1)
  <2>1. Sourced(r.source) \in Directory
    BY <1>1, <1>2, SourcedTypes
  <2>2. CASE r.ok /\ images' = <<Sourced(r.source)>>
    <3>1. Lost({Sourced(r.source)})
      BY <2>1, <2>2 DEF Lost
    <3>2. faults' \in Nat
      BY <1>1, <1>3, TypedFacts
    <3>3. QED
      BY <1>1, <3>1, <3>2, LostTyped
  <2>3. CASE images' = images
    BY <1>1, <1>3, <2>3, TypedFacts DEF Typed
  <2>4. CASE Extends({Sourced(r.source)})
    BY <1>1, <1>3, <2>4, ExtendsTyped
  <2>5. QED
    BY <1>1, <1>2, <1>3, <2>2, <2>3, <2>4, LeftLands
<1>4. ASSUME CallEnds(r)
      PROVE  /\ images' \in Seq(Directory) /\ Len(images') \in 1..(2 * faults' + 1)
             /\ faults' \in 0..MaxFaults
  <2>1. CASE r.fault
    <3>1. faults' = faults + 1 /\ faults' \in 0..MaxFaults
      BY <1>1, <1>4, <2>1, SpendTyped DEF CallEnds
    <3>2. QED
      BY <1>3, <1>4, <3>1 DEF CallEnds
  <2>2. CASE ~r.fault
    <3>1. faults' = faults
      BY <1>4, <2>2 DEF CallEnds
    <3>2. \/ images' = <<Sourced(r.source)>> /\ Sourced(r.source) \in Directory
          \/ images' = images
      <4>1. images' = LeftOf(r)
        BY <1>4 DEF CallEnds
      <4>2. Sourced(r.source) \in Directory
        BY <1>1, <1>2, SourcedTypes
      <4>3. r.ok \/ Sourced(r.source) = Disk
        BY <1>2, <2>2
      <4>4. \/ r.ok /\ images' = <<Sourced(r.source)>>
            \/ images' = images /\ Sourced(r.source) = Disk
            \/ ~r.ok /\ Sourced(r.source) # Disk /\ Extends({Sourced(r.source)})
        BY <1>1, <1>2, <4>1, LeftLands
      <4>5. QED
        BY <4>2, <4>3, <4>4
    <3>3. CASE images' = images
      BY <1>1, <3>1, <3>3 DEF Typed
    <3>4. CASE images' = <<Sourced(r.source)>> /\ Sourced(r.source) \in Directory
      <4>1. Lost({Sourced(r.source)})
        BY <3>4 DEF Lost
      <4>2. faults' \in Nat /\ faults' \in 0..MaxFaults
        BY <1>1, <3>1, TypedFacts DEF Typed
      <4>3. QED
        BY <1>1, <4>1, <4>2, LostTyped
    <3>5. QED
      BY <3>2, <3>3, <3>4
  <2>3. QED
    BY <1>2, <2>1, <2>2
<1>5. ASSUME CallCut(r), timer' \in BOOLEAN, txn' \in TxnType PROVE TInv'
  <2>1. faults' = faults + 1 /\ faults' \in 0..MaxFaults /\ faults' \in Nat
    BY <1>1, <1>5, SpendTyped DEF CallCut
  <2>2. images' \in Seq(Directory) /\ Len(images') \in 1..(2 * faults' + 1)
    BY <1>1, <1>3, <1>5, <2>1, LostTyped DEF CallCut
  <2>3. pc' \in Steps /\ run' \in RunType /\ verdict' \in Verdicts /\ Control'
    BY <1>5, EndsTyped DEF CallCut, Verdicts
  <2>4. wg' \in Host /\ status' \in {"stale", "good"}
    BY <1>2, <1>5 DEF CallCut
  <2>5. QED
    BY <1>5, <2>1, <2>2, <2>3, <2>4 DEF TInv, Typed
<1>6. CallEnds(r) => wg' \in Host /\ status' \in {"stale", "good"}
  BY <1>2 DEF CallEnds
<1>7. QED
  BY <1>4, <1>5, <1>6

(* ------------------------- how each action ends ------------------------ *)

\* The outcomes of a call of the store, the one that completes it apart.
Refuses(self) == UNCHANGED <<images, status, faults>> /\ Raise(self)
NotDone(self, leaves) == Fails(self, leaves) \/ Cuts(leaves, status) \/ Refuses(self)
Completed(after) == images' = <<after>> /\ UNCHANGED <<status, faults>>

\* A store call keeps the types when it fails or is cut,
LEMMA NotDoneTyped ==
  ASSUME TInv, NEW self \in RunType, self.request # None,
         self.caller = "apply" => self.journal # None,
         NEW leaves, NotDone(self, leaves),
         wg' \in Host, timer' \in BOOLEAN, txn' \in TxnType
  PROVE  TInv'
<1>1. CASE Refuses(self)
  <2>1. Typed
    BY DEF TInv
  <2>2. pc' \in Steps /\ run' \in RunType /\ verdict' \in Verdicts /\ Control'
    BY <1>1, <2>1, RaiseTyped DEF Refuses
  <2>3. QED
    BY <1>1, <2>1, <2>2 DEF Refuses, TInv, Typed
<1>2. QED
  BY <1>1, StoreFailsTyped DEF NotDone

\* and when it completes.
LEMMA DoneTyped ==
  ASSUME TInv, NEW after \in Directory, Completed(after)
  PROVE  /\ images' \in Seq(Directory) /\ Len(images') \in 1..(2 * faults' + 1)
         /\ faults' \in 0..MaxFaults /\ status' \in {"stale", "good"}
<1>1. Typed
  BY DEF TInv
<1>2. faults' = faults /\ status' = status /\ images' = <<after>>
  BY DEF Completed
<1>3. faults' \in Nat /\ faults' \in 0..MaxFaults /\ status' \in {"stale", "good"}
  BY <1>1, <1>2, TypedFacts DEF Typed
<1>4. Lost({after})
  BY <1>2 DEF Lost
<1>5. QED
  BY <1>1, <1>3, <1>4, LostTyped

\* How a write of a file ends,
LEMMA WriteLands ==
  ASSUME Typed, NEW self, NEW entry \in Entry, NEW value,
         entry = "journal" => value \in Journal,
         entry = "config" => value \in Config,
         entry = "credential" => value \in Keys \cup {None},
         entry \notin {"configPrevious", "credentialPrevious"},
         AtomicWrite(self, entry, value, FALSE)
  PROVE  NotDone(self, WriteLeaves(Disk, entry, value))
<1>1. Disk \in Directory /\ images \in Seq(Directory) /\ Len(images) >= 1
  BY TypedFacts DEF Typed
<1>2. WriteLeaves(Disk, entry, value) \in SUBSET Directory
  BY <1>1, WriteTypes
<1>3. CASE entry \in Disk.staging
  BY <1>3 DEF AtomicWrite, Refuse, Refuses, NotDone
<1>4. CASE entry \notin Disk.staging
  <2>1. StoreCall(self, Written(Disk, entry, value), WriteLeaves(Disk, entry, value), FALSE)
    BY <1>4 DEF AtomicWrite
  <2>2. QED
    BY <1>1, <1>2, <2>1, StoreCallLands DEF NotDone
<1>5. QED
  BY <1>3, <1>4

\* a snapshot,
LEMMA SnapshotLands ==
  ASSUME Typed, NEW self, NEW source, NEW backup,
         \/ source = "config" /\ backup = "configPrevious"
         \/ source = "credential" /\ backup = "credentialPrevious",
         SnapshotFile(self, source, backup, FALSE)
  PROVE  NotDone(self, SnapshotLeaves(Disk, source, backup))
<1>1. Disk \in Directory /\ images \in Seq(Directory) /\ Len(images) >= 1
  BY TypedFacts DEF Typed
<1>2. SnapshotLeaves(Disk, source, backup) \in SUBSET Directory
  BY <1>1, SnapshotTypes
<1>3. CASE Disk[backup] # None
  BY <1>3 DEF SnapshotFile, Refuse, Refuses, NotDone
<1>4. CASE Disk[backup] = None
  <2>1. StoreCall(self, Snapshotted(Disk, source, backup),
                  SnapshotLeaves(Disk, source, backup), FALSE)
    BY <1>4 DEF SnapshotFile
  <2>2. QED
    BY <1>1, <1>2, <2>1, StoreCallLands DEF NotDone
<1>5. QED
  BY <1>3, <1>4

\* a removal.
LEMMA UnlinkLands ==
  ASSUME Typed, NEW self,
         NEW entry \in {"journal", "credential", "configPrevious", "credentialPrevious"},
         DurableUnlink(self, entry, FALSE)
  PROVE  NotDone(self, RemoveLeaves(Disk, entry))
<1>1. Disk \in Directory /\ images \in Seq(Directory) /\ Len(images) >= 1
  BY TypedFacts DEF Typed
<1>2. RemoveLeaves(Disk, entry) \in SUBSET Directory
  BY <1>1, RemoveTypes
<1>3. StoreCall(self, Removed(Disk, entry), RemoveLeaves(Disk, entry), FALSE)
  BY DEF DurableUnlink, Skip
<1>4. QED
  BY <1>1, <1>2, <1>3, StoreCallLands DEF NotDone

\* A restoration that its own clean-up follows.
LEMMA RestoreLands ==
  ASSUME Typed, NEW self, NEW target, NEW backup, Disk[backup] # None,
         \/ target = "config" /\ backup = "configPrevious"
         \/ target = "credential" /\ backup = "credentialPrevious",
         RestoreSnapshot(self, backup, target, FALSE)
  PROVE  \/ target \notin Disk.staging /\ NotDone(self, RestoreLeaves(Disk, backup, target))
         \/ target \in Disk.staging /\ NotDone(self, {Disk, Unstaged(Disk, backup)})
         \/ target \in Disk.staging /\ Completed(Unstaged(Disk, backup)) /\ Raise(self)
<1> DEFINE clean == Unstaged(Disk, backup)
<1>1. Disk \in Directory /\ images \in Seq(Directory) /\ Len(images) >= 1
  BY TypedFacts DEF Typed
<1>2. RestoreLeaves(Disk, backup, target) \in SUBSET Directory /\ clean \in Directory
  BY <1>1, RestoreTypes
<1>3. CASE target \notin Disk.staging
  <2>1. StoreCall(self, Restored(Disk, backup, target),
                  RestoreLeaves(Disk, backup, target), FALSE)
    BY <1>3 DEF RestoreSnapshot
  <2>2. QED
    BY <1>1, <1>2, <1>3, <2>1, StoreCallLands DEF NotDone
<1>4. CASE target \in Disk.staging /\ clean = Disk
  BY <1>4 DEF RestoreSnapshot, Refuse, Refuses, NotDone
<1>5. CASE target \in Disk.staging /\ clean # Disk
  <2>1. StoreCall(self, clean, {Disk, clean}, Raise(self))
    BY <1>5 DEF RestoreSnapshot
  <2>2. (Completed(clean) /\ Raise(self)) \/ StoreCall(self, clean, {Disk, clean}, FALSE)
    BY <2>1 DEF StoreCall, Completed
  <2>3. {Disk, clean} \in SUBSET Directory
    BY <1>1, <1>2
  <2>4. QED
    BY <1>1, <1>5, <2>2, <2>3, StoreCallLands DEF NotDone
<1>6. QED
  BY <1>3, <1>4, <1>5

\* The record in memory at a new phase.
Phased(phase) == [run EXCEPT !.journal = [run.journal EXCEPT !.phase = phase]]

\* A record at a later phase of its operation is typed.
LEMMA PhasedTypes ==
  ASSUME TInv, run.journal # None, NEW phase \in Phases,
         phase \in OperationPhases(run.journal.operation),
         run.journal.proof <=> phase \in ProofPhases
  PROVE  /\ run.journal \in Journal
         /\ Phased(phase) \in RunType /\ Phased(phase).journal \in Journal
         /\ Phased(phase).journal = [run.journal EXCEPT !.phase = phase]
         /\ Phased(phase).journal # None
         /\ Phased(phase).request = run.request /\ Phased(phase).caller = run.caller
         /\ Phased(phase).supplied = run.supplied
<1>1. run \in RunType /\ run.journal \in Journal
  BY DEF TInv, Typed, RunType
<1>2. [run.journal EXCEPT !.phase = phase] \in Journal
  BY <1>1, PhaseRecords
<1> DEFINE j == [run.journal EXCEPT !.phase = phase]
<1> HIDE DEF j
<1>3. /\ [run EXCEPT !.journal = j] \in RunType
      /\ [run EXCEPT !.journal = j].journal = j
      /\ [run EXCEPT !.journal = j].request = run.request
      /\ [run EXCEPT !.journal = j].caller = run.caller
      /\ [run EXCEPT !.journal = j].supplied = run.supplied
  <2>1. j \in Journal
    BY <1>2 DEF j
  <2>2. QED
    BY <1>1, <2>1 DEF RunType
<1>4. j # None
  BY <1>2, NoneApart DEF j
<1>5. QED
  BY <1>1, <1>2, <1>3, <1>4 DEF Phased, j

\* How marking the record ends.
LEMMA MarkLands ==
  ASSUME TInv, NEW step, NEW phase \in Phases, NEW next, run.journal # None,
         phase \in OperationPhases(run.journal.operation),
         run.journal.proof <=> phase \in ProofPhases,
         Mark(step, phase, next)
  PROVE  /\ pc = step /\ UNCHANGED <<wg, timer, txn>>
         /\ \/ /\ Completed(Written(Disk, "journal", Phased(phase).journal))
               /\ pc' = next /\ run' = Phased(phase) /\ verdict' = verdict
               /\ "journal" \notin Disk.staging
            \/ NotDone(Phased(phase), WriteLeaves(Disk, "journal", Phased(phase).journal))
<1>1. Phased(phase) = [run EXCEPT !.journal.phase = phase]
  <2>1. run \in RunType
    BY DEF TInv, Typed
  <2>2. QED
    BY <2>1 DEF Phased, RunType
<1> DEFINE self == [run EXCEPT !.journal.phase = phase]
<1>2. PersistJournal(self, self.journal, Go(next, self)) /\ pc = step /\ UNCHANGED <<wg, timer, txn>>
  BY DEF Mark
<1> HIDE DEF self
<1>3. \/ /\ Completed(Written(Disk, "journal", self.journal))
         /\ pc' = next /\ run' = self /\ verdict' = verdict
         /\ "journal" \notin Disk.staging
      \/ AtomicWrite(self, "journal", self.journal, FALSE)
  BY <1>2 DEF PersistJournal, AtomicWrite, StoreCall, Completed, Go, Refuse
<1>4. self.journal \in Journal /\ self = Phased(phase)
  BY <1>1, PhasedTypes DEF self
<1>5. AtomicWrite(self, "journal", self.journal, FALSE) =>
        NotDone(self, WriteLeaves(Disk, "journal", self.journal))
  BY <1>4, WriteLands DEF Entry, TInv
<1>6. QED
  BY <1>2, <1>3, <1>4, <1>5

\* The parts of the invocation have their types.
LEMMA RunFacts ==
  ASSUME TInv
  PROVE  /\ run \in RunType /\ run.request \in Requests \cup {None}
         /\ run.supplied \in Keys \cup {None}
         /\ run.caller \in Callers /\ run.journal \in Journal \cup {None}
         /\ run.journal # None =>
              /\ run.journal \in Journal /\ run.journal \in JournalRecord
              /\ ValidateSemantics(run.journal)
         /\ pc # "idle" => run.request # None /\ run.request \in Request
BY JournalRecords, ApplyAssumption DEF TInv, Typed, RunType, Control, CallerAt

\* What each call of the engine does when it completes, and when it does not.
LEMMA DiscardLands ==
  ASSUME TInv, DiscardStaging
  PROVE  /\ pc = "discard" /\ UNCHANGED <<wg, timer, txn>>
         /\ LET after == [Disk EXCEPT !.staging = @ \ PrivateTargets]
                leaves == {[Disk EXCEPT !.staging = @ \ gone] : gone \in SUBSET PrivateTargets}
            IN \/ /\ Completed(after) \/ (after = Disk /\ UNCHANGED <<images, status, faults>>)
                  /\ \/ /\ Disk.journal # None /\ pc' = "reconcile" /\ verdict' = verdict
                        /\ run' = [run EXCEPT !.caller = "recovery", !.journal = Disk.journal]
                     \/ /\ SetupArtifactsClear(after) /\ Disk.journal = None
                        /\ pc' = "ready" /\ run' = run /\ verdict' = verdict
                     \/ /\ Disk.journal = None /\ ~SetupArtifactsClear(after) /\ End("stuck")
               \/ NotDone(run, leaves)
<1> DEFINE after == [Disk EXCEPT !.staging = @ \ PrivateTargets]
           leaves == {[Disk EXCEPT !.staging = @ \ gone] : gone \in SUBSET PrivateTargets}
           Read == CASE Disk.journal # None ->
                        Go("reconcile", [run EXCEPT !.caller = "recovery", !.journal = Disk.journal])
                   [] SetupArtifactsClear(after) -> Go("ready", run)
                   [] OTHER -> End("stuck")
           Reads == \/ /\ Disk.journal # None /\ pc' = "reconcile" /\ verdict' = verdict
                       /\ run' = [run EXCEPT !.caller = "recovery", !.journal = Disk.journal]
                    \/ /\ SetupArtifactsClear(after) /\ Disk.journal = None
                       /\ pc' = "ready" /\ run' = run /\ verdict' = verdict
                    \/ /\ Disk.journal = None /\ ~SetupArtifactsClear(after) /\ End("stuck")
<1>1. Disk \in Directory /\ images \in Seq(Directory) /\ Len(images) >= 1
  BY TypedFacts DEF TInv, Typed
<1>2. leaves \in SUBSET Directory
  BY <1>1 DEF Directory, PrivateTargets
<1>3. Disk.journal = None => after.journal = None
  BY <1>1 DEF Directory
<1>4. Read => Reads
  <2>1. CASE Disk.journal # None
    <3>1. ~SetupArtifactsClear(after)
      BY <1>1, <2>1 DEF SetupArtifactsClear, Directory
    <3>2. QED
      BY <2>1, <3>1 DEF Go
  <2>2. CASE Disk.journal = None /\ SetupArtifactsClear(after)
    BY <2>2 DEF Go
  <2>3. CASE Disk.journal = None /\ ~SetupArtifactsClear(after)
    BY <2>3
  <2>4. QED
    BY <2>1, <2>2, <2>3
<1>5. /\ pc = "discard" /\ UNCHANGED <<wg, timer, txn>>
      /\ IF after = Disk THEN Skip(Read) ELSE StoreCall(run, after, leaves, Read)
  BY DEF DiscardStaging
<1> HIDE DEF after, leaves, Read, Reads
<1>6. CASE after = Disk
  <2>1. Read /\ UNCHANGED <<images, status, faults>>
    BY <1>5, <1>6 DEF Skip
  <2>2. QED
    BY <1>4, <1>5, <1>6, <2>1 DEF after, leaves, Reads
<1>7. CASE after # Disk
  <2>1. (Completed(after) /\ Read) \/ StoreCall(run, after, leaves, FALSE)
    BY <1>5, <1>7 DEF StoreCall, Completed
  <2>2. (Completed(after) /\ Reads) \/ NotDone(run, leaves)
    BY <1>1, <1>2, <1>4, <2>1, StoreCallLands DEF NotDone
  <2>3. QED
    BY <1>5, <2>2 DEF after, leaves, Reads
<1>8. QED
  BY <1>6, <1>7

RestoresWith(backup, target) ==
  /\ Disk[backup] # None
  /\ target \notin Disk.staging
  /\ Completed(Restored(Disk, backup, target))
RestoreFails(backup, target) ==
  /\ Disk[backup] # None
  /\ \/ target \notin Disk.staging /\ NotDone(run, RestoreLeaves(Disk, backup, target))
     \/ target \in Disk.staging /\ NotDone(run, {Disk, Unstaged(Disk, backup)})
     \/ target \in Disk.staging /\ Completed(Unstaged(Disk, backup)) /\ Raise(run)

\* How RestoreConfig can end: completed, failed, or cut by a kill or a power loss.
LEMMA RestoreConfigLands ==
  ASSUME TInv, RestoreConfig
  PROVE  /\ pc = "restoreConfig" /\ txn' = [txn EXCEPT !.undone = TRUE] /\ UNCHANGED <<wg, timer>>
         /\ \/ /\ \/ RestoresWith("configPrevious", "config")
                  \/ /\ Disk.configPrevious = None /\ run.journal.phase = "prepared"
                     /\ UNCHANGED <<images, status, faults>>
               /\ pc' = IF run.journal.operation \in ApiOperations THEN "restoreKey"
                                                                  ELSE "markRolledBack"
               /\ run' = run /\ verdict' = verdict
            \/ RestoreFails("configPrevious", "config")
            \/ /\ Disk.configPrevious = None /\ run.journal.phase # "prepared"
               /\ UNCHANGED <<images, status, faults>> /\ End("stuck")
<1> DEFINE next == IF run.journal.operation \in ApiOperations THEN "restoreKey" ELSE "markRolledBack"
<1>1. /\ pc = "restoreConfig" /\ txn' = [txn EXCEPT !.undone = TRUE] /\ UNCHANGED <<wg, timer>>
      /\ CASE Disk.configPrevious # None ->
                RestoreSnapshot(run, "configPrevious", "config", Go(next, run))
           [] Disk.configPrevious = None /\ run.journal.phase = "prepared" -> Skip(Go(next, run))
           [] OTHER -> Skip(End("stuck"))
  BY DEF RestoreConfig
<1> HIDE DEF next
<1>2. CASE Disk.configPrevious # None
  <2>1. RestoreSnapshot(run, "configPrevious", "config", Go(next, run))
    BY <1>1, <1>2
  <2>2. \/ "config" \notin Disk.staging /\ Completed(Restored(Disk, "configPrevious", "config"))
           /\ Go(next, run)
        \/ RestoreSnapshot(run, "configPrevious", "config", FALSE)
    BY <2>1 DEF RestoreSnapshot, StoreCall, Completed
  <2>3. RestoreSnapshot(run, "configPrevious", "config", FALSE) =>
          RestoreFails("configPrevious", "config")
    BY <1>2, RestoreLands DEF TInv, RestoreFails
  <2>4. QED
    BY <1>1, <1>2, <2>2, <2>3 DEF RestoresWith, Go, next
<1>3. CASE Disk.configPrevious = None /\ run.journal.phase = "prepared"
  BY <1>1, <1>3 DEF Skip, Go, next
<1>4. CASE Disk.configPrevious = None /\ run.journal.phase # "prepared"
  BY <1>1, <1>4 DEF Skip
<1>5. QED
  BY <1>2, <1>3, <1>4

\* How RestoreKey can end: completed, failed, or cut by a kill or a power loss.
LEMMA RestoreKeyLands ==
  ASSUME TInv, RestoreKey
  PROVE  LET j == run.journal
         IN /\ pc = "restoreKey" /\ UNCHANGED <<wg, timer, txn>>
            /\ \/ /\ \/ /\ j.keyChanged /\ ~j.hadKey
                        /\ \/ Completed(Removed(Disk, "credential"))
                           \/ /\ Removed(Disk, "credential") = Disk
                              /\ UNCHANGED <<images, status, faults>>
                     \/ j.keyChanged /\ j.hadKey /\ RestoresWith("credentialPrevious", "credential")
                     \/ /\ Disk.credentialPrevious = None
                        /\ \/ j.keyChanged /\ j.hadKey /\ j.phase = "prepared"
                           \/ ~j.keyChanged
                        /\ UNCHANGED <<images, status, faults>>
                  /\ pc' = "dropPreManaged" /\ run' = run /\ verdict' = verdict
               \/ j.keyChanged /\ ~j.hadKey /\ NotDone(run, RemoveLeaves(Disk, "credential"))
               \/ j.keyChanged /\ j.hadKey /\ RestoreFails("credentialPrevious", "credential")
               \/ /\ UNCHANGED <<images, status, faults>> /\ End("stuck")
                  /\ \/ j.keyChanged /\ j.hadKey /\ Disk.credentialPrevious = None
                        /\ j.phase # "prepared"
                     \/ ~j.keyChanged /\ Disk.credentialPrevious # None
<1> DEFINE j == run.journal
           Next1 == pc' = "dropPreManaged" /\ run' = run /\ verdict' = verdict
<1>0. j.keyChanged \in BOOLEAN /\ j.hadKey \in BOOLEAN
  <2>1. j # None
    BY DEF TInv, Control, CallerAt, RestoreKey
  <2>2. QED
    BY <2>1, RunFacts, JournalRecords
<1>1. /\ pc = "restoreKey" /\ UNCHANGED <<wg, timer, txn>>
      /\ CASE j.keyChanged /\ ~j.hadKey -> DurableUnlink(run, "credential", Go("dropPreManaged", run))
           [] j.keyChanged /\ j.hadKey /\ Disk.credentialPrevious # None ->
                RestoreSnapshot(run, "credentialPrevious", "credential", Go("dropPreManaged", run))
           [] j.keyChanged /\ j.hadKey /\ Disk.credentialPrevious = None
                /\ j.phase = "prepared" -> Skip(Go("dropPreManaged", run))
           [] ~j.keyChanged /\ Disk.credentialPrevious = None -> Skip(Go("dropPreManaged", run))
           [] OTHER -> Skip(End("stuck"))
  BY DEF RestoreKey
<1> HIDE DEF j
<1>2. CASE j.keyChanged /\ ~j.hadKey
  <2>1. DurableUnlink(run, "credential", Go("dropPreManaged", run))
    BY <1>1, <1>2
  <2>2. \/ /\ Removed(Disk, "credential") = Disk
           /\ UNCHANGED <<images, status, faults>> /\ Go("dropPreManaged", run)
        \/ Completed(Removed(Disk, "credential")) /\ Go("dropPreManaged", run)
        \/ DurableUnlink(run, "credential", FALSE)
    BY <2>1 DEF DurableUnlink, StoreCall, Completed, Skip
  <2>3. DurableUnlink(run, "credential", FALSE) => NotDone(run, RemoveLeaves(Disk, "credential"))
    BY UnlinkLands DEF TInv
  <2>4. QED
    BY <1>1, <1>2, <2>2, <2>3 DEF Go, j
<1>3. CASE j.keyChanged /\ j.hadKey /\ Disk.credentialPrevious # None
  <2>1. RestoreSnapshot(run, "credentialPrevious", "credential", Go("dropPreManaged", run))
    BY <1>1, <1>3
  <2>2. \/ "credential" \notin Disk.staging /\ Completed(Restored(Disk, "credentialPrevious", "credential"))
           /\ Go("dropPreManaged", run)
        \/ RestoreSnapshot(run, "credentialPrevious", "credential", FALSE)
    BY <2>1 DEF RestoreSnapshot, StoreCall, Completed
  <2>3. RestoreSnapshot(run, "credentialPrevious", "credential", FALSE) =>
          RestoreFails("credentialPrevious", "credential")
    BY <1>3, RestoreLands DEF TInv, RestoreFails
  <2>4. QED
    BY <1>1, <1>3, <2>2, <2>3 DEF RestoresWith, Go, j
<1>4. CASE j.keyChanged /\ j.hadKey /\ Disk.credentialPrevious = None /\ j.phase = "prepared"
  BY <1>1, <1>4 DEF Skip, Go, j
<1>5. CASE ~j.keyChanged /\ Disk.credentialPrevious = None
  BY <1>1, <1>5 DEF Skip, Go, j
<1>6. CASE \/ j.keyChanged /\ j.hadKey /\ Disk.credentialPrevious = None /\ j.phase # "prepared"
           \/ ~j.keyChanged /\ Disk.credentialPrevious # None
  BY <1>1, <1>6 DEF Skip, j
<1>7. QED
  BY <1>0, <1>2, <1>3, <1>4, <1>5, <1>6

\* How MarkRolledBack can end: completed, failed, or cut by a kill or a power loss.
LEMMA MarkRolledBackLands ==
  ASSUME TInv, MarkRolledBack
  PROVE  /\ pc = "markRolledBack" /\ UNCHANGED <<wg, timer, txn>>
         /\ run.journal \in Journal /\ RolledBack(run.journal) \in Journal
         /\ \/ /\ "journal" \notin Disk.staging
               /\ Completed(Written(Disk, "journal", RolledBack(run.journal)))
               /\ pc' = "cleanConfig" /\ run' = run /\ verdict' = verdict
            \/ NotDone(run, WriteLeaves(Disk, "journal", RolledBack(run.journal)))
<1>1. /\ pc = "markRolledBack" /\ UNCHANGED <<wg, timer, txn>>
      /\ PersistJournal(run, RolledBack(run.journal), Go("cleanConfig", run))
  BY DEF MarkRolledBack
<1>2. run.journal \in Journal
  BY <1>1, RunFacts DEF TInv, Control, CallerAt, RollbackSteps
<1>3. RolledBack(run.journal) \in Journal
  <2>1. run.journal \in JournalRecord /\ ValidateSemantics(run.journal)
    BY <1>2, JournalRecords
  <2>2. RolledBack(run.journal) \in JournalRecord
    BY <2>1, JournalRecords DEF RolledBack, Phases
  <2>3. ValidateSemantics(RolledBack(run.journal))
    BY <2>1, JournalRecords DEF RolledBack, ValidateSemantics, OperationPhases, ProofPhases
  <2>4. QED
    BY <2>2, <2>3, JournalRecords
<1>4. \/ /\ "journal" \notin Disk.staging
         /\ Completed(Written(Disk, "journal", RolledBack(run.journal)))
         /\ pc' = "cleanConfig" /\ run' = run /\ verdict' = verdict
      \/ AtomicWrite(run, "journal", RolledBack(run.journal), FALSE)
  BY <1>1 DEF PersistJournal, AtomicWrite, StoreCall, Completed, Go, Refuse
<1>5. AtomicWrite(run, "journal", RolledBack(run.journal), FALSE) =>
        NotDone(run, WriteLeaves(Disk, "journal", RolledBack(run.journal)))
  BY <1>3, WriteLands DEF Entry, TInv
<1>6. QED
  BY <1>1, <1>2, <1>3, <1>4, <1>5

\* The entry is gone, or was.
Gone(entry) ==
  \/ Completed(Removed(Disk, entry))
  \/ Removed(Disk, entry) = Disk /\ UNCHANGED <<images, status, faults>>

\* How CleanConfig can end: completed, failed, or cut by a kill or a power loss.
LEMMA CleanConfigLands ==
  ASSUME TInv, CleanConfig
  PROVE  /\ pc = "cleanConfig" /\ UNCHANGED <<wg, timer, txn>>
         /\ \/ Gone("configPrevious") /\ pc' = "cleanKey" /\ run' = run /\ verdict' = verdict
            \/ NotDone(run, RemoveLeaves(Disk, "configPrevious"))
<1>1. /\ pc = "cleanConfig" /\ UNCHANGED <<wg, timer, txn>>
      /\ DurableUnlink(run, "configPrevious", Go("cleanKey", run))
  BY DEF CleanConfig
<1>2. \/ Gone("configPrevious") /\ Go("cleanKey", run)
      \/ DurableUnlink(run, "configPrevious", FALSE)
  BY <1>1 DEF DurableUnlink, StoreCall, Completed, Skip, Gone
<1>3. DurableUnlink(run, "configPrevious", FALSE) => NotDone(run, RemoveLeaves(Disk, "configPrevious"))
  BY UnlinkLands DEF TInv
<1>4. QED
  BY <1>1, <1>2, <1>3 DEF Go

\* How CleanKey can end: completed, failed, or cut by a kill or a power loss.
LEMMA CleanKeyLands ==
  ASSUME TInv, CleanKey
  PROVE  /\ pc = "cleanKey" /\ UNCHANGED <<wg, timer, txn>>
         /\ \/ Gone("credentialPrevious") /\ pc' = "cleanJournal" /\ run' = run /\ verdict' = verdict
            \/ NotDone(run, RemoveLeaves(Disk, "credentialPrevious"))
<1>1. /\ pc = "cleanKey" /\ UNCHANGED <<wg, timer, txn>>
      /\ DurableUnlink(run, "credentialPrevious", Go("cleanJournal", run))
  BY DEF CleanKey
<1>2. \/ Gone("credentialPrevious") /\ Go("cleanJournal", run)
      \/ DurableUnlink(run, "credentialPrevious", FALSE)
  BY <1>1 DEF DurableUnlink, StoreCall, Completed, Skip, Gone
<1>3. DurableUnlink(run, "credentialPrevious", FALSE) =>
        NotDone(run, RemoveLeaves(Disk, "credentialPrevious"))
  BY UnlinkLands DEF TInv
<1>4. QED
  BY <1>1, <1>2, <1>3 DEF Go

\* How CleanJournal can end: completed, failed, or cut by a kill or a power loss.
LEMMA CleanJournalLands ==
  ASSUME TInv, CleanJournal
  PROVE  /\ pc = "cleanJournal" /\ UNCHANGED <<wg, timer, txn>>
         /\ \/ /\ Gone("journal")
               /\ \/ /\ run.caller \in {"recovery", "rollback"} /\ pc' = "ready" /\ verdict' = verdict
                     /\ run' = [run EXCEPT !.caller = "none", !.journal = None]
                  \/ run.caller = "undo" /\ End("failed")
                  \/ run.caller = "keep" /\ End("kept")
                  \/ /\ run.caller = "finalize" /\ pc' = "reset" /\ verdict' = verdict
                     /\ run' = [run EXCEPT !.caller = "post"]
            \/ NotDone(run, RemoveLeaves(Disk, "journal"))
<1> DEFINE Done == CASE run.caller \in {"recovery", "rollback"} ->
                        Go("ready", [run EXCEPT !.caller = "none", !.journal = None])
                   [] run.caller = "undo" -> End("failed")
                   [] run.caller = "keep" -> End("kept")
                   [] run.caller = "finalize" -> Go("reset", [run EXCEPT !.caller = "post"])
<1>1. /\ pc = "cleanJournal" /\ UNCHANGED <<wg, timer, txn>>
      /\ DurableUnlink(run, "journal", Done)
  BY DEF CleanJournal
<1>2. run.caller \in {"recovery", "rollback", "undo", "keep", "finalize"}
  BY <1>1 DEF TInv, Control, CallerAt, CleanSteps
<1>3. Done => \/ /\ run.caller \in {"recovery", "rollback"} /\ pc' = "ready" /\ verdict' = verdict
                 /\ run' = [run EXCEPT !.caller = "none", !.journal = None]
              \/ run.caller = "undo" /\ End("failed")
              \/ run.caller = "keep" /\ End("kept")
              \/ /\ run.caller = "finalize" /\ pc' = "reset" /\ verdict' = verdict
                 /\ run' = [run EXCEPT !.caller = "post"]
  <2>1. CASE run.caller \in {"recovery", "rollback"}
    BY <2>1 DEF Go
  <2>2. CASE run.caller = "undo"
    BY <2>2
  <2>3. CASE run.caller = "keep"
    BY <2>3
  <2>4. CASE run.caller = "finalize"
    BY <2>4 DEF Go
  <2>5. QED
    BY <1>2, <2>1, <2>2, <2>3, <2>4
<1> HIDE DEF Done
<1>4. (Gone("journal") /\ Done) \/ DurableUnlink(run, "journal", FALSE)
  BY <1>1 DEF DurableUnlink, StoreCall, Completed, Skip, Gone
<1>5. DurableUnlink(run, "journal", FALSE) => NotDone(run, RemoveLeaves(Disk, "journal"))
  BY UnlinkLands DEF TInv
<1>6. QED
  BY <1>1, <1>3, <1>4, <1>5

\* How SnapshotConfig can end: completed, failed, or cut by a kill or a power loss.
LEMMA SnapshotConfigLands ==
  ASSUME TInv, SnapshotConfig
  PROVE  LET j == run.journal
         IN /\ pc = "snapshotConfig" /\ UNCHANGED <<wg, timer, txn>>
            /\ \/ /\ Disk.configPrevious = None
                  /\ Completed(Snapshotted(Disk, "config", "configPrevious"))
                  /\ pc' = IF j.operation = "static-restore" THEN "markActivating"
                           ELSE IF j.keyChanged /\ j.hadKey THEN "snapshotKey" ELSE "writeConfig"
                  /\ run' = run /\ verdict' = verdict
               \/ NotDone(run, SnapshotLeaves(Disk, "config", "configPrevious"))
<1> DEFINE j == run.journal
           next == CASE j.operation = "static-restore" -> "markActivating"
                     [] j.keyChanged /\ j.hadKey -> "snapshotKey"
                     [] OTHER -> "writeConfig"
           step == IF j.operation = "static-restore" THEN "markActivating"
                   ELSE IF j.keyChanged /\ j.hadKey THEN "snapshotKey" ELSE "writeConfig"
<1>1. /\ pc = "snapshotConfig" /\ UNCHANGED <<wg, timer, txn>>
      /\ SnapshotFile(run, "config", "configPrevious", Go(next, run))
  BY DEF SnapshotConfig
<1>2. next = step
  <2>1. j # None
    BY <1>1 DEF TInv, Control, CallerAt
  <2>2. ValidateSemantics(j)
    BY <2>1, RunFacts
  <2>3. j.operation = "static-restore" => ~j.keyChanged
    BY <2>2 DEF ValidateSemantics, StaticOperations
  <2> HIDE DEF j
  <2>4. CASE j.operation = "static-restore"
    BY <2>3, <2>4
  <2>5. CASE j.operation # "static-restore"
    BY <2>5
  <2>6. QED
    BY <2>4, <2>5
<1> HIDE DEF next, step
<1>3. \/ Disk.configPrevious = None /\ Completed(Snapshotted(Disk, "config", "configPrevious"))
         /\ Go(next, run)
      \/ SnapshotFile(run, "config", "configPrevious", FALSE)
  BY <1>1 DEF SnapshotFile, StoreCall, Completed, Refuse
<1>4. SnapshotFile(run, "config", "configPrevious", FALSE) =>
        NotDone(run, SnapshotLeaves(Disk, "config", "configPrevious"))
  BY SnapshotLands DEF TInv
<1>5. QED
  BY <1>1, <1>2, <1>3, <1>4 DEF Go, step

\* How SnapshotKey can end: completed, failed, or cut by a kill or a power loss.
LEMMA SnapshotKeyLands ==
  ASSUME TInv, SnapshotKey
  PROVE  /\ pc = "snapshotKey" /\ UNCHANGED <<wg, timer, txn>>
         /\ \/ /\ Disk.credentialPrevious = None
               /\ Completed(Snapshotted(Disk, "credential", "credentialPrevious"))
               /\ pc' = "writeConfig" /\ run' = run /\ verdict' = verdict
            \/ NotDone(run, SnapshotLeaves(Disk, "credential", "credentialPrevious"))
<1>1. /\ pc = "snapshotKey" /\ UNCHANGED <<wg, timer, txn>>
      /\ SnapshotFile(run, "credential", "credentialPrevious", Go("writeConfig", run))
  BY DEF SnapshotKey
<1>2. \/ Disk.credentialPrevious = None
         /\ Completed(Snapshotted(Disk, "credential", "credentialPrevious")) /\ Go("writeConfig", run)
      \/ SnapshotFile(run, "credential", "credentialPrevious", FALSE)
  BY <1>1 DEF SnapshotFile, StoreCall, Completed, Refuse
<1>3. SnapshotFile(run, "credential", "credentialPrevious", FALSE) =>
        NotDone(run, SnapshotLeaves(Disk, "credential", "credentialPrevious"))
  BY SnapshotLands DEF TInv
<1>4. QED
  BY <1>1, <1>2, <1>3 DEF Go

\* The configuration a request writes.
Asks(r) == IF r.mode = "api" THEN [Disk.config EXCEPT !.settings = r.settings]
                             ELSE [Disk.config EXCEPT !.source = "static"]

\* How WriteConfig can end: completed, failed, or cut by a kill or a power loss.
LEMMA WriteConfigLands ==
  ASSUME TInv, WriteConfig
  PROVE  /\ pc = "writeConfig" /\ UNCHANGED <<wg, timer, txn>>
         /\ Asks(run.request) \in Config
         /\ \/ /\ "config" \notin Disk.staging
               /\ Completed(Written(Disk, "config", Asks(run.request)))
               /\ pc' = IF run.request.mode = "api" THEN "markConfig" ELSE "markActivated"
               /\ run' = run /\ verdict' = verdict
            \/ NotDone(run, WriteLeaves(Disk, "config", Asks(run.request)))
<1> DEFINE value == Asks(run.request)
           next == IF run.request.mode = "api" THEN "markConfig" ELSE "markActivated"
<1>1. /\ pc = "writeConfig" /\ UNCHANGED <<wg, timer, txn>>
      /\ AtomicWrite(run, "config", value, Go(next, run))
  BY DEF WriteConfig, Asks
<1>2. value \in Config
  <2>1. run.request \in Request /\ Disk \in Directory
    BY <1>1, RunFacts, TypedFacts DEF TInv
  <2>2. QED
    BY <2>1 DEF Asks, Directory, Config, Request
<1> HIDE DEF value, next
<1>3. \/ "config" \notin Disk.staging /\ Completed(Written(Disk, "config", value)) /\ Go(next, run)
      \/ AtomicWrite(run, "config", value, FALSE)
  BY <1>1 DEF AtomicWrite, StoreCall, Completed, Refuse
<1>4. AtomicWrite(run, "config", value, FALSE) => NotDone(run, WriteLeaves(Disk, "config", value))
  BY <1>2, WriteLands DEF Entry, TInv
<1>5. QED
  BY <1>1, <1>2, <1>3, <1>4 DEF Go, next, value

\* How WriteKey can end: completed, failed, or cut by a kill or a power loss.
LEMMA WriteKeyLands ==
  ASSUME TInv, WriteKey
  PROVE  /\ pc = "writeKey" /\ UNCHANGED <<wg, timer, txn>>
         /\ \/ /\ "credential" \notin Disk.staging
               /\ Completed(Written(Disk, "credential", run.supplied))
               /\ pc' = "markKey" /\ run' = run /\ verdict' = verdict
            \/ NotDone(run, WriteLeaves(Disk, "credential", run.supplied))
<1>1. /\ pc = "writeKey" /\ UNCHANGED <<wg, timer, txn>>
      /\ AtomicWrite(run, "credential", run.supplied, Go("markKey", run))
  BY DEF WriteKey
<1>2. \/ "credential" \notin Disk.staging /\ Completed(Written(Disk, "credential", run.supplied))
         /\ Go("markKey", run)
      \/ AtomicWrite(run, "credential", run.supplied, FALSE)
  BY <1>1 DEF AtomicWrite, StoreCall, Completed, Refuse
<1>3. AtomicWrite(run, "credential", run.supplied, FALSE) =>
        NotDone(run, WriteLeaves(Disk, "credential", run.supplied))
  BY RunFacts, WriteLands DEF Entry, TInv
<1>4. QED
  BY <1>1, <1>2, <1>3 DEF Go

\* How MarkVerifying can end: completed, failed, or cut by a kill or a power loss.
LEMMA MarkVerifyingLands ==
  ASSUME TInv, MarkVerifying
  PROVE  LET j == [run.journal EXCEPT !.phase = "verifying", !.proof = TRUE]
         IN /\ pc = "markVerifying" /\ UNCHANGED <<wg, timer, txn>>
            /\ j \in Journal /\ run.journal \in Journal
            /\ \/ /\ "journal" \notin Disk.staging
                  /\ Completed(Written(Disk, "journal", j))
                  /\ pc' = "verify" /\ run' = [run EXCEPT !.journal = j] /\ verdict' = verdict
               \/ NotDone(run, WriteLeaves(Disk, "journal", j))
<1> DEFINE j == [run.journal EXCEPT !.phase = "verifying", !.proof = TRUE]
<1>1. /\ pc = "markVerifying" /\ UNCHANGED <<wg, timer, txn>>
      /\ PersistJournal(run, j, Go("verify", [run EXCEPT !.journal = j]))
  BY DEF MarkVerifying
<1>2. run.journal \in Journal /\ run.journal \in JournalRecord /\ ValidateSemantics(run.journal)
  BY <1>1, RunFacts DEF TInv, Control, CallerAt
<1>3. j \in Journal
  <2>1. j \in JournalRecord
    BY <1>2, JournalRecords DEF Phases
  <2>2. ValidateSemantics(j)
    BY <1>2, JournalRecords DEF ValidateSemantics, OperationPhases, ProofPhases
  <2>3. QED
    BY <2>1, <2>2, JournalRecords
<1> HIDE DEF j
<1>4. \/ "journal" \notin Disk.staging /\ Completed(Written(Disk, "journal", j))
         /\ Go("verify", [run EXCEPT !.journal = j])
      \/ AtomicWrite(run, "journal", j, FALSE)
  BY <1>1 DEF PersistJournal, AtomicWrite, StoreCall, Completed, Refuse
<1>5. AtomicWrite(run, "journal", j, FALSE) => NotDone(run, WriteLeaves(Disk, "journal", j))
  BY <1>3, WriteLands DEF Entry, TInv
<1>6. QED
  BY <1>1, <1>2, <1>3, <1>4, <1>5 DEF Go, j

\* How RemoveKey can end: completed, failed, or cut by a kill or a power loss.
LEMMA RemoveKeyLands ==
  ASSUME TInv, RemoveKey
  PROVE  LET removes == run.request.mode = "static" /\ run.request.remove
         IN /\ pc = "removeKey" /\ UNCHANGED <<wg, timer>>
            /\ txn' = IF removes THEN [txn EXCEPT !.after.key = None, !.removes = TRUE] ELSE txn
            /\ \/ /\ IF removes THEN Gone("credential") ELSE UNCHANGED <<images, status, faults>>
                  /\ pc' = "enable" /\ run' = run /\ verdict' = verdict
               \/ removes /\ NotDone(run, RemoveLeaves(Disk, "credential"))
<1> DEFINE removes == run.request.mode = "static" /\ run.request.remove
<1>1. /\ pc = "removeKey" /\ UNCHANGED <<wg, timer>>
      /\ IF removes THEN DurableUnlink(run, "credential", Go("enable", run))
                    ELSE Skip(Go("enable", run))
      /\ txn' = IF removes THEN [txn EXCEPT !.after.key = None, !.removes = TRUE] ELSE txn
  BY DEF RemoveKey
<1> HIDE DEF removes
<1>2. CASE removes
  <2>1. \/ Gone("credential") /\ Go("enable", run)
        \/ DurableUnlink(run, "credential", FALSE)
    BY <1>1, <1>2 DEF DurableUnlink, StoreCall, Completed, Skip, Gone
  <2>2. DurableUnlink(run, "credential", FALSE) => NotDone(run, RemoveLeaves(Disk, "credential"))
    BY UnlinkLands DEF TInv
  <2>3. QED
    BY <1>1, <1>2, <2>1, <2>2 DEF Go, removes
<1>3. CASE ~removes
  BY <1>1, <1>3 DEF Skip, Go, removes
<1>4. QED
  BY <1>2, <1>3

\* The outcomes of a command of the runtime.
Calls(results, Done, Failed) ==
  \E r \in results :
    \/ CallEnds(r) /\ (IF r.ok THEN Done ELSE Failed)
    \/ CallCut(r)

\* How a command ends: with its result, with an error, or cut.
LEMMA CallsLand ==
  ASSUME Typed, NEW results, results \subseteq ResultType,
         NEW ACTION Done, NEW ACTION Failed, RuntimeCall(results, Done, Failed)
  PROVE  Calls(results, Done, Failed)
<1>1. PICK r \in results :
        /\ wg' = r.wg
        /\ \/ /\ IF r.fault THEN Spend("runtime") ELSE UNCHANGED faults
              /\ images' = LeftOf(r) /\ status' = r.status
              /\ IF r.ok THEN Done ELSE Failed
           \/ Spend("kill") /\ Killed(LeftOf(r), r.status)
  BY DEF RuntimeCall, LeftOf
<1>2. r.source \in {"static", "api"} /\ r.ok \in BOOLEAN
  BY DEF ResultType
<1>3. images \in Seq(Directory) /\ Len(images) >= 1
  BY TypedFacts DEF Typed
<1>4. CASE Spend("kill") /\ Killed(LeftOf(r), r.status)
  BY <1>1, <1>2, <1>3, <1>4, KilledLands DEF Calls
<1>5. CASE /\ IF r.fault THEN Spend("runtime") ELSE UNCHANGED faults
           /\ images' = LeftOf(r) /\ status' = r.status
           /\ IF r.ok THEN Done ELSE Failed
  BY <1>1, <1>5 DEF Calls, CallEnds
<1>6. QED
  BY <1>1, <1>4, <1>5

\* How Reconcile can end: completed, failed, or cut by a kill or a power loss.
LEMMA ReconcileLands ==
  ASSUME TInv, Reconcile
  PROVE  /\ pc = "reconcile" /\ UNCHANGED <<timer, txn>>
         /\ \/ /\ wg.switching = {} /\ UNCHANGED <<images, status, faults, wg>>
               /\ Go("unstage", run)
            \/ wg.switching # {} /\ Calls(CheckResults, Go("unstage", run), Raise(run))
<1>1. wg.switching # {} => RuntimeCall(CheckResults, Go("unstage", run), Raise(run))
  BY DEF Reconcile
<1>2. RuntimeCall(CheckResults, Go("unstage", run), Raise(run)) =>
        Calls(CheckResults, Go("unstage", run), Raise(run))
  BY CallsLand, CheckTypes DEF TInv
<1>3. QED
  BY <1>1, <1>2 DEF Reconcile, Skip

CandidateResults ==
  {Result([wg EXCEPT !.candidate = FALSE], Disk.config.source, status, TRUE, FALSE)}
    \cup Failures({wg, [wg EXCEPT !.candidate = FALSE]}, {Disk.config.source})

\* A staged candidate is typed.
LEMMA CandidateTypes == ASSUME Typed PROVE CandidateResults \subseteq ResultType
<1>1. wg \in Host /\ [wg EXCEPT !.candidate = FALSE] \in Host /\ status \in {"stale", "good"}
  BY HostTypes DEF Typed
<1>2. Disk.config.source \in {"static", "api"}
  BY SourcedTypes
<1>3. Result([wg EXCEPT !.candidate = FALSE], Disk.config.source, status, TRUE, FALSE) \in ResultType
  BY <1>1, <1>2, ResultIn
<1>4. Failures({wg, [wg EXCEPT !.candidate = FALSE]}, {Disk.config.source}) \subseteq ResultType
  BY <1>1, <1>2, FailureTypes
<1>5. QED
  BY <1>3, <1>4 DEF CandidateResults

\* How CleanupCandidate can end: completed, failed, or cut by a kill or a power loss.
LEMMA CleanupCandidateLands ==
  ASSUME TInv, CleanupCandidate
  PROVE  LET next == IF run.caller = "recovery" THEN "classify" ELSE "unadopt"
         IN /\ pc = "unstage" /\ UNCHANGED <<timer, txn>>
            /\ \/ /\ ~wg.candidate /\ UNCHANGED <<images, status, faults, wg>>
                  /\ Go(next, run)
               \/ wg.candidate /\ Calls(CandidateResults, Go(next, run), Raise(run))
<1> DEFINE next == IF run.caller = "recovery" THEN "classify" ELSE "unadopt"
<1>1. wg.candidate => RuntimeCall(CandidateResults, Go(next, run), Raise(run))
  BY DEF CleanupCandidate, CandidateResults
<1> HIDE DEF next
<1>2. RuntimeCall(CandidateResults, Go(next, run), Raise(run)) =>
        Calls(CandidateResults, Go(next, run), Raise(run))
  BY CallsLand, CandidateTypes DEF TInv
<1>3. QED
  BY <1>1, <1>2 DEF CleanupCandidate, Skip, next

\* How Validate can end: completed, failed, or cut by a kill or a power loss.
LEMMA ValidateLands ==
  ASSUME TInv, Validate
  PROVE  /\ pc = "validate" /\ UNCHANGED <<timer, txn>>
         /\ Calls(ValidationResults, Go("prepare", [run EXCEPT !.caller = "apply"]), End("refused"))
BY CallsLand, ValidationTypes DEF TInv, Validate

\* How Revalidate can end: completed, failed, or cut by a kill or a power loss.
LEMMA RevalidateLands ==
  ASSUME TInv, Revalidate
  PROVE  LET next == IF Activates THEN "activate" ELSE "markActivated"
         IN /\ pc = "revalidate" /\ UNCHANGED <<timer, txn>>
            /\ Calls(ValidationResults, Go(next, run), Raise(run))
<1> DEFINE next == IF Activates THEN "activate" ELSE "markActivated"
<1>1. RuntimeCall(ValidationResults, Go(next, run), Raise(run)) /\ pc = "revalidate"
      /\ UNCHANGED <<timer, txn>>
  BY DEF Revalidate
<1> HIDE DEF next
<1>2. Calls(ValidationResults, Go(next, run), Raise(run))
  BY <1>1, CallsLand, ValidationTypes DEF TInv
<1>3. QED
  BY <1>1, <1>2 DEF next

\* How Activate can end: completed, failed, or cut by a kill or a power loss.
LEMMA ActivateLands ==
  ASSUME TInv, Activate
  PROVE  /\ pc = "activate" /\ UNCHANGED <<timer, txn>>
         /\ Calls(ActivationResults, Go("markActivated", run), Raise(run))
BY CallsLand, ActivationTypes DEF TInv, Activate

\* How RestoreStatic can end: completed, failed, or cut by a kill or a power loss.
LEMMA RestoreStaticLands ==
  ASSUME TInv, RestoreStatic
  PROVE  /\ pc = "restoreStatic" /\ timer' = timer
         /\ \/ /\ Calls({r \in RestoreStaticResults : r.ok}, Go("markActivated", run), FALSE)
               /\ txn' = [txn EXCEPT !.kept = pc' # "idle"]
            \/ /\ Calls({r \in RestoreStaticResults : ~r.ok}, FALSE, Raise(run))
               /\ txn' = txn
<1>1. /\ {r \in RestoreStaticResults : r.ok} \subseteq ResultType
      /\ {r \in RestoreStaticResults : ~r.ok} \subseteq ResultType
  BY RestoreStaticTypes DEF TInv
<1>2. RuntimeCall({r \in RestoreStaticResults : r.ok}, Go("markActivated", run), FALSE) =>
        Calls({r \in RestoreStaticResults : r.ok}, Go("markActivated", run), FALSE)
  BY <1>1, CallsLand DEF TInv
<1>3. RuntimeCall({r \in RestoreStaticResults : ~r.ok}, FALSE, Raise(run)) =>
        Calls({r \in RestoreStaticResults : ~r.ok}, FALSE, Raise(run))
  BY <1>1, CallsLand DEF TInv
<1>4. QED
  BY <1>2, <1>3 DEF RestoreStatic

UnadoptResults ==
  IF MayStillCommit(Disk) /\ "unrecorded rollback" \notin Windows
    THEN {r \in RestoreStaticResults : r.wg.switching = {}}
    ELSE RestoreStaticResults

\* How Unadopt can end: completed, failed, or cut by a kill or a power loss.
LEMMA UnadoptLands ==
  ASSUME TInv, Unadopt
  PROVE  /\ pc = "unadopt" /\ timer' = timer /\ txn' = [txn EXCEPT !.undone = TRUE]
         /\ \/ /\ ~(UndoesAdoption(run.journal) /\ wg.preManaged # None)
               /\ UNCHANGED <<images, status, faults, wg>> /\ Go("restoreConfig", run)
            \/ /\ UndoesAdoption(run.journal) /\ wg.preManaged # None
               /\ Calls(UnadoptResults, Go("restoreConfig", run), Raise(run))
<1>1. UnadoptResults \subseteq ResultType
  BY RestoreStaticTypes DEF TInv, UnadoptResults
<1>2. RuntimeCall(UnadoptResults, Go("restoreConfig", run), Raise(run)) =>
        Calls(UnadoptResults, Go("restoreConfig", run), Raise(run))
  BY <1>1, CallsLand DEF TInv
<1>3. UndoesAdoption(run.journal) /\ wg.preManaged # None =>
        RuntimeCall(UnadoptResults, Go("restoreConfig", run), Raise(run))
  BY DEF Unadopt, UnadoptResults
<1>4. QED
  BY <1>2, <1>3 DEF Unadopt, Skip

\* What a proof makes of the invocation.
ProofFails == IF run.caller = "recovery" THEN RollBack(run) ELSE Raise(run)
ProofEnds ==
  IF status' = "good"
    THEN Go("markVerified", IF run.caller = "apply" THEN [run EXCEPT !.caller = "finalize"] ELSE run)
    ELSE ProofFails

\* How Verify can end: completed, failed, or cut by a kill or a power loss.
LEMMA VerifyLands ==
  ASSUME TInv, Verify
  PROVE  /\ pc = "verify" /\ UNCHANGED <<timer, txn>>
         /\ Calls(CheckResults, ProofEnds, ProofFails)
<1>1. RuntimeCall(CheckResults, ProofEnds, ProofFails) /\ pc = "verify" /\ UNCHANGED <<timer, txn>>
  BY DEF Verify, ProofEnds, ProofFails
<1>2. Calls(CheckResults, ProofEnds, ProofFails)
  BY <1>1, CallsLand, CheckTypes DEF TInv
<1>3. QED
  BY <1>1, <1>2

ResetResults ==
  {Result(wg, Disk.config.source, status, TRUE, FALSE)} \cup Failures({wg}, {Disk.config.source})

\* Resetting the provider state keeps the types.
LEMMA ResetTypes == ASSUME Typed PROVE ResetResults \subseteq ResultType
<1>1. wg \in Host /\ status \in {"stale", "good"}
  BY DEF Typed
<1>2. Disk.config.source \in {"static", "api"}
  BY SourcedTypes
<1>3. Result(wg, Disk.config.source, status, TRUE, FALSE) \in ResultType
  BY <1>1, <1>2, ResultIn
<1>4. Failures({wg}, {Disk.config.source}) \subseteq ResultType
  BY <1>1, <1>2, FailureTypes
<1>5. QED
  BY <1>3, <1>4 DEF ResetResults

\* How Reset can end: completed, failed, or cut by a kill or a power loss.
LEMMA ResetLands ==
  ASSUME TInv, ResetApiState
  PROVE  /\ pc = "reset" /\ UNCHANGED <<timer, txn>>
         /\ \/ UNCHANGED <<images, status, faults, wg>> /\ Go("removeKey", run)
            \/ Calls(ResetResults, Go("removeKey", run), Raise(run))
<1>1. run.request.reset => RuntimeCall(ResetResults, Go("removeKey", run), Raise(run))
  BY DEF ResetApiState, ResetResults
<1>2. RuntimeCall(ResetResults, Go("removeKey", run), Raise(run)) =>
        Calls(ResetResults, Go("removeKey", run), Raise(run))
  BY CallsLand, ResetTypes DEF TInv
<1>3. QED
  BY <1>1, <1>2 DEF ResetApiState, Skip

(* --------------------- each action keeps the types --------------------- *)

\* Where a step that stays typed leads.
Steered == pc' \in Steps /\ run' \in RunType /\ verdict' \in Verdicts /\ Control'

\* Going on within the same part of the engine is typed,
LEMMA GoSteers ==
  ASSUME TInv, NEW next \in Steps, NEW self \in RunType,
         CallerAt(next, self), JournalAt(next, self), Go(next, self)
  PROVE  Steered
BY DEF Go, Steered, Control, TInv, Typed

\* and ending is,
LEMMA EndSteers == ASSUME NEW outcome \in Verdicts, End(outcome) PROVE Steered
BY EndsTyped DEF Steered

\* and so is what an error starts,
LEMMA RunRaises ==
  ASSUME TInv, pc # "idle"
  PROVE  /\ run \in RunType /\ run.request # None
         /\ run.caller = "apply" => run.journal # None
BY DEF TInv, Typed, Control, CallerAt

\* wherever it is raised.
LEMMA RaiseSteers == ASSUME TInv, pc # "idle", Raise(run) PROVE Steered
BY RunRaises, RaiseTyped DEF Steered, TInv

\* A store call that completes keeps the invariant if its next step is steered,
LEMMA DoneStays ==
  ASSUME TInv, NEW after \in Directory, Completed(after), Steered,
         wg' \in Host, timer' \in BOOLEAN, txn' \in TxnType
  PROVE  TInv'
BY DoneTyped DEF Steered, TInv, Typed

\* a step without a call does,
LEMMA SkipStays ==
  ASSUME TInv, UNCHANGED <<images, faults>>, status' \in {"stale", "good"}, Steered,
         wg' \in Host, timer' \in BOOLEAN, txn' \in TxnType
  PROVE  TInv'
BY DEF Steered, TInv, Typed

\* a call that fails or is cut does,
LEMMA FailStays ==
  ASSUME TInv, pc # "idle", NEW leaves, NotDone(run, leaves),
         wg' \in Host, timer' \in BOOLEAN, txn' \in TxnType
  PROVE  TInv'
BY RunRaises, NotDoneTyped

\* and a command of the runtime does.
LEMMA CallStays ==
  ASSUME TInv, NEW results, results \subseteq ResultType, NEW ACTION Done, NEW ACTION Failed,
         Calls(results, Done, Failed), Done => Steered, Failed => Steered,
         timer' \in BOOLEAN, txn' \in TxnType
  PROVE  TInv'
<1>1. PICK r \in results :
        \/ CallEnds(r) /\ (IF r.ok THEN Done ELSE Failed)
        \/ CallCut(r)
  BY DEF Calls
<1>2. CASE CallCut(r)
  BY <1>2, CallTyped
<1>3. CASE CallEnds(r) /\ Steered
  BY <1>3, CallTyped DEF TInv, Typed, Steered
<1>4. QED
  BY <1>1, <1>2, <1>3

\* The images, profiles and history are typed.
LEMMA Hosted ==
  ASSUME TInv
  PROVE  wg \in Host /\ timer \in BOOLEAN /\ txn \in TxnType /\ status \in {"stale", "good"}
         /\ Disk \in Directory
BY TypedFacts DEF TInv, Typed

\* The steps at which the record in memory moves with the one on disk.
LEMMA MarkStays ==
  ASSUME TInv, NEW step, NEW phase \in Phases, NEW next \in Steps,
         run.journal # None, pc # "idle",
         phase \in OperationPhases(run.journal.operation),
         run.journal.proof <=> phase \in ProofPhases,
         Mark(step, phase, next),
         CallerAt(next, Phased(phase)), JournalAt(next, Phased(phase))
  PROVE  TInv'
<1>1. /\ UNCHANGED <<wg, timer, txn>>
      /\ \/ /\ Completed(Written(Disk, "journal", Phased(phase).journal))
            /\ pc' = next /\ run' = Phased(phase) /\ verdict' = verdict
         \/ NotDone(Phased(phase), WriteLeaves(Disk, "journal", Phased(phase).journal))
  BY MarkLands
<1>2. /\ Phased(phase) \in RunType /\ Phased(phase).journal \in Journal
      /\ Phased(phase).journal # None /\ Phased(phase).request = run.request
  BY PhasedTypes
<1>3. wg' \in Host /\ timer' \in BOOLEAN /\ txn' \in TxnType /\ Disk \in Directory
  BY <1>1, Hosted
<1>4. CASE /\ Completed(Written(Disk, "journal", Phased(phase).journal))
           /\ pc' = next /\ run' = Phased(phase) /\ verdict' = verdict
  <2>1. Written(Disk, "journal", Phased(phase).journal) \in Directory
    BY <1>2, <1>3 DEF Written, Directory
  <2>2. Steered
    BY <1>2, <1>4, GoSteers DEF Go
  <2>3. QED
    BY <1>3, <1>4, <2>1, <2>2, DoneStays
<1>5. CASE NotDone(Phased(phase), WriteLeaves(Disk, "journal", Phased(phase).journal))
  BY <1>2, <1>3, <1>5, RunRaises, NotDoneTyped
<1>6. QED
  BY <1>1, <1>4, <1>5

\* Entering and stopping the units keep the types and the control.
LEMMA InvokedTyped ==
  ASSUME TInv, Enter \/ StopUnits
  PROVE  TInv'
<1>1. CASE Enter
  <2>1. pc = "enter" /\ UNCHANGED <<images, wg, status, timer, txn, faults>>
        /\ (End("refused") \/ Go("stop", [run EXCEPT !.recovering = (Disk.journal # None)]))
    BY <1>1 DEF Enter
  <2>2. [run EXCEPT !.recovering = (Disk.journal # None)] \in RunType
        /\ CallerAt("stop", [run EXCEPT !.recovering = (Disk.journal # None)])
        /\ JournalAt("stop", [run EXCEPT !.recovering = (Disk.journal # None)])
    <3>1. run \in RunType /\ run.request # None /\ run.caller = "none" /\ run.journal = None
      BY <2>1 DEF TInv, Typed, Control, CallerAt
    <3> DEFINE self == [run EXCEPT !.recovering = (Disk.journal # None)]
    <3>2. self \in RunType /\ self.request = run.request /\ self.caller = run.caller
          /\ self.journal = run.journal
      BY <3>1 DEF RunType
    <3> HIDE DEF self
    <3>3. CallerAt("stop", self) /\ JournalAt("stop", self)
      BY <3>1, <3>2 DEF CallerAt, JournalAt, RollbackSteps, CleanSteps, ApplySteps, ProofSteps, PostSteps
    <3>4. QED
      BY <3>2, <3>3 DEF self
  <2>3. Steered
    BY <2>1, <2>2, GoSteers, EndSteers DEF Verdicts, Steps
  <2>4. QED
    BY <2>1, <2>3, SkipStays, Hosted
<1>2. CASE StopUnits
  <2>1. pc = "stop" /\ wg' = wg /\ txn' = txn /\ timer' \in BOOLEAN
    BY <1>2, Hosted DEF StopUnits
  <2>2. run \in RunType /\ CallerAt("discard", run) /\ JournalAt("discard", run)
    <3>1. run \in RunType /\ run.request # None /\ run.caller = "none" /\ run.journal = None
      BY <2>1 DEF TInv, Typed, Control, CallerAt
    <3>2. QED
      BY <3>1 DEF CallerAt, JournalAt, RollbackSteps, CleanSteps, ApplySteps, ProofSteps, PostSteps
  <2>3. CASE Go("discard", run) /\ UNCHANGED <<images, status, faults>>
    <3>1. Steered
      BY <2>2, <2>3, GoSteers DEF Steps
    <3>2. QED
      BY <2>1, <2>3, <3>1, SkipStays, Hosted
  <2>4. CASE Spend("runtime") /\ End("refused") /\ UNCHANGED <<images, status>>
    <3>1. Steered
      BY <2>4, EndSteers DEF Verdicts
    <3>2. faults' = faults + 1 /\ faults' \in 0..MaxFaults
      BY <2>4, SpendTyped DEF TInv
    <3>3. Len(images') \in 1..(2 * faults' + 1) /\ images' \in Seq(Directory)
      BY <2>4, <3>2, TypedFacts DEF TInv, Typed
    <3>4. QED
      BY <2>1, <2>4, <3>1, <3>2, <3>3, Hosted DEF TInv, Typed, Steered
  <2>5. CASE Spend("kill") /\ Killed(images, status)
    <3>1. End("killed") /\ (images' = images \/ Lost({})) /\ status' \in {"stale", "good"}
      BY <2>5, KilledImages, TypedFacts, Hosted DEF TInv, Typed
    <3>2. Steered
      BY <3>1, EndSteers DEF Verdicts
    <3>3. faults' = faults + 1 /\ faults' \in 0..MaxFaults /\ faults' \in Nat
      BY <2>5, SpendTyped DEF TInv
    <3>4. Len(images') \in 1..(2 * faults' + 1) /\ images' \in Seq(Directory)
      BY <3>1, <3>3, TypedFacts, LostTyped DEF TInv, Typed
    <3>5. QED
      BY <2>1, <3>1, <3>2, <3>3, <3>4, Hosted DEF TInv, Typed, Steered
  <2>6. QED
    BY <1>2, <2>3, <2>4, <2>5 DEF StopUnits
<1>3. QED
  BY <1>1, <1>2

\* Discard keeps the types and the control.
LEMMA DiscardTyped ==
  ASSUME TInv, DiscardStaging
  PROVE  TInv'
<1> DEFINE after == [Disk EXCEPT !.staging = @ \ PrivateTargets]
           leaves == {[Disk EXCEPT !.staging = @ \ gone] : gone \in SUBSET PrivateTargets}
           self == [run EXCEPT !.caller = "recovery", !.journal = Disk.journal]
<1>1. pc = "discard" /\ UNCHANGED <<wg, timer, txn>>
  BY DiscardLands
<1>2. after \in Directory
  BY Hosted DEF Directory
<1>3. run \in RunType /\ run.request # None /\ run.caller = "none" /\ run.journal = None
  BY <1>1 DEF TInv, Typed, Control, CallerAt
<1>4. Disk.journal # None =>
        /\ self \in RunType /\ self.request # None
        /\ self.caller = "recovery" /\ self.journal # None /\ self.journal \in Journal
  BY <1>3, Hosted DEF RunType, Directory, Callers
<1>5. \/ /\ Completed(after) \/ (after = Disk /\ UNCHANGED <<images, status, faults>>)
         /\ \/ /\ Disk.journal # None /\ pc' = "reconcile" /\ verdict' = verdict
               /\ run' = self
            \/ /\ SetupArtifactsClear(after) /\ Disk.journal = None
               /\ pc' = "ready" /\ run' = run /\ verdict' = verdict
            \/ /\ Disk.journal = None /\ ~SetupArtifactsClear(after) /\ End("stuck")
      \/ NotDone(run, leaves)
  BY DiscardLands
<1> HIDE DEF after, leaves, self
<1>6. CASE NotDone(run, leaves)
  BY <1>1, <1>6, FailStays, Hosted
<1>7. CASE /\ Completed(after) \/ (after = Disk /\ UNCHANGED <<images, status, faults>>)
           /\ \/ /\ Disk.journal # None /\ pc' = "reconcile" /\ verdict' = verdict
                 /\ run' = self
              \/ /\ SetupArtifactsClear(after) /\ Disk.journal = None
                 /\ pc' = "ready" /\ run' = run /\ verdict' = verdict
              \/ /\ Disk.journal = None /\ ~SetupArtifactsClear(after) /\ End("stuck")
  <2>1. ASSUME Disk.journal # None PROVE CallerAt("reconcile", self) /\ JournalAt("reconcile", self)
    BY <1>4, <2>1 DEF CallerAt, JournalAt, RollbackSteps, CleanSteps, ApplySteps, ProofSteps, PostSteps
  <2>2. CallerAt("ready", run) /\ JournalAt("ready", run)
    BY <1>3 DEF CallerAt, JournalAt, RollbackSteps, CleanSteps, ApplySteps, ProofSteps, PostSteps
  <2>3. Steered
    BY <1>3, <1>4, <1>7, <2>1, <2>2, GoSteers, EndSteers DEF Go, Steps, Verdicts
  <2>4. QED
    BY <1>1, <1>2, <1>7, <2>3, DoneStays, SkipStays, Hosted
<1>8. QED
  BY <1>5, <1>6, <1>7

\* From one step of the recovery, the rollback or the clean-up to another: the record stays.
LEMMA RunSteers ==
  ASSUME TInv, NEW next \in Steps, Go(next, run),
         CallerAt(next, run), JournalAt(next, run)
  PROVE  Steered
BY GoSteers DEF TInv, Typed

\* The part of the engine the recovery returns to is kept.
LEMMA CallersKept ==
  ASSUME TInv
  PROVE  /\ pc \in {"reconcile", "unstage"} => CallerAt("unstage", run) /\ JournalAt("unstage", run)
         /\ pc = "unstage" /\ run.caller = "recovery" =>
              CallerAt("classify", run) /\ JournalAt("classify", run)
         /\ pc = "unstage" /\ run.caller # "recovery" =>
              CallerAt("unadopt", run) /\ JournalAt("unadopt", run)
         /\ pc = "unadopt" => CallerAt("restoreConfig", run) /\ JournalAt("restoreConfig", run)
         /\ pc = "restoreConfig" /\ run.journal.operation \in ApiOperations =>
              CallerAt("restoreKey", run) /\ JournalAt("restoreKey", run)
         /\ pc = "restoreConfig" => CallerAt("markRolledBack", run) /\ JournalAt("markRolledBack", run)
         /\ pc = "restoreKey" => CallerAt("dropPreManaged", run) /\ JournalAt("dropPreManaged", run)
         /\ pc = "dropPreManaged" => CallerAt("markRolledBack", run) /\ JournalAt("markRolledBack", run)
         /\ pc = "markRolledBack" => CallerAt("cleanConfig", run) /\ JournalAt("cleanConfig", run)
         /\ pc = "classify" => CallerAt("cleanConfig", run) /\ JournalAt("cleanConfig", run)
         /\ pc = "cleanConfig" => CallerAt("cleanKey", run) /\ JournalAt("cleanKey", run)
         /\ pc = "cleanKey" => CallerAt("cleanJournal", run) /\ JournalAt("cleanJournal", run)
<1>1. CallerAt(pc, run) /\ JournalAt(pc, run)
  BY DEF TInv, Control
<1> USE DEF RollbackSteps, CleanSteps, ApplySteps, ProofSteps, PostSteps
<1>2. pc \in {"reconcile", "unstage"} => CallerAt("unstage", run) /\ JournalAt("unstage", run)
  BY <1>1 DEF CallerAt, JournalAt
<1>3. /\ pc = "unstage" /\ run.caller = "recovery" =>
              CallerAt("classify", run) /\ JournalAt("classify", run)
      /\ pc = "unstage" /\ run.caller # "recovery" =>
              CallerAt("unadopt", run) /\ JournalAt("unadopt", run)
  BY <1>1 DEF CallerAt, JournalAt
<1>4. pc = "unadopt" => CallerAt("restoreConfig", run) /\ JournalAt("restoreConfig", run)
  BY <1>1 DEF CallerAt, JournalAt
<1>5. /\ pc = "restoreConfig" /\ run.journal.operation \in ApiOperations =>
              CallerAt("restoreKey", run) /\ JournalAt("restoreKey", run)
      /\ pc = "restoreConfig" => CallerAt("markRolledBack", run) /\ JournalAt("markRolledBack", run)
  BY <1>1 DEF CallerAt, JournalAt
<1>6. /\ pc = "restoreKey" => CallerAt("dropPreManaged", run) /\ JournalAt("dropPreManaged", run)
      /\ pc = "dropPreManaged" => CallerAt("markRolledBack", run) /\ JournalAt("markRolledBack", run)
  BY <1>1 DEF CallerAt, JournalAt
<1>7. /\ pc = "markRolledBack" => CallerAt("cleanConfig", run) /\ JournalAt("cleanConfig", run)
      /\ pc = "classify" => CallerAt("cleanConfig", run) /\ JournalAt("cleanConfig", run)
  BY <1>1 DEF CallerAt, JournalAt
<1>8. /\ pc = "cleanConfig" => CallerAt("cleanKey", run) /\ JournalAt("cleanKey", run)
      /\ pc = "cleanKey" => CallerAt("cleanJournal", run) /\ JournalAt("cleanJournal", run)
  BY <1>1 DEF CallerAt, JournalAt
<1>9. QED
  BY <1>2, <1>3, <1>4, <1>5, <1>6, <1>7, <1>8

\* Beginning the rollback is typed.
LEMMA RollBackSteers ==
  ASSUME TInv, run.caller = "recovery", run.journal # None, run.request # None, RollBack(run)
  PROVE  Steered
<1> DEFINE self == [run EXCEPT !.caller = "rollback"]
           next == IF run.journal.operation \in ApiOperations THEN "reconcile" ELSE "restoreConfig"
<1>1. run \in RunType
  BY DEF TInv, Typed
<1>2. self \in RunType /\ self.caller = "rollback" /\ self.journal = run.journal
      /\ self.request = run.request
  BY <1>1 DEF RunType, Callers
<1>3. Go(next, self)
  BY <1>2 DEF RollBack
<1>4. next \in Steps
  BY DEF Steps
<1>5. next = "reconcile" => run.journal.operation \in ApiOperations
  OBVIOUS
<1>6. next \in {"reconcile", "restoreConfig"}
  OBVIOUS
<1> HIDE DEF self, next
<1>7. CallerAt(next, self)
  BY <1>2, <1>6 DEF CallerAt, RollbackSteps, CleanSteps, ApplySteps, ProofSteps, PostSteps
<1>8. JournalAt(next, self)
  BY <1>2, <1>5, <1>6 DEF JournalAt, RollbackSteps, CleanSteps, ApplySteps, ProofSteps, PostSteps
<1>9. QED
  BY <1>2, <1>3, <1>4, <1>7, <1>8, GoSteers

\* Recovery keeps the types and the control.
LEMMA RecoveryTyped ==
  ASSUME TInv, Reconcile \/ CleanupCandidate \/ Classify
  PROVE  TInv'
<1>1. CASE Reconcile
  <2>1. pc = "reconcile" /\ timer' \in BOOLEAN /\ txn' \in TxnType
    BY <1>1, ReconcileLands, Hosted
  <2>2. Go("unstage", run) => Steered
    BY <2>1, RunSteers, CallersKept DEF Steps
  <2>3. Raise(run) => Steered
    BY <2>1, RaiseSteers
  <2>4. QED
    BY <1>1, <2>1, <2>2, <2>3, ReconcileLands, SkipStays, CallStays, CheckTypes, Hosted DEF TInv
<1>2. CASE CleanupCandidate
  <2> DEFINE next == IF run.caller = "recovery" THEN "classify" ELSE "unadopt"
  <2>1. pc = "unstage" /\ timer' \in BOOLEAN /\ txn' \in TxnType
    BY <1>2, CleanupCandidateLands, Hosted
  <2>2. Go(next, run) => Steered
    BY <2>1, RunSteers, CallersKept DEF Steps
  <2>3. Raise(run) => Steered
    BY <2>1, RaiseSteers
  <2>4. CandidateResults \subseteq ResultType
    BY CandidateTypes DEF TInv
  <2>5. \/ UNCHANGED <<images, status, faults, wg>> /\ Go(next, run)
        \/ Calls(CandidateResults, Go(next, run), Raise(run))
    BY <1>2, CleanupCandidateLands
  <2> HIDE DEF next
  <2>6. QED
    BY <2>1, <2>2, <2>3, <2>4, <2>5, SkipStays, CallStays, Hosted
<1>3. CASE Classify
  <2>1. /\ pc = "classify" /\ UNCHANGED <<images, wg, status, timer, faults>>
        /\ txn' \in TxnType
    <3>1. \E b \in BOOLEAN : txn' = [txn EXCEPT !.kept = b]
      <4>1. \A b : (txn.kept \/ b) \in BOOLEAN
        OBVIOUS
      <4>2. QED
        BY <1>3, <4>1 DEF Classify
    <3>2. \A b \in BOOLEAN : [txn EXCEPT !.kept = b] \in TxnType
      BY Hosted DEF TxnType
    <3>3. QED
      BY <1>3, <3>1, <3>2 DEF Classify
  <2>2. run \in RunType /\ run.request # None /\ run.caller = "recovery" /\ run.journal # None
    BY <2>1 DEF TInv, Typed, Control, CallerAt
  <2> DEFINE j == run.journal
             restoring == j.operation = "static-restore" /\ j.phase \in {"activating", "activated", "verifying"}
             keeps == restoring /\ StaticRestoreIsVisible
  <2>3. (CASE j.phase \in ClosedPhases \/ keeps -> Go("cleanConfig", run)
          [] restoring /\ StaticRestoreIsUnreadable -> End("stuck")
          [] j.phase = "verifying" /\ status = "good"
               /\ ~(restoring /\ (keeps \/ StaticRestoreIsUnreadable)) -> Go("markVerified", run)
          [] j.phase = "activated" /\ j.operation \in {"api-update", "static"} -> Go("beginProof", run)
          [] OTHER -> RollBack(run))
    BY <1>3 DEF Classify
  <2>4. \/ Go("cleanConfig", run) \/ End("stuck")
        \/ j.phase = "verifying" /\ Go("markVerified", run)
        \/ j.phase = "activated" /\ Go("beginProof", run)
        \/ RollBack(run)
    BY <2>3
  <2>5. Go("cleanConfig", run) => Steered
    BY <2>1, RunSteers, CallersKept DEF Steps
  <2>6. End("stuck") => Steered
    BY EndSteers DEF Verdicts
  <2>7. ASSUME j.phase = "verifying", Go("markVerified", run) PROVE Steered
    <3>1. CallerAt("markVerified", run) /\ JournalAt("markVerified", run)
      BY <2>2, <2>7 DEF CallerAt, JournalAt, RollbackSteps, CleanSteps, ApplySteps, ProofSteps, PostSteps
    <3>2. QED
      BY <2>7, <3>1, RunSteers DEF Steps
  <2>8. ASSUME j.phase = "activated", Go("beginProof", run) PROVE Steered
    <3>1. CallerAt("beginProof", run) /\ JournalAt("beginProof", run)
      BY <2>2, <2>8 DEF CallerAt, JournalAt, RollbackSteps, CleanSteps, ApplySteps, ProofSteps, PostSteps
    <3>2. QED
      BY <2>8, <3>1, RunSteers DEF Steps
  <2>9. RollBack(run) => Steered
    BY <2>2, RollBackSteers
  <2>10. Steered
    BY <2>4, <2>5, <2>6, <2>7, <2>8, <2>9
  <2>11. QED
    BY <2>1, <2>10, SkipStays, Hosted
<1>4. QED
  BY <1>1, <1>2, <1>3

\* Each step of the rollback keeps the types.
LEMMA UndoneTyped ==
  ASSUME TInv, txn' = [txn EXCEPT !.undone = TRUE]
  PROVE  txn' \in TxnType
BY Hosted DEF TxnType

\* The clean-up of a restoration that was refused.
LEMMA RestoreStays ==
  ASSUME TInv, pc # "idle", NEW target, NEW backup, RestoreFails(backup, target),
         \/ target = "config" /\ backup = "configPrevious"
         \/ target = "credential" /\ backup = "credentialPrevious",
         wg' \in Host, timer' \in BOOLEAN, txn' \in TxnType
  PROVE  TInv'
<1>1. Unstaged(Disk, backup) \in Directory
  BY RestoreTypes, Hosted DEF RestoreFails
<1>2. CASE NotDone(run, RestoreLeaves(Disk, backup, target))
           \/ NotDone(run, {Disk, Unstaged(Disk, backup)})
  BY <1>2, FailStays
<1>3. CASE Completed(Unstaged(Disk, backup)) /\ Raise(run)
  BY <1>1, <1>3, RaiseSteers, DoneStays
<1>4. QED
  BY <1>2, <1>3 DEF RestoreFails

\* Unadopt keeps the types and the control.
LEMMA UnadoptTyped == ASSUME TInv, Unadopt PROVE TInv'
<1>1. pc = "unadopt" /\ timer' \in BOOLEAN /\ txn' \in TxnType
  BY UnadoptLands, UndoneTyped, Hosted
<1>2. Go("restoreConfig", run) => Steered
  BY <1>1, RunSteers, CallersKept DEF Steps
<1>3. Raise(run) => Steered
  BY <1>1, RaiseSteers
<1>4. UnadoptResults \subseteq ResultType
  BY RestoreStaticTypes DEF TInv, UnadoptResults
<1>5. QED
  BY <1>1, <1>2, <1>3, <1>4, UnadoptLands, SkipStays, CallStays, Hosted

\* RestoreConfig keeps the types and the control.
LEMMA RestoreConfigTyped == ASSUME TInv, RestoreConfig PROVE TInv'
<1> DEFINE next == IF run.journal.operation \in ApiOperations THEN "restoreKey" ELSE "markRolledBack"
<1>1. pc = "restoreConfig" /\ wg' \in Host /\ timer' \in BOOLEAN /\ txn' \in TxnType
  BY RestoreConfigLands, UndoneTyped, Hosted
<1>2. Go(next, run) => Steered
  BY <1>1, RunSteers, CallersKept DEF Steps
<1>3. \/ /\ \/ RestoresWith("configPrevious", "config")
            \/ UNCHANGED <<images, status, faults>>
         /\ Go(next, run)
      \/ RestoreFails("configPrevious", "config")
      \/ UNCHANGED <<images, status, faults>> /\ End("stuck")
  BY RestoreConfigLands DEF Go
<1> HIDE DEF next
<1>4. CASE RestoresWith("configPrevious", "config") /\ Go(next, run)
  <2>1. Restored(Disk, "configPrevious", "config") \in Directory
    BY <1>4, RestoreTypes, Hosted DEF RestoresWith
  <2>2. QED
    BY <1>1, <1>2, <1>4, <2>1, DoneStays DEF RestoresWith
<1>5. CASE RestoreFails("configPrevious", "config")
  BY <1>1, <1>5, RestoreStays
<1>6. CASE UNCHANGED <<images, status, faults>> /\ (Go(next, run) \/ End("stuck"))
  <2>1. Steered
    BY <1>2, <1>6, EndSteers DEF Verdicts
  <2>2. QED
    BY <1>1, <1>6, <2>1, SkipStays, Hosted
<1>7. QED
  BY <1>3, <1>4, <1>5, <1>6

\* RestoreKey keeps the types and the control.
LEMMA RestoreKeyTyped == ASSUME TInv, RestoreKey PROVE TInv'
<1>1. pc = "restoreKey" /\ wg' \in Host /\ timer' \in BOOLEAN /\ txn' \in TxnType
  BY RestoreKeyLands, Hosted
<1>2. Go("dropPreManaged", run) => Steered
  BY <1>1, RunSteers, CallersKept DEF Steps
<1>3. \/ /\ \/ Completed(Removed(Disk, "credential"))
            \/ RestoresWith("credentialPrevious", "credential")
            \/ UNCHANGED <<images, status, faults>>
         /\ Go("dropPreManaged", run)
      \/ NotDone(run, RemoveLeaves(Disk, "credential"))
      \/ RestoreFails("credentialPrevious", "credential")
      \/ UNCHANGED <<images, status, faults>> /\ End("stuck")
  BY RestoreKeyLands DEF Go
<1>4. CASE RestoresWith("credentialPrevious", "credential") /\ Go("dropPreManaged", run)
  <2>1. Restored(Disk, "credentialPrevious", "credential") \in Directory
    BY <1>4, RestoreTypes, Hosted DEF RestoresWith
  <2>2. QED
    BY <1>1, <1>2, <1>4, <2>1, DoneStays DEF RestoresWith
<1>5. CASE Completed(Removed(Disk, "credential")) /\ Go("dropPreManaged", run)
  <2>1. Removed(Disk, "credential") \in Directory
    BY RemoveTypes, Hosted
  <2>2. QED
    BY <1>1, <1>2, <1>5, <2>1, DoneStays
<1>6. CASE RestoreFails("credentialPrevious", "credential")
  BY <1>1, <1>6, RestoreStays
<1>7. CASE NotDone(run, RemoveLeaves(Disk, "credential"))
  BY <1>1, <1>7, FailStays
<1>8. CASE UNCHANGED <<images, status, faults>> /\ (Go("dropPreManaged", run) \/ End("stuck"))
  <2>1. Steered
    BY <1>2, <1>8, EndSteers DEF Verdicts
  <2>2. QED
    BY <1>1, <1>8, <2>1, SkipStays, Hosted
<1>9. QED
  BY <1>3, <1>4, <1>5, <1>6, <1>7, <1>8

\* A command that fails or is cut and leaves the directory as it was.
LEMMA FaultStays ==
  ASSUME TInv, NEW fault, Spend(fault), Steered,
         \/ images' = images /\ status' = status
         \/ Lost({}) /\ status' = "stale",
         wg' \in Host, timer' \in BOOLEAN, txn' \in TxnType
  PROVE  TInv'
<1>1. faults' = faults + 1 /\ faults' \in 0..MaxFaults /\ faults' \in Nat
  BY SpendTyped DEF TInv
<1>2. images' \in Seq(Directory) /\ Len(images') \in 1..(2 * faults' + 1)
  BY <1>1, LostTyped, TypedFacts DEF TInv, Typed
<1>3. status' \in {"stale", "good"}
  BY Hosted
<1>4. QED
  BY <1>1, <1>2, <1>3 DEF TInv, Typed, Steered

\* A kill between two calls keeps the invariant.
LEMMA KilledStays ==
  ASSUME TInv, Spend("kill"), Killed(images, status),
         wg' \in Host, timer' \in BOOLEAN, txn' \in TxnType
  PROVE  TInv'
<1>1. /\ End("killed")
      /\ \/ images' = images /\ status' = status
         \/ Lost({}) /\ status' = "stale"
  BY KilledImages, TypedFacts DEF TInv, Typed
<1>2. Steered
  BY <1>1, EndSteers DEF Verdicts
<1>3. QED
  BY <1>1, <1>2, FaultStays

\* Drop keeps the types and the control.
LEMMA DropTyped == ASSUME TInv, DropPreManaged PROVE TInv'
<1> DEFINE dropped == [wg EXCEPT !.preManaged = None]
<1>1. pc = "dropPreManaged" /\ timer' \in BOOLEAN /\ txn' \in TxnType
  BY Hosted DEF DropPreManaged
<1>2. dropped \in Host /\ wg \in Host
  BY Hosted, HostTypes
<1> HIDE DEF dropped
<1>3. /\ wg' \in {wg, dropped}
      /\ \/ Skip(Go("markRolledBack", run))
         \/ Spend("error") /\ UNCHANGED <<images, status>> /\ Raise(run)
         \/ Spend("kill") /\ Killed(images, status)
  BY DEF DropPreManaged, dropped
<1>4. wg' \in Host
  BY <1>2, <1>3
<1>5. CASE Skip(Go("markRolledBack", run))
  <2>1. Steered
    BY <1>1, <1>5, RunSteers, CallersKept DEF Steps, Skip
  <2>2. QED
    BY <1>1, <1>4, <1>5, <2>1, SkipStays, Hosted DEF Skip
<1>6. CASE Spend("error") /\ UNCHANGED <<images, status>> /\ Raise(run)
  BY <1>1, <1>4, <1>6, RaiseSteers, FaultStays
<1>7. CASE Spend("kill") /\ Killed(images, status)
  BY <1>1, <1>4, <1>7, KilledStays
<1>8. QED
  BY <1>3, <1>5, <1>6, <1>7

\* MarkRolledBack keeps the types and the control.
LEMMA MarkRolledBackTyped == ASSUME TInv, MarkRolledBack PROVE TInv'
<1>1. pc = "markRolledBack" /\ wg' \in Host /\ timer' \in BOOLEAN /\ txn' \in TxnType
  BY MarkRolledBackLands, Hosted
<1>2. Go("cleanConfig", run) => Steered
  BY <1>1, RunSteers, CallersKept DEF Steps
<1>3. Written(Disk, "journal", RolledBack(run.journal)) \in Directory
  BY MarkRolledBackLands, Hosted DEF Written, Directory
<1>4. \/ Completed(Written(Disk, "journal", RolledBack(run.journal))) /\ Go("cleanConfig", run)
      \/ NotDone(run, WriteLeaves(Disk, "journal", RolledBack(run.journal)))
  BY MarkRolledBackLands DEF Go
<1>5. QED
  BY <1>1, <1>2, <1>3, <1>4, DoneStays, FailStays

\* Removing an entry keeps the invariant.
LEMMA GoneStays ==
  ASSUME TInv, NEW entry \in {"journal", "credential", "configPrevious", "credentialPrevious"},
         Gone(entry), Steered, wg' \in Host, timer' \in BOOLEAN, txn' \in TxnType
  PROVE  TInv'
<1>1. Removed(Disk, entry) \in Directory
  BY RemoveTypes, Hosted
<1>2. QED
  BY <1>1, DoneStays, SkipStays, Hosted DEF Gone

\* CleanUp keeps the types and the control.
LEMMA CleanUpTyped == ASSUME TInv, CleanUp PROVE TInv'
<1>1. CASE CleanConfig
  <2>1. pc = "cleanConfig" /\ wg' \in Host /\ timer' \in BOOLEAN /\ txn' \in TxnType
    BY <1>1, CleanConfigLands, Hosted
  <2>2. Go("cleanKey", run) => Steered
    BY <2>1, RunSteers, CallersKept DEF Steps
  <2>3. Gone("configPrevious") /\ Go("cleanKey", run) => TInv'
    BY <2>1, <2>2, GoneStays
  <2>4. QED
    BY <1>1, <2>1, <2>3, CleanConfigLands, FailStays DEF Go
<1>2. CASE CleanKey
  <2>1. pc = "cleanKey" /\ wg' \in Host /\ timer' \in BOOLEAN /\ txn' \in TxnType
    BY <1>2, CleanKeyLands, Hosted
  <2>2. Go("cleanJournal", run) => Steered
    BY <2>1, RunSteers, CallersKept DEF Steps
  <2>3. Gone("credentialPrevious") /\ Go("cleanJournal", run) => TInv'
    BY <2>1, <2>2, GoneStays
  <2>4. QED
    BY <1>2, <2>1, <2>3, CleanKeyLands, FailStays DEF Go
<1>3. CASE CleanJournal
  <2>1. pc = "cleanJournal" /\ wg' \in Host /\ timer' \in BOOLEAN /\ txn' \in TxnType
    BY <1>3, CleanJournalLands, Hosted
  <2>2. run \in RunType /\ run.request # None /\ run.journal # None
    BY <2>1 DEF TInv, Typed, Control, CallerAt
  <2>3. ASSUME Go("ready", [run EXCEPT !.caller = "none", !.journal = None]) PROVE Steered
    <3> DEFINE self == [run EXCEPT !.caller = "none", !.journal = None]
    <3>1. self \in RunType /\ self.request = run.request /\ self.caller = "none" /\ self.journal = None
      BY <2>2 DEF RunType, Callers
    <3> HIDE DEF self
    <3>2. CallerAt("ready", self) /\ JournalAt("ready", self)
      BY <2>2, <3>1 DEF CallerAt, JournalAt, RollbackSteps, CleanSteps, ApplySteps, ProofSteps, PostSteps
    <3>3. QED
      BY <2>3, <3>1, <3>2, GoSteers DEF Steps, self
  <2>4. ASSUME Go("reset", [run EXCEPT !.caller = "post"]) PROVE Steered
    <3> DEFINE self == [run EXCEPT !.caller = "post"]
    <3>1. self \in RunType /\ self.request = run.request /\ self.caller = "post"
          /\ self.journal = run.journal
      BY <2>2 DEF RunType, Callers
    <3> HIDE DEF self
    <3>2. CallerAt("reset", self) /\ JournalAt("reset", self)
      BY <2>2, <3>1 DEF CallerAt, JournalAt, RollbackSteps, CleanSteps, ApplySteps, ProofSteps, PostSteps
    <3>3. QED
      BY <2>4, <3>1, <3>2, GoSteers DEF Steps, self
  <2>5. (End("failed") \/ End("kept")) => Steered
    BY EndSteers DEF Verdicts
  <2>6. \/ Gone("journal") /\ Steered
        \/ NotDone(run, RemoveLeaves(Disk, "journal"))
    BY <1>3, <2>3, <2>4, <2>5, CleanJournalLands DEF Go
  <2>7. QED
    BY <2>1, <2>6, GoneStays, FailStays
<1>4. QED
  BY <1>1, <1>2, <1>3 DEF CleanUp

\* The record a request starts with.
LEMMA NewRecord ==
  ASSUME Typed, NEW r \in Request
  PROVE  /\ NewJournal(r) \in Journal
         /\ NewJournal(r).phase = "prepared"
         /\ r.mode = "api" <=> NewJournal(r).operation \in ApiOperations
<1>1. /\ Disk \in Directory /\ r.mode \in {"api", "static"} /\ r.restore \in BOOLEAN
  BY TypedFacts DEF Request
<1> DEFINE operation == CASE r.mode = "static" -> IF r.restore THEN "static-restore" ELSE "static"
                          [] r.mode = "api" /\ Disk.config.source = "api" -> "api-update"
                          [] OTHER -> IF wg.profile # None THEN "adopt" ELSE "provision"
<1>2. /\ operation \in ApiOperations \cup StaticOperations
      /\ r.mode = "api" <=> operation \in ApiOperations
  BY <1>1 DEF ApiOperations, StaticOperations
<1> HIDE DEF operation
<1> DEFINE hadKey == Disk.credential # None
           hadPreManaged == wg.preManaged # None
           keyChanged == r.mode = "api" /\ KeyChanges(Disk, r)
<1>3. hadKey \in BOOLEAN /\ hadPreManaged \in BOOLEAN /\ keyChanged \in BOOLEAN
      /\ (r.mode = "api" => hadKey \/ keyChanged) /\ (r.mode # "api" => ~keyChanged)
  BY DEF KeyChanges
<1>4. NewJournal(r) = [operation |-> operation, phase |-> "prepared", hadKey |-> hadKey,
                       hadPreManaged |-> hadPreManaged, keyChanged |-> keyChanged, proof |-> FALSE]
  BY DEF NewJournal, operation
<1> HIDE DEF hadKey, hadPreManaged, keyChanged
<1>5. NewJournal(r) \in JournalRecord /\ NewJournal(r).phase = "prepared"
      /\ NewJournal(r).operation = operation
  <2>1. "prepared" \in Phases
    BY DEF Phases
  <2>2. NewJournal(r) \in [operation : ApiOperations \cup StaticOperations, phase : Phases,
                          hadKey : BOOLEAN, hadPreManaged : BOOLEAN, keyChanged : BOOLEAN,
                          proof : BOOLEAN]
    BY <1>2, <1>3, <1>4, <2>1
  <2>3. NewJournal(r) \in JournalRecord
    BY <2>2, JournalRecords
  <2>4. NewJournal(r).phase = "prepared" /\ NewJournal(r).operation = operation
    BY <1>4
  <2>5. QED
    BY <2>3, <2>4
<1>6. ValidateSemantics(NewJournal(r))
  BY <1>1, <1>2, <1>3, <1>4 DEF ValidateSemantics, OperationPhases, ProofPhases, ApiOperations,
    StaticOperations
<1>7. NewJournal(r) \in Journal
  BY <1>5, <1>6, JournalRecords
<1>8. QED
  BY <1>2, <1>5, <1>7

\* What a request asks for is a source, settings and a key.
LEMMA TripleTypes ==
  ASSUME NEW d \in Directory
  PROVE  Triple(d) \in Triples /\ Triple(d).source = d.config.source
         /\ Triple(d).settings = d.config.settings /\ Triple(d).key = d.credential
BY DEF Triple, Triples, Directory, Config

\* The history a request starts is typed.
LEMMA AskedTypes ==
  ASSUME TInv, NEW r \in Request
  PROVE  Asked(r, run.supplied) \in Triples
<1>1. Disk \in Directory /\ run.supplied \in Keys \cup {None}
  BY Hosted, RunFacts
<1>2. EffectiveKey(Disk, run.supplied) \in Keys \cup {None}
  BY <1>1 DEF EffectiveKey, Directory
<1>3. CASE r.mode = "api"
  BY <1>2, <1>3 DEF Asked, Triples, Request
<1>4. CASE r.mode # "api"
  BY <1>1, <1>4, TripleTypes DEF Asked, Triples
<1>5. QED
  BY <1>3, <1>4

\* The history a request starts.
Started(r) ==
  [before |-> Triple(Disk), after |-> Asked(r, run.supplied), profile |-> wg.profile,
   adopts |-> UndoesAdoption(NewJournal(r)), kept |-> FALSE, undone |-> FALSE,
   removes |-> txn.removes /\ Len(images) > 1]
Admitted(r) ==
  r.mode = "api" =>
    /\ PrecheckAccepts(Disk, r, run.supplied, run.recovering)
    /\ RetainedKeyMatches(Disk, r, run.supplied)
    /\ ~(Disk.config.source = "api" /\ wg.profile = None)
Opened(r) == [run EXCEPT !.journal = NewJournal(r)]
OpenedApply(r) == [Opened(r) EXCEPT !.caller = "apply"]

\* How Begin can end: completed, failed, or cut by a kill or a power loss.
LEMMA BeginLands ==
  ASSUME TInv, Begin
  PROVE  LET r == run.request
         IN /\ pc = "ready" /\ UNCHANGED <<images, wg, status, timer, faults>>
            /\ \/ /\ txn' = txn
                  /\ \/ End("blocked") \/ End("refused")
                     \/ ~SetupArtifactsClear(Disk) /\ End("stuck")
               \/ /\ SetupArtifactsClear(Disk) /\ ~wg.candidate /\ wg.switching = {} /\ Admitted(r)
                  /\ txn' = Started(r)
                  /\ IF r.mode = "api" THEN Go("validate", Opened(r))
                                       ELSE Go("prepare", OpenedApply(r))
<1> DEFINE r == run.request
           blocked == wg.candidate \/ wg.switching # {}
           stuck == ~SetupArtifactsClear(Disk)
           begins == /\ txn' = Started(r)
                     /\ IF r.mode = "api" THEN Go("validate", Opened(r))
                                          ELSE Go("prepare", OpenedApply(r))
<1>1. /\ pc = "ready" /\ UNCHANGED <<images, wg, status, timer, faults>>
      /\ CASE blocked -> End("blocked") /\ UNCHANGED txn
           [] ~blocked /\ stuck -> End("stuck") /\ UNCHANGED txn
           [] ~blocked /\ ~stuck /\ ~Admitted(r) -> End("refused") /\ UNCHANGED txn
           [] OTHER -> begins
  BY DEF Begin, Admitted, Started, Opened, OpenedApply
<1> HIDE DEF begins
<1>2. CASE blocked
  BY <1>1, <1>2
<1>3. CASE ~blocked /\ stuck
  BY <1>1, <1>3
<1>4. CASE ~blocked /\ ~stuck /\ ~Admitted(r)
  BY <1>1, <1>4
<1>5. CASE ~blocked /\ ~stuck /\ Admitted(r)
  BY <1>1, <1>5 DEF begins
<1>6. QED
  BY <1>2, <1>3, <1>4, <1>5

\* The record a request opens is typed.
LEMMA OpenedTypes ==
  ASSUME TInv, NEW r \in Request, run.request = r, run.caller = "none"
  PROVE  /\ Opened(r) \in RunType /\ OpenedApply(r) \in RunType
         /\ Opened(r).request = r /\ Opened(r).caller = "none" /\ Opened(r).journal = NewJournal(r)
         /\ OpenedApply(r).request = r /\ OpenedApply(r).caller = "apply"
         /\ OpenedApply(r).journal = NewJournal(r)
         /\ Opened(r).supplied = run.supplied /\ OpenedApply(r).supplied = run.supplied
<1>1. run \in RunType /\ NewJournal(r) \in Journal
  BY NewRecord DEF TInv, Typed
<1>2. QED
  BY <1>1 DEF Opened, OpenedApply, RunType, Callers

\* Begin keeps the types and the control.
LEMMA BeginTyped == ASSUME TInv, Begin PROVE TInv'
<1> DEFINE r == run.request
<1>1. pc = "ready" /\ UNCHANGED <<images, wg, status, timer, faults>>
  BY BeginLands
<1>2. r \in Request /\ r # None /\ run.caller = "none"
  BY <1>1, RunFacts DEF TInv, Control, CallerAt
<1>3. NewJournal(r) \in Journal /\ NewJournal(r).phase = "prepared" /\ NewJournal(r) # None
      /\ (r.mode = "api" <=> NewJournal(r).operation \in ApiOperations)
  BY <1>2, NewRecord, NoneApart DEF TInv
<1>4. Started(r) \in TxnType
  <2>1. UndoesAdoption(NewJournal(r)) \in BOOLEAN /\ (txn.removes /\ Len(images) > 1) \in BOOLEAN
    BY DEF UndoesAdoption
  <2>2. Triple(Disk) \in Triples /\ Asked(r, run.supplied) \in Triples
        /\ wg.profile \in Profiles \cup {None}
    BY <1>2, Hosted, TripleTypes, AskedTypes, HostTypes
  <2>3. QED
    BY <2>1, <2>2 DEF Started, TxnType
<1>5. (End("blocked") \/ End("refused") \/ End("stuck")) => Steered
  BY EndSteers DEF Verdicts
<1>6. ASSUME r.mode = "api", Go("validate", Opened(r)) PROVE Steered
  <2>1. CallerAt("validate", Opened(r)) /\ JournalAt("validate", Opened(r))
    BY <1>2, <1>3, <1>6, OpenedTypes DEF CallerAt, JournalAt, RollbackSteps, CleanSteps, ApplySteps, ProofSteps, PostSteps
  <2>2. QED
    BY <1>2, <1>6, <2>1, OpenedTypes, GoSteers DEF Steps
<1>7. ASSUME r.mode # "api", Go("prepare", OpenedApply(r)) PROVE Steered
  <2>1. CallerAt("prepare", OpenedApply(r)) /\ JournalAt("prepare", OpenedApply(r))
    BY <1>2, <1>3, <1>7, OpenedTypes DEF CallerAt, JournalAt, RollbackSteps, CleanSteps, ApplySteps, ProofSteps, PostSteps
  <2>2. QED
    BY <1>2, <1>7, <2>1, OpenedTypes, GoSteers DEF Steps
<1>8. Steered /\ txn' \in TxnType
  BY <1>4, <1>5, <1>6, <1>7, BeginLands, Hosted
<1>9. QED
  BY <1>1, <1>8, SkipStays, Hosted

\* Validate keeps the types and the control.
LEMMA ValidateTyped == ASSUME TInv, Validate PROVE TInv'
<1>1. pc = "validate" /\ timer' \in BOOLEAN /\ txn' \in TxnType
  BY ValidateLands, Hosted
<1>2. run \in RunType /\ run.request # None /\ run.journal # None /\ JournalAt("validate", run)
  BY <1>1 DEF TInv, Typed, Control, CallerAt
<1>3. ASSUME Go("prepare", [run EXCEPT !.caller = "apply"]) PROVE Steered
  <2> DEFINE self == [run EXCEPT !.caller = "apply"]
  <2>1. self \in RunType /\ self.request = run.request /\ self.caller = "apply"
        /\ self.journal = run.journal
    BY <1>2 DEF RunType, Callers
  <2> HIDE DEF self
  <2>2. CallerAt("prepare", self) /\ JournalAt("prepare", self)
    BY <1>2, <2>1 DEF CallerAt, JournalAt, RollbackSteps, CleanSteps, ApplySteps, ProofSteps, PostSteps
  <2>3. QED
    BY <1>3, <2>1, <2>2, GoSteers DEF Steps, self
<1>4. End("refused") => Steered
  BY EndSteers DEF Verdicts
<1>5. QED
  BY <1>1, <1>3, <1>4, ValidateLands, ValidationTypes, CallStays DEF TInv

\* The phase that is marked next is one of the operation.
LEMMA PhasedAt ==
  ASSUME TInv, run.journal # None, NEW phase \in Phases,
         phase \in OperationPhases(run.journal.operation),
         run.journal.proof <=> phase \in ProofPhases
  PROVE  /\ Phased(phase).journal # None /\ Phased(phase).journal.phase = phase
         /\ Phased(phase).journal.operation = run.journal.operation
         /\ Phased(phase).journal.keyChanged = run.journal.keyChanged
         /\ Phased(phase).journal.hadKey = run.journal.hadKey
         /\ Phased(phase).journal.hadPreManaged = run.journal.hadPreManaged
         /\ Phased(phase).request = run.request /\ Phased(phase).caller = run.caller
<1>1. run.journal \in Journal
  BY RunFacts
<1>2. run.journal \in JournalRecord
  BY <1>1, JournalRecords
<1>3. /\ Phased(phase).journal = [run.journal EXCEPT !.phase = phase] /\ Phased(phase).journal # None
      /\ Phased(phase).request = run.request /\ Phased(phase).caller = run.caller
  BY PhasedTypes
<1>4. QED
  BY <1>2, <1>3, JournalRecords

\* The record carries no proof before the proof begins.
LEMMA Unproved ==
  ASSUME TInv, run.journal # None
  PROVE  /\ run.journal.proof <=> run.journal.phase \in ProofPhases
         /\ run.journal.phase \in OperationPhases(run.journal.operation)
         /\ run.journal.operation \in ApiOperations \cup StaticOperations
         /\ run.journal.keyChanged \in BOOLEAN /\ run.journal.hadKey \in BOOLEAN
         /\ run.journal.keyChanged => run.journal.operation \in ApiOperations
<1>1. run.journal \in JournalRecord /\ ValidateSemantics(run.journal)
  BY RunFacts
<1>2. run.journal.operation \in ApiOperations \cup StaticOperations
      /\ run.journal.keyChanged \in BOOLEAN /\ run.journal.hadKey \in BOOLEAN
  BY <1>1, JournalRecords
<1>3. QED
  BY <1>1, <1>2 DEF ValidateSemantics

\* The steps that mark a phase keep the types and the control.
LEMMA MarksTyped ==
  ASSUME TInv, \/ Prepare \/ MarkConfig \/ MarkKey \/ MarkActivating \/ MarkActivated \/ MarkVerified
  PROVE  TInv'
<1>0. /\ CallerAt(pc, run) /\ JournalAt(pc, run)
  BY DEF TInv, Control
<1> USE DEF RollbackSteps, CleanSteps, ApplySteps, ProofSteps, PostSteps
<1>1. CASE Prepare
  <2>1. pc = "prepare" /\ Mark("prepare", "prepared", "snapshotConfig")
    BY <1>1 DEF Prepare, Mark
  <2>2. run.journal # None /\ run.journal.phase = "prepared" /\ run.caller = "apply"
        /\ run.request # None
    BY <1>0, <2>1 DEF CallerAt, JournalAt
  <2>3. "prepared" \in Phases /\ "prepared" \in OperationPhases(run.journal.operation)
        /\ (run.journal.proof <=> "prepared" \in ProofPhases)
    BY <2>2, Unproved DEF Phases
  <2>4. CallerAt("snapshotConfig", Phased("prepared"))
    BY <2>2, <2>3, PhasedAt DEF CallerAt
  <2>5. JournalAt("snapshotConfig", Phased("prepared"))
    BY <1>0, <2>1, <2>2, <2>3, PhasedAt DEF JournalAt
  <2>6. QED
    BY <2>1, <2>2, <2>3, <2>4, <2>5, MarkStays DEF Steps
<1>2. CASE MarkConfig
  <2> DEFINE next == CASE run.journal.keyChanged -> "writeKey"
                       [] ~run.journal.keyChanged /\ Activates -> "activate"
                       [] OTHER -> "markActivated"
  <2>1. pc = "markConfig" /\ Mark("markConfig", "config", next)
    BY <1>2 DEF MarkConfig, Mark
  <2>2. run.journal # None /\ run.journal.phase = "prepared" /\ run.caller = "apply"
        /\ run.journal.operation \in ApiOperations /\ run.request # None
    BY <1>0, <2>1 DEF CallerAt, JournalAt
  <2>3. "config" \in Phases /\ "config" \in OperationPhases(run.journal.operation)
        /\ (run.journal.proof <=> "config" \in ProofPhases)
    BY <2>2, Unproved DEF Phases, OperationPhases, ProofPhases
  <2>4. /\ next \in {"writeKey", "activate", "markActivated"}
        /\ next = "writeKey" => run.journal.keyChanged
    BY Unproved, <2>2
  <2> HIDE DEF next
  <2>5. CallerAt(next, Phased("config"))
    BY <2>2, <2>3, <2>4, PhasedAt DEF CallerAt
  <2>6. JournalAt(next, Phased("config"))
    BY <1>0, <2>1, <2>2, <2>3, <2>4, PhasedAt DEF JournalAt
  <2>7. QED
    BY <2>1, <2>2, <2>3, <2>4, <2>5, <2>6, MarkStays DEF Steps
<1>3. CASE MarkKey
  <2>1. pc = "markKey" /\ Mark("markKey", "credential", "revalidate")
    BY <1>3 DEF MarkKey, Mark
  <2>2. run.journal # None /\ run.journal.phase = "config" /\ run.caller = "apply"
        /\ run.journal.operation \in ApiOperations /\ run.request # None
    BY <1>0, <2>1 DEF CallerAt, JournalAt
  <2>3. "credential" \in Phases /\ "credential" \in OperationPhases(run.journal.operation)
        /\ (run.journal.proof <=> "credential" \in ProofPhases)
    BY <2>2, Unproved DEF Phases, OperationPhases, ProofPhases
  <2>4. CallerAt("revalidate", Phased("credential"))
    BY <2>2, <2>3, PhasedAt DEF CallerAt
  <2>5. JournalAt("revalidate", Phased("credential"))
    BY <1>0, <2>1, <2>2, <2>3, PhasedAt DEF JournalAt
  <2>6. QED
    BY <2>1, <2>2, <2>3, <2>4, <2>5, MarkStays DEF Steps
<1>4. CASE MarkActivating
  <2>1. pc = "markActivating" /\ Mark("markActivating", "activating", "restoreStatic")
    BY <1>4 DEF MarkActivating, Mark
  <2>2. run.journal # None /\ run.journal.phase = "prepared" /\ run.caller = "apply"
        /\ run.journal.operation = "static-restore" /\ run.request # None
    BY <1>0, <2>1 DEF CallerAt, JournalAt
  <2>3. "activating" \in Phases /\ "activating" \in OperationPhases(run.journal.operation)
        /\ (run.journal.proof <=> "activating" \in ProofPhases)
    BY <2>2, Unproved DEF Phases, OperationPhases, ProofPhases
  <2>4. CallerAt("restoreStatic", Phased("activating"))
    BY <2>2, <2>3, PhasedAt DEF CallerAt
  <2>5. JournalAt("restoreStatic", Phased("activating"))
    BY <1>0, <2>1, <2>2, <2>3, PhasedAt DEF JournalAt
  <2>6. QED
    BY <2>1, <2>2, <2>3, <2>4, <2>5, MarkStays DEF Steps
<1>5. CASE MarkActivated
  <2>1. pc = "markActivated" /\ Mark("markActivated", "activated", "beginProof")
    BY <1>5 DEF MarkActivated, Mark
  <2>2. run.journal # None /\ run.journal.phase \in {"prepared", "config", "credential", "activating"}
        /\ run.caller = "apply" /\ run.request # None
    BY <1>0, <2>1 DEF CallerAt, JournalAt
  <2>3. "activated" \in Phases /\ "activated" \in OperationPhases(run.journal.operation)
        /\ (run.journal.proof <=> "activated" \in ProofPhases)
    BY <2>2, Unproved DEF Phases, OperationPhases, ProofPhases
  <2>4. CallerAt("beginProof", Phased("activated"))
    BY <2>2, <2>3, PhasedAt DEF CallerAt
  <2>5. JournalAt("beginProof", Phased("activated"))
    BY <1>0, <2>1, <2>2, <2>3, PhasedAt DEF JournalAt
  <2>6. QED
    BY <2>1, <2>2, <2>3, <2>4, <2>5, MarkStays DEF Steps
<1>6. CASE MarkVerified
  <2>1. pc = "markVerified" /\ Mark("markVerified", "verified", "cleanConfig")
    BY <1>6 DEF MarkVerified, Mark
  <2>2. run.journal # None /\ run.journal.phase = "verifying" /\ run.request # None
        /\ run.caller \in {"recovery", "finalize"}
    BY <1>0, <2>1 DEF CallerAt, JournalAt
  <2>3. "verified" \in Phases /\ "verified" \in OperationPhases(run.journal.operation)
        /\ (run.journal.proof <=> "verified" \in ProofPhases)
    BY <2>2, Unproved DEF Phases, OperationPhases, ProofPhases
  <2>4. CallerAt("cleanConfig", Phased("verified"))
    BY <2>2, <2>3, PhasedAt DEF CallerAt
  <2>5. JournalAt("cleanConfig", Phased("verified"))
    BY <1>0, <2>1, <2>2, <2>3, PhasedAt DEF JournalAt
  <2>6. QED
    BY <2>1, <2>2, <2>3, <2>4, <2>5, MarkStays DEF Steps
<1>7. QED
  BY <1>1, <1>2, <1>3, <1>4, <1>5, <1>6

\* SnapshotConfig keeps the types and the control.
LEMMA SnapshotConfigTyped == ASSUME TInv, SnapshotConfig PROVE TInv'
<1> DEFINE j == run.journal
           next == IF j.operation = "static-restore" THEN "markActivating"
                   ELSE IF j.keyChanged /\ j.hadKey THEN "snapshotKey" ELSE "writeConfig"
<1>1. pc = "snapshotConfig" /\ wg' \in Host /\ timer' \in BOOLEAN /\ txn' \in TxnType
  BY SnapshotConfigLands, Hosted
<1>2. /\ run \in RunType /\ run.caller = "apply" /\ run.request # None /\ j # None
      /\ j.phase = "prepared" /\ JournalAt("snapshotConfig", run)
  BY <1>1 DEF TInv, Typed, Control, CallerAt, JournalAt, ApplySteps
<1>3. /\ next \in {"markActivating", "snapshotKey", "writeConfig"}
      /\ next = "markActivating" <=> j.operation = "static-restore"
      /\ next = "snapshotKey" => j.keyChanged /\ j.hadKey
  OBVIOUS
<1> HIDE DEF next
<1>4. CallerAt(next, run)
  BY <1>2, <1>3 DEF CallerAt, RollbackSteps, CleanSteps, ApplySteps, ProofSteps, PostSteps
<1>5. JournalAt(next, run)
  BY <1>2, <1>3 DEF JournalAt
<1>6. Go(next, run) => Steered
  BY <1>3, <1>4, <1>5, RunSteers DEF Steps
<1>7. Snapshotted(Disk, "config", "configPrevious") \in Directory
  BY SnapshotTypes, Hosted
<1>8. \/ Completed(Snapshotted(Disk, "config", "configPrevious")) /\ Go(next, run)
      \/ NotDone(run, SnapshotLeaves(Disk, "config", "configPrevious"))
  BY SnapshotConfigLands DEF Go, next
<1>9. QED
  BY <1>1, <1>6, <1>7, <1>8, DoneStays, FailStays

\* SnapshotKey keeps the types and the control.
LEMMA SnapshotKeyTyped == ASSUME TInv, SnapshotKey PROVE TInv'
<1>1. pc = "snapshotKey" /\ wg' \in Host /\ timer' \in BOOLEAN /\ txn' \in TxnType
  BY SnapshotKeyLands, Hosted
<1>2. /\ run.caller = "apply" /\ run.request # None /\ run.journal # None
      /\ JournalAt("snapshotKey", run)
  BY <1>1 DEF TInv, Typed, Control, CallerAt, ApplySteps
<1>3. CallerAt("writeConfig", run) /\ JournalAt("writeConfig", run)
  BY <1>2 DEF CallerAt, JournalAt, RollbackSteps, CleanSteps, ApplySteps, ProofSteps, PostSteps
<1>4. Go("writeConfig", run) => Steered
  BY <1>3, RunSteers DEF Steps
<1>5. Snapshotted(Disk, "credential", "credentialPrevious") \in Directory
  BY SnapshotTypes, Hosted
<1>6. QED
  BY <1>1, <1>4, <1>5, SnapshotKeyLands, DoneStays, FailStays DEF Go

\* WriteConfig keeps the types and the control.
LEMMA WriteConfigTyped == ASSUME TInv, WriteConfig PROVE TInv'
<1> DEFINE next == IF run.request.mode = "api" THEN "markConfig" ELSE "markActivated"
<1>1. pc = "writeConfig" /\ wg' \in Host /\ timer' \in BOOLEAN /\ txn' \in TxnType
  BY WriteConfigLands, Hosted
<1>2. /\ run.caller = "apply" /\ run.request # None /\ run.journal # None
      /\ JournalAt("writeConfig", run)
  BY <1>1 DEF TInv, Typed, Control, CallerAt, ApplySteps
<1>3. /\ next \in {"markConfig", "markActivated"}
      /\ next = "markConfig" => run.request.mode = "api"
  OBVIOUS
<1> HIDE DEF next
<1>4. CallerAt(next, run)
  BY <1>2, <1>3 DEF CallerAt, RollbackSteps, CleanSteps, ApplySteps, ProofSteps, PostSteps
<1>5. JournalAt(next, run)
  BY <1>2, <1>3 DEF JournalAt
<1>6. Go(next, run) => Steered
  BY <1>3, <1>4, <1>5, RunSteers DEF Steps
<1>7. Written(Disk, "config", Asks(run.request)) \in Directory
  BY WriteConfigLands, Hosted DEF Written, Directory
<1>8. \/ Completed(Written(Disk, "config", Asks(run.request))) /\ Go(next, run)
      \/ NotDone(run, WriteLeaves(Disk, "config", Asks(run.request)))
  BY WriteConfigLands DEF Go, next
<1>9. QED
  BY <1>1, <1>6, <1>7, <1>8, DoneStays, FailStays

\* WriteKey keeps the types and the control.
LEMMA WriteKeyTyped == ASSUME TInv, WriteKey PROVE TInv'
<1>1. pc = "writeKey" /\ wg' \in Host /\ timer' \in BOOLEAN /\ txn' \in TxnType
  BY WriteKeyLands, Hosted
<1>2. /\ run.caller = "apply" /\ run.request # None /\ run.journal # None
      /\ JournalAt("writeKey", run)
  BY <1>1 DEF TInv, Typed, Control, CallerAt, ApplySteps
<1>3. CallerAt("markKey", run) /\ JournalAt("markKey", run)
  BY <1>2 DEF CallerAt, JournalAt, RollbackSteps, CleanSteps, ApplySteps, ProofSteps, PostSteps
<1>4. Go("markKey", run) => Steered
  BY <1>3, RunSteers DEF Steps
<1>5. Written(Disk, "credential", run.supplied) \in Directory
  BY RunFacts, Hosted DEF Written, Directory
<1>6. QED
  BY <1>1, <1>4, <1>5, WriteKeyLands, DoneStays, FailStays DEF Go

\* The runtime's validation and activation keep the types.
LEMMA RuntimeTyped == ASSUME TInv, Revalidate \/ Activate PROVE TInv'
<1>1. CASE Revalidate
  <2> DEFINE next == IF Activates THEN "activate" ELSE "markActivated"
  <2>1. pc = "revalidate" /\ timer' \in BOOLEAN /\ txn' \in TxnType
    BY <1>1, RevalidateLands, Hosted
  <2>2. /\ run.caller = "apply" /\ run.request # None /\ run.journal # None
        /\ JournalAt("revalidate", run)
    BY <2>1 DEF TInv, Typed, Control, CallerAt, ApplySteps
  <2>3. next \in {"activate", "markActivated"}
    OBVIOUS
  <2> HIDE DEF next
  <2>4. CallerAt(next, run) /\ JournalAt(next, run)
    BY <2>2, <2>3 DEF CallerAt, JournalAt, RollbackSteps, CleanSteps, ApplySteps, ProofSteps, PostSteps
  <2>5. Go(next, run) => Steered
    BY <2>3, <2>4, RunSteers DEF Steps
  <2>6. Raise(run) => Steered
    BY <2>1, RaiseSteers
  <2>7. Calls(ValidationResults, Go(next, run), Raise(run))
    BY <1>1, RevalidateLands DEF next
  <2>8. QED
    BY <2>1, <2>5, <2>6, <2>7, ValidationTypes, CallStays DEF TInv
<1>2. CASE Activate
  <2>1. pc = "activate" /\ timer' \in BOOLEAN /\ txn' \in TxnType
    BY <1>2, ActivateLands, Hosted
  <2>2. /\ run.caller = "apply" /\ run.request # None /\ run.journal # None
        /\ JournalAt("activate", run)
    BY <2>1 DEF TInv, Typed, Control, CallerAt, ApplySteps
  <2>3. CallerAt("markActivated", run) /\ JournalAt("markActivated", run)
    BY <2>2 DEF CallerAt, JournalAt, RollbackSteps, CleanSteps, ApplySteps, ProofSteps, PostSteps
  <2>4. Go("markActivated", run) => Steered
    BY <2>3, RunSteers DEF Steps
  <2>5. Raise(run) => Steered
    BY <2>1, RaiseSteers
  <2>6. QED
    BY <1>2, <2>1, <2>4, <2>5, ActivateLands, ActivationTypes, CallStays DEF TInv
<1>3. QED
  BY <1>1, <1>2

\* RestoreStatic keeps the types and the control.
LEMMA RestoreStaticTyped == ASSUME TInv, RestoreStatic PROVE TInv'
<1>1. pc = "restoreStatic" /\ timer' \in BOOLEAN
  BY RestoreStaticLands, Hosted
<1>2. txn' \in TxnType
  <2>1. (pc' # "idle") \in BOOLEAN
    OBVIOUS
  <2>2. \A b \in BOOLEAN : [txn EXCEPT !.kept = b] \in TxnType
    BY Hosted DEF TxnType
  <2>3. QED
    BY <2>1, <2>2, RestoreStaticLands, Hosted
<1>3. /\ run.caller = "apply" /\ run.request # None /\ run.journal # None
      /\ JournalAt("restoreStatic", run)
  BY <1>1 DEF TInv, Typed, Control, CallerAt, ApplySteps
<1>4. CallerAt("markActivated", run) /\ JournalAt("markActivated", run)
  BY <1>3 DEF CallerAt, JournalAt, RollbackSteps, CleanSteps, ApplySteps, ProofSteps, PostSteps
<1>5. Go("markActivated", run) => Steered
  BY <1>4, RunSteers DEF Steps
<1>6. Raise(run) => Steered
  BY <1>1, RaiseSteers
<1>7. /\ {r \in RestoreStaticResults : r.ok} \subseteq ResultType
      /\ {r \in RestoreStaticResults : ~r.ok} \subseteq ResultType
  BY RestoreStaticTypes DEF TInv
<1>8. CASE Calls({r \in RestoreStaticResults : r.ok}, Go("markActivated", run), FALSE)
  BY <1>1, <1>2, <1>5, <1>7, <1>8, CallStays
<1>9. CASE Calls({r \in RestoreStaticResults : ~r.ok}, FALSE, Raise(run))
  BY <1>1, <1>2, <1>6, <1>7, <1>9, CallStays
<1>10. QED
  BY <1>8, <1>9, RestoreStaticLands

\* BeginProof keeps the types and the control.
LEMMA BeginProofTyped == ASSUME TInv, BeginProof PROVE TInv'
<1>1. pc = "beginProof" /\ status' = "stale" /\ Go("markVerifying", run)
      /\ UNCHANGED <<images, wg, timer, txn, faults>>
  BY DEF BeginProof
<1>2. CallerAt("markVerifying", run) /\ JournalAt("markVerifying", run)
  BY <1>1 DEF TInv, Control, CallerAt, JournalAt, RollbackSteps, CleanSteps, ApplySteps, ProofSteps,
    PostSteps
<1>3. Steered
  BY <1>1, <1>2, RunSteers DEF Steps
<1>4. QED
  BY <1>1, <1>3, SkipStays, Hosted

\* MarkVerifying keeps the types and the control.
LEMMA MarkVerifyingTyped == ASSUME TInv, MarkVerifying PROVE TInv'
<1> DEFINE j == [run.journal EXCEPT !.phase = "verifying", !.proof = TRUE]
           self == [run EXCEPT !.journal = j]
<1>1. pc = "markVerifying" /\ wg' \in Host /\ timer' \in BOOLEAN /\ txn' \in TxnType
      /\ j \in Journal /\ run.journal \in Journal
  BY MarkVerifyingLands, Hosted
<1>2. /\ run \in RunType /\ run.caller \in {"recovery", "apply"} /\ run.request # None
      /\ JournalAt("markVerifying", run)
  BY <1>1 DEF TInv, Typed, Control, CallerAt, ProofSteps
<1>3. j.phase = "verifying" /\ j.operation = run.journal.operation /\ j # None
  <2>1. run.journal \in JournalRecord
    BY <1>1, JournalRecords
  <2>2. QED
    BY <1>1, <2>1, JournalRecords, NoneApart
<1>4. \/ Completed(Written(Disk, "journal", j)) /\ Go("verify", self)
      \/ NotDone(run, WriteLeaves(Disk, "journal", j))
  BY MarkVerifyingLands DEF Go
<1> HIDE DEF j
<1>5. self \in RunType /\ self.request = run.request /\ self.caller = run.caller /\ self.journal = j
  BY <1>1, <1>2 DEF RunType
<1> HIDE DEF self
<1>6. CallerAt("verify", self) /\ JournalAt("verify", self)
  BY <1>2, <1>3, <1>5 DEF CallerAt, JournalAt, RollbackSteps, CleanSteps, ApplySteps, ProofSteps,
    PostSteps
<1>7. Go("verify", self) => Steered
  BY <1>5, <1>6, GoSteers DEF Steps
<1>8. Written(Disk, "journal", j) \in Directory
  BY <1>1, Hosted DEF Written, Directory
<1>9. QED
  BY <1>1, <1>4, <1>7, <1>8, DoneStays, FailStays

\* Verify keeps the types and the control.
LEMMA VerifyTyped == ASSUME TInv, Verify PROVE TInv'
<1>1. pc = "verify" /\ timer' \in BOOLEAN /\ txn' \in TxnType
  BY VerifyLands, Hosted
<1>2. /\ run \in RunType /\ run.caller \in {"recovery", "apply"} /\ run.request # None
      /\ run.journal # None /\ JournalAt("verify", run)
  BY <1>1 DEF TInv, Typed, Control, CallerAt, ProofSteps
<1>3. ProofFails => Steered
  BY <1>1, <1>2, RollBackSteers, RaiseSteers DEF ProofFails
<1>4. ASSUME Go("markVerified", IF run.caller = "apply" THEN [run EXCEPT !.caller = "finalize"] ELSE run)
      PROVE Steered
  <2> DEFINE self == IF run.caller = "apply" THEN [run EXCEPT !.caller = "finalize"] ELSE run
  <2>1. /\ self \in RunType /\ self.request = run.request /\ self.journal = run.journal
        /\ self.caller \in {"recovery", "finalize"}
    BY <1>2 DEF RunType, Callers
  <2> HIDE DEF self
  <2>2. CallerAt("markVerified", self) /\ JournalAt("markVerified", self)
    BY <1>2, <2>1 DEF CallerAt, JournalAt, RollbackSteps, CleanSteps, ApplySteps, ProofSteps, PostSteps
  <2>3. QED
    BY <1>4, <2>1, <2>2, GoSteers DEF Steps, self
<1>5. ProofEnds => Steered
  BY <1>3, <1>4 DEF ProofEnds
<1>6. QED
  BY <1>1, <1>3, <1>5, VerifyLands, CheckTypes, CallStays DEF TInv

\* The steps after the commit keep the types.
LEMMA EndingTyped == ASSUME TInv, Ending PROVE TInv'
<1>1. CASE ResetApiState
  <2>1. pc = "reset" /\ timer' \in BOOLEAN /\ txn' \in TxnType
    BY <1>1, ResetLands, Hosted
  <2>2. CallerAt("removeKey", run) /\ JournalAt("removeKey", run)
    BY <2>1 DEF TInv, Control, CallerAt, JournalAt, RollbackSteps, CleanSteps, ApplySteps,
      ProofSteps, PostSteps
  <2>3. Go("removeKey", run) => Steered
    BY <2>2, RunSteers DEF Steps
  <2>4. Raise(run) => Steered
    BY <2>1, RaiseSteers
  <2>5. QED
    BY <1>1, <2>1, <2>3, <2>4, ResetLands, ResetTypes, SkipStays, CallStays, Hosted DEF TInv
<1>2. CASE RemoveKey
  <2> DEFINE removes == run.request.mode = "static" /\ run.request.remove
  <2>1. pc = "removeKey" /\ wg' \in Host /\ timer' \in BOOLEAN
    BY <1>2, RemoveKeyLands, Hosted
  <2>2. txn' \in TxnType
    <3>1. [txn EXCEPT !.after.key = None, !.removes = TRUE] \in TxnType
      BY Hosted DEF TxnType, Triples
    <3>2. QED
      BY <1>2, <3>1, RemoveKeyLands, Hosted
  <2>3. CallerAt("enable", run) /\ JournalAt("enable", run)
    BY <2>1 DEF TInv, Control, CallerAt, JournalAt, RollbackSteps, CleanSteps, ApplySteps,
      ProofSteps, PostSteps
  <2>4. Go("enable", run) => Steered
    BY <2>3, RunSteers DEF Steps
  <2>5. \/ (Gone("credential") \/ UNCHANGED <<images, status, faults>>) /\ Go("enable", run)
        \/ NotDone(run, RemoveLeaves(Disk, "credential"))
    BY <1>2, RemoveKeyLands DEF Go
  <2>6. QED
    BY <2>1, <2>2, <2>4, <2>5, GoneStays, SkipStays, FailStays, Hosted
<1>3. CASE EnableTimer
  <2>1. pc = "enable" /\ wg' \in Host /\ txn' \in TxnType
    BY <1>3, Hosted DEF EnableTimer
  <2>2. run.request.enable \in BOOLEAN
    BY <2>1, RunFacts DEF Request
  <2>3. timer' \in BOOLEAN
    BY <1>3, <2>2, Hosted DEF EnableTimer
  <2>4. \/ Skip(End("done"))
        \/ Spend("runtime") /\ End("committed") /\ UNCHANGED <<images, status>>
        \/ Spend("kill") /\ Killed(images, status)
    BY <1>3 DEF EnableTimer
  <2>5. (End("done") \/ End("committed")) => Steered
    BY EndSteers DEF Verdicts
  <2>6. QED
    BY <2>1, <2>3, <2>4, <2>5, SkipStays, FaultStays, KilledStays, Hosted DEF Skip
<1>4. QED
  BY <1>1, <1>2, <1>3 DEF Ending

\* What happens between and before invocations keeps the types.
LEMMA BetweenTyped ==
  ASSUME TInv, Preview \/ Check \/ PowerLoss \/ (\E r \in Requests : Ask(r))
  PROVE  TInv'
<1> USE DEF RollbackSteps, CleanSteps, ApplySteps, ProofSteps, PostSteps
<1>0. images \in Seq(Directory) /\ Len(images) >= 1
  BY TypedFacts DEF TInv, Typed
<1>1. CASE Preview
  <2>1. wg' \in Host /\ UNCHANGED <<images, status, timer, pc, run, verdict, txn>> /\ Spend("runtime")
    BY <1>1, Hosted, HostTypes DEF Preview
  <2>2. Steered
    BY <2>1 DEF TInv, Typed, Control, Steered
  <2>3. QED
    BY <2>1, <2>2, FaultStays, Hosted
<1>2. CASE Check
  <2>1. UNCHANGED <<images, timer, pc, run, verdict, txn>>
    BY <1>2 DEF Check
  <2>2. PICK r \in CheckResults :
          /\ IF r.fault THEN Spend("runtime") ELSE UNCHANGED faults
          /\ wg' = r.wg /\ status' = r.status
    BY <1>2 DEF Check
  <2>3. r \in ResultType /\ r.source = Disk.config.source
    BY CheckTypes DEF TInv
  <2>4. Steered
    BY <2>1 DEF TInv, Typed, Control, Steered
  <2>5. wg' \in Host /\ status' \in {"stale", "good"}
    BY <2>2, <2>3 DEF ResultType
  <2>6. CASE r.fault
    <3>1. faults' = faults + 1 /\ faults' \in 0..MaxFaults
      BY <2>2, <2>6, SpendTyped DEF TInv
    <3>2. images' \in Seq(Directory) /\ Len(images') \in 1..(2 * faults' + 1)
      BY <2>1, <3>1, TypedFacts DEF TInv, Typed
    <3>3. QED
      BY <2>1, <2>4, <2>5, <3>1, <3>2, Hosted DEF TInv, Typed, Steered
  <2>7. CASE ~r.fault
    <3>1. faults' = faults
      BY <2>2, <2>7
    <3>2. QED
      BY <2>1, <2>4, <2>5, <3>1, SkipStays, Hosted
  <2>8. QED
    BY <2>6, <2>7
<1>3. CASE PowerLoss
  <2>1. Spend("kill") /\ status' = "stale" /\ UNCHANGED <<wg, timer, txn>>
        /\ End(IF verdict \in Committed THEN verdict ELSE "killed")
    BY <1>3 DEF PowerLoss
  <2>2. Lost({})
    <3>1. Disk \in Img /\ Dirty(Disk) = images /\ Disk \in Directory
      BY TypedFacts DEF TInv, Dirty
    <3>2. \A e \in Survivors(images) :
            e \in Directory /\ ("reordered" \notin Windows => e \in Img \cup {Disk})
      BY <1>0, <3>1, DirtyLands
    <3>3. QED
      BY <1>3, <3>1, <3>2 DEF PowerLoss, Lost
  <2>3. Steered
    BY <2>1, EndSteers DEF Verdicts, TInv, Typed
  <2>4. QED
    BY <2>1, <2>2, <2>3, FaultStays, Hosted
<1>4. ASSUME NEW r \in Requests, Ask(r) PROVE TInv'
  <2>1. pc = "idle" /\ UNCHANGED <<images, wg, status, timer, txn, faults>>
    BY <1>4 DEF Ask
  <2>2. (End("inadmissible") \/ End("refused")) => Steered
    BY EndSteers DEF Verdicts
  <2>3. \/ End("inadmissible") \/ End("refused")
        \/ /\ pc' = "enter" /\ verdict' = (IF verdict = "unfinalized" THEN verdict ELSE "none")
           /\ run' = [NoRun EXCEPT !.request = r,
                        !.supplied = IF r.mode = "api" /\ RequiresProposal(Disk, r)
                                       THEN r.key ELSE None]
    BY <1>4 DEF Ask
  <2>4. ASSUME /\ pc' = "enter" /\ verdict' = (IF verdict = "unfinalized" THEN verdict ELSE "none")
               /\ run' = [NoRun EXCEPT !.request = r,
                            !.supplied = IF r.mode = "api" /\ RequiresProposal(Disk, r)
                                           THEN r.key ELSE None]
        PROVE  Steered
    <3>1. r \in Request /\ r.key \in Keys
      BY ApplyAssumption DEF Request
    <3>2. run' \in RunType /\ run'.request = r /\ run'.caller = "none" /\ run'.journal = None
      BY <2>4, <3>1 DEF NoRun, RunType, Callers
    <3>3. r # None
      BY NoneApart
    <3>4. CallerAt(pc', run') /\ JournalAt(pc', run')
      BY <2>4, <3>2, <3>3 DEF CallerAt, JournalAt
    <3>5. pc' \in Steps /\ verdict' \in Verdicts
      BY <2>4 DEF Steps, Verdicts, TInv, Typed
    <3>6. QED
      BY <3>2, <3>4, <3>5 DEF Steered, Control
  <2>5. Steered
    BY <2>2, <2>3, <2>4
  <2>6. QED
    BY <2>1, <2>5, SkipStays, Hosted
<1>5. QED
  BY <1>1, <1>2, <1>3, <1>4

\* A stutter changes nothing.
LEMMA StutterTyped == ASSUME TInv, UNCHANGED vars PROVE TInv'
BY DEF TInv, Typed, Control, vars

\* Every step keeps the invariant.
LEMMA TypedStep == ASSUME TInv, [Next]_vars PROVE TInv'
<1>1. CASE Next
  <2>1. CASE Enter \/ StopUnits
    BY <2>1, InvokedTyped
  <2>2. CASE Recovery
    BY <2>2, DiscardTyped, RecoveryTyped DEF Recovery
  <2>3. CASE RollingBack
    BY <2>3, UnadoptTyped, RestoreConfigTyped, RestoreKeyTyped, DropTyped, MarkRolledBackTyped
      DEF RollingBack
  <2>4. CASE CleanUp
    BY <2>4, CleanUpTyped
  <2>5. CASE Applying
    BY <2>5, BeginTyped, ValidateTyped, MarksTyped, SnapshotConfigTyped, SnapshotKeyTyped,
      WriteConfigTyped, WriteKeyTyped, RuntimeTyped, RestoreStaticTyped DEF Applying
  <2>6. CASE Proving
    BY <2>6, BeginProofTyped, MarkVerifyingTyped, VerifyTyped, MarksTyped DEF Proving
  <2>7. CASE Ending
    BY <2>7, EndingTyped
  <2>8. CASE Preview \/ Check \/ PowerLoss \/ (\E r \in Requests : Ask(r))
    BY <2>8, BetweenTyped
  <2>9. QED
    BY <1>1, <2>1, <2>2, <2>3, <2>4, <2>5, <2>6, <2>7, <2>8 DEF Next, Proceed
<1>2. CASE UNCHANGED vars
  BY <1>2, StutterTyped
<1>3. QED
  BY <1>1, <1>2

\* It holds initially.
LEMMA TypedInit == ASSUME Init PROVE TInv
<1>1. PICK i \in Initial :
        /\ images = <<[journal |-> None, config |-> i.config, credential |-> i.credential,
                       configPrevious |-> None, credentialPrevious |-> None, staging |-> {}]>>
        /\ wg = [profile |-> i.profile, preManaged |-> i.preManaged,
                  candidate |-> FALSE, switching |-> {}]
  BY DEF Init
<1>2. i \in [config : Config, credential : Keys \cup {None},
             profile : {"own", "managed", None}, preManaged : {"own", None}]
  BY ApplyAssumption
<1> DEFINE d == [journal |-> None, config |-> i.config, credential |-> i.credential,
                 configPrevious |-> None, credentialPrevious |-> None, staging |-> {}]
<1>3. d \in Directory
  BY <1>2 DEF Directory
<1>4. images = <<d>>
  BY <1>1
<1> HIDE DEF d
<1>5. images \in Seq(Directory) /\ Len(images) = 1 /\ Disk = d
  BY <1>3, <1>4 DEF Disk
<1>6. wg \in Host
  BY <1>1, <1>2 DEF Host, Profiles
<1>7. run = NoRun /\ NoRun \in RunType
  BY DEF Init, NoRun, RunType, Callers
<1>8. txn \in TxnType
  <2>1. Triple(Disk) \in Triples
    BY <1>3, <1>5, TripleTypes
  <2>2. wg.profile \in Profiles \cup {None}
    BY <1>6, HostTypes
  <2>3. QED
    BY <2>1, <2>2 DEF Init, TxnType
<1>9. Control
  BY <1>7 DEF Init, Control, CallerAt, JournalAt, NoRun, RollbackSteps, CleanSteps, ApplySteps,
    ProofSteps, PostSteps
<1>10. faults = 0 /\ faults \in 0..MaxFaults
  BY Bounds DEF Init
<1>11. Len(images) \in 1..(2 * faults + 1)
  BY <1>5, <1>10
<1>12. status = "stale" /\ timer = FALSE /\ pc \in Steps /\ verdict \in Verdicts
  BY DEF Init, Steps, Verdicts
<1>13. Typed
  BY <1>5, <1>6, <1>7, <1>8, <1>10, <1>11, <1>12 DEF Typed
<1>14. QED
  BY <1>9, <1>13 DEF TInv

\* The types are those of TypeOK.
LEMMA TypedGives == ASSUME Typed PROVE TypeOK
<1>1. \A i \in 1..Len(images) : images[i] \in Directory
  BY DEF Typed
<1>2. Len(images) \in 1..(2 * MaxFaults + 1)
  <2>1. faults \in 0..MaxFaults /\ Len(images) \in 1..(2 * faults + 1)
    BY DEF Typed
  <2>2. QED
    BY <2>1, Bounds
<1>3. QED
  BY <1>1, <1>2 DEF Typed, TypeOK, RunType, TxnType

\* Every reachable state of the setup engine is well typed: each image recovery may
\* find is a directory of whole values and a record whose fields agree, or none
\* (JournalRecord, from_bytes), whatever failed and wherever it was cut.
THEOREM EngineTypes == Spec => []TypeOK
<1>1. Init => TInv
  BY TypedInit
<1>2. TInv /\ [Next]_vars => TInv'
  BY TypedStep
<1>3. TInv => TypeOK
  BY TypedGives DEF TInv
<1>4. QED
  BY <1>1, <1>2, <1>3, PTL DEF Spec
=============================================================================
