----------------------------- MODULE SetupStore -----------------------------
(***************************************************************************)
(* The private file store of the guided setup (store.py), system call by   *)
(* system call, on one configuration file and its snapshot.  SetupApply    *)
(* takes each call of the store for one step with the outcomes of          *)
(* SetupRecords (WriteLeaves, SnapshotLeaves, ...); this module is what     *)
(* those outcomes are checked against.                                     *)
(*                                                                         *)
(* A directory gives inodes to names.  A change of it is seen at once and  *)
(* is durable after the next fsync of the directory; the data of an inode  *)
(* is durable after an fsync of the file, and torn by a power loss before. *)
(* fs tells what the file system does with changes not yet durable:        *)
(* "ordered" keeps a prefix of them, "reordered" any name's on its own.    *)
(***************************************************************************)
EXTENDS SetupRecords, Naturals, Sequences

CONSTANTS Inodes,     \* inode numbers
          Torn,       \* data that is not what was written
          MaxFaults   \* bound on failing system calls, kills and power losses

ASSUME StoreAssumption ==
  /\ Torn \notin Settings \cup {None} /\ None \notin Inodes
  /\ \E one, other \in Inodes : one # other   \* a configuration and its snapshot
  /\ MaxFaults \in Nat

\* The contents of a configuration stand for themselves here.
Values == Settings

Pair == {"config", "configPrevious"}   \* the file and its snapshot

VARIABLES fs,
          dirs,      \* sequence of what the directory was since its last barrier
          data,      \* per inode: what was written, and whether it is durable
          pc,        \* the system call the store is at; "idle": no call
          call,      \* the call under way or last made: its kind, entry and value
          outcome,   \* how it ended
          before,    \* history: what the call found
          awaited,   \* history: what config may be after a power loss
          faults

vars == <<fs, dirs, data, pc, call, outcome, before, awaited, faults>>

Names == [Pair -> Inodes \cup {None}]
Dirs == [name : Names, staging : Names]

Calls == [kind : {"write"}, entry : {"config"}, value : Values]
  \cup [kind : {"restore", "discard"}, entry : {"config"}, value : {None}]
  \cup [kind : {"snapshot"}, entry : {"configPrevious"}, value : {None}]
  \cup [kind : {"unlink"}, entry : Pair, value : {None}]

Steps == {"idle", "clean", "cleanSync", "clear", "clearSync", "read", "create", "fill", "syncData",
          "publish", "syncFile", "syncDir", "drop", "dropSync", "undo", "undoSync",
          "unlink", "unlinkSync"}

Disk == dirs[Len(dirs)]

\* Of each name and staging name what it was in one of the directories.
Mixed(n, s) == [name |-> [e \in Pair |-> dirs[n[e]].name[e]],
                staging |-> [e \in Pair |-> dirs[s[e]].staging[e]]]

\* What a power loss may leave of the names.
Images ==
  IF fs = "ordered" THEN {dirs[k] : k \in 1..Len(dirs)}
                    ELSE {Mixed(n, s) : n, s \in [Pair -> 1..Len(dirs)]}

Read(i) == IF i = None THEN None ELSE data[i].value
Durable(i) == CASE i = None -> None
                [] i # None /\ data[i].durable -> data[i].value
                [] OTHER -> Torn

\* What each entry holds, and nothing else.
Held(d) == [e \in Pair |-> {Read(d.name[e])}]

\* A directory as SetupApply sees it.
View(d) == [config |-> Read(d.name["config"]),
            configPrevious |-> Read(d.name["configPrevious"]),
            staging |-> {e \in Pair : d.staging[e] # None}]

\* A configuration, and perhaps what an interrupted snapshot left.
Init ==
  /\ fs \in {"ordered", "reordered"}
  /\ \E v \in Values, abandoned \in BOOLEAN :
       LET file == CHOOSE i \in Inodes : TRUE
           copy == CHOOSE i \in Inodes : i # file
       IN /\ dirs = <<[name |-> [e \in Pair |-> IF e = "config" THEN file ELSE None],
                       staging |-> [e \in Pair |-> IF abandoned /\ e = "configPrevious"
                                                     THEN copy ELSE None]]>>
          /\ data = [i \in Inodes |-> [value |-> IF i = file THEN v ELSE Torn, durable |-> TRUE]]
  /\ pc = "idle"
  /\ call = [kind |-> "discard", entry |-> "config", value |-> None]
  /\ outcome = "ok"
  /\ before = View(Disk)
  /\ awaited = Held(Disk)
  /\ faults = 0

(* ----------------------------- system calls ---------------------------- *)

Go(step) == pc' = step /\ UNCHANGED <<outcome, awaited>>

End(result) == pc' = "idle" /\ outcome' = result /\ UNCHANGED awaited

\* The call returns: after a barrier its entry is what it says, for good.
Return ==
  /\ pc' = "idle" /\ outcome' = "ok"
  /\ awaited' = IF Len(dirs') = 1 THEN Held(Disk)' ELSE awaited

\* The finally clauses: an unpublished staging file is removed.
Raise ==
  IF \/ pc \in {"fill", "syncData", "publish"}
     \/ call.kind = "snapshot" /\ pc \in {"syncDir", "drop", "dropSync"}
    THEN Go("undo")
    ELSE End("failed")

Fail ==
  /\ faults < MaxFaults /\ faults' = faults + 1
  /\ Raise
  /\ UNCHANGED dirs

\* A system call that changes the directory to d, or fails and changes nothing.
Change(step, d, next) ==
  /\ pc = step
  /\ \/ dirs' = Append(dirs, d) /\ Go(next) /\ UNCHANGED faults
     \/ Fail
  /\ UNCHANGED <<fs, call, before>>

\* An fsync of the directory.
Barrier(step, Done) ==
  /\ pc = step
  /\ UNCHANGED <<fs, data, call, before>>
  /\ \/ dirs' = <<Disk>> /\ Done /\ UNCHANGED faults
     \/ Fail

\* A test of names, or a return, that changes nothing.
Pass(Done) == UNCHANGED <<fs, dirs, data, call, before, faults>> /\ Done

Unnamed(d, entry) == [d EXCEPT !.staging[entry] = None]

\* The inodes without a name, whatever a power loss leaves: their data is gone.
Free == {i \in Inodes : \A k \in 1..Len(dirs) :
           \A e \in Pair : i \notin {dirs[k].name[e], dirs[k].staging[e]}}

\* Between two calls of the store.
Begin(c) ==
  /\ pc = "idle"
  /\ call' = c
  /\ before' = View(Disk)
  /\ outcome' = "none"
  /\ awaited' = [awaited EXCEPT ![c.entry] = @ \cup
       CASE c.kind = "write" -> {c.value}
         [] c.kind = "restore" -> {Read(Disk.name["configPrevious"])}
         [] c.kind = "snapshot" -> {Read(Disk.name["config"])}
         [] c.kind = "unlink" -> {None}
         [] c.kind = "discard" -> {}]
  /\ pc' = CASE c.kind = "write" -> "create"
             [] c.kind = "snapshot" -> "clear"
             [] c.kind \in {"restore", "unlink"} -> "clean"
             [] c.kind = "discard" -> "undo"
  /\ data' = [i \in Inodes |-> IF i \in Free THEN [value |-> Torn, durable |-> TRUE] ELSE data[i]]
  /\ UNCHANGED <<fs, dirs, faults>>

\* Another inode than the snapshot's under its staging name.
Conflict ==
  /\ None \notin {Disk.staging["configPrevious"], Disk.name["configPrevious"]}
  /\ Disk.staging["configPrevious"] # Disk.name["configPrevious"]

\* The call restores or removes a snapshot whose staging name is still there.
Abandoned ==
  /\ Disk.staging["configPrevious"] # None
  /\ call.kind = "restore" \/ call.entry = "configPrevious"

AfterClean == IF call.kind = "restore" THEN "read" ELSE "unlink"

\* Mutant: an interrupted snapshot is taken for incomplete as a whole.
CleanBackupToo ==
  \/ pc = "clean" /\ ~Abandoned /\ Pass(Go(AfterClean))
  \/ /\ Abandoned
     /\ Change("clean", [Unnamed(Disk, "configPrevious") EXCEPT !.name["configPrevious"] = None],
               "cleanSync")
     /\ UNCHANGED data

\* _clean_snapshot_staging
Clean ==
  \/ pc = "clean" /\ ~Abandoned /\ Pass(Go(AfterClean))
  \/ pc = "clean" /\ Abandoned /\ Conflict /\ Pass(End("conflict"))
  \/ /\ Abandoned /\ ~Conflict
     /\ Change("clean", Unnamed(Disk, "configPrevious"), "cleanSync")
     /\ UNCHANGED data

CleanSync == Barrier("cleanSync", Go(AfterClean))

\* Mutant: a snapshot that is not there is read as empty.
ReadAnything == pc = "read" /\ Pass(Go("create"))

\* restore_snapshot reads the snapshot and calls atomic_write.
ReadSnapshot ==
  /\ pc = "read"
  /\ Pass(IF Disk.name["configPrevious"] = None THEN End("refused") ELSE Go("create"))

\* snapshot_file: never over a snapshot; an abandoned copy is discarded.
Clear ==
  LET refused == Disk.name["configPrevious"] # None \/ Disk.name["config"] = None
      stale == Disk.staging["configPrevious"] # None
  IN \/ pc = "clear" /\ refused /\ Pass(End("refused"))
     \/ pc = "clear" /\ ~refused /\ ~stale /\ Pass(Go("create"))
     \/ /\ ~refused /\ stale
        /\ Change("clear", Unnamed(Disk, "configPrevious"), "clearSync")
        /\ UNCHANGED data

ClearSync == Barrier("clearSync", Go("create"))

\* open(O_CREAT | O_EXCL) of the staging name.
Create ==
  \/ /\ pc = "create" /\ Disk.staging[call.entry] # None
     /\ Pass(End("refused"))
  \/ /\ Disk.staging[call.entry] = None /\ Free # {}
     /\ LET i == CHOOSE i \in Free : TRUE
        IN /\ Change("create", [Disk EXCEPT !.staging[call.entry] = i], "fill")
           /\ data' = IF pc' = "fill" THEN [data EXCEPT ![i] = [value |-> Torn, durable |-> FALSE]]
                                      ELSE data

Payload == CASE call.kind = "write" -> call.value
              [] call.kind = "restore" -> Read(Disk.name["configPrevious"])
              [] call.kind = "snapshot" -> Read(Disk.name["config"])

\* The staging file is written; a failing write leaves a part.
Fill ==
  /\ pc = "fill"
  /\ \/ /\ data' = [data EXCEPT ![Disk.staging[call.entry]].value = Payload]
        /\ Go("syncData") /\ UNCHANGED <<dirs, faults>>
     \/ Fail /\ UNCHANGED data
  /\ UNCHANGED <<fs, call, before>>

\* Mutant: the staging file is published without an fsync of its data.
PublishUnsynced == pc = "syncData" /\ Pass(Go("publish"))

SyncData ==
  /\ pc = "syncData"
  /\ \/ /\ data' = [data EXCEPT ![Disk.staging[call.entry]].durable = TRUE]
        /\ Go("publish") /\ UNCHANGED <<dirs, faults>>
     \/ Fail /\ UNCHANGED data
  /\ UNCHANGED <<fs, call, before>>

\* os.replace over the file; os.link of a snapshot, whose staging name stays.
Publish ==
  LET named == [Disk EXCEPT !.name[call.entry] = Disk.staging[call.entry]]
  IN /\ IF call.kind = "snapshot" THEN Change("publish", named, "syncDir")
                                  ELSE Change("publish", Unnamed(named, call.entry), "syncFile")
     /\ UNCHANGED data

SyncFile ==
  /\ pc = "syncFile"
  /\ \/ Go("syncDir") /\ UNCHANGED <<dirs, faults>>
     \/ Fail
  /\ UNCHANGED <<fs, data, call, before>>

\* Mutant: the rename is left to the file system.
SyncDirLater == pc = "syncDir" /\ Pass(IF call.kind = "snapshot" THEN Go("drop") ELSE Return)

SyncDir == Barrier("syncDir", IF call.kind = "snapshot" THEN Go("drop") ELSE Return)

\* _remove_name_durably of the staging name of a published snapshot.
Drop == Change("drop", Unnamed(Disk, "configPrevious"), "dropSync") /\ UNCHANGED data

DropSync == Barrier("dropSync", Return)

\* _remove_name_durably in the finally clauses, and discard_private_staging.
Undo ==
  \/ /\ pc = "undo" /\ Disk.staging[call.entry] = None
     /\ Pass(IF call.kind = "discard" THEN Return ELSE Go("undoSync"))
  \/ /\ Disk.staging[call.entry] # None
     /\ Change("undo", Unnamed(Disk, call.entry), "undoSync")
     /\ UNCHANGED data

UndoSync == Barrier("undoSync", IF call.kind = "discard" THEN Return ELSE End("failed"))

\* durable_unlink: of an absent name, nothing is synced.
Unlink ==
  \/ /\ pc = "unlink" /\ Disk.name[call.entry] = None
     /\ Pass(Return)
  \/ /\ Disk.name[call.entry] # None
     /\ Change("unlink", [Disk EXCEPT !.name[call.entry] = None], "unlinkSync")
     /\ UNCHANGED data

UnlinkSync == Barrier("unlinkSync", Return)

\* The process is killed.
Kill ==
  /\ pc # "idle" /\ faults < MaxFaults /\ faults' = faults + 1
  /\ End("killed")
  /\ UNCHANGED <<fs, dirs, data, call, before>>

PowerLoss ==
  /\ faults < MaxFaults /\ faults' = faults + 1
  /\ \E d \in Images : dirs' = <<d>>
  /\ data' = [i \in Inodes |-> [value |-> Durable(i), durable |-> TRUE]]
  /\ pc' = "idle" /\ outcome' = "killed"
  /\ awaited' = Held(Disk)'
  /\ before' = View(Disk)'
  /\ UNCHANGED <<fs, call>>

Store ==
  \/ Clean \/ CleanSync \/ ReadSnapshot \/ Clear \/ ClearSync
  \/ Create \/ Fill \/ SyncData \/ Publish \/ SyncFile \/ SyncDir
  \/ Drop \/ DropSync \/ Undo \/ UndoSync \/ Unlink \/ UnlinkSync

Next == Store \/ Kill \/ PowerLoss \/ \E c \in Calls : Begin(c)

Spec == Init /\ [][Next]_vars

(* ------------------------------ properties ----------------------------- *)

\* Every variable has a value of its type.
TypeOK ==
  /\ fs \in {"ordered", "reordered"}
  /\ \A k \in 1..Len(dirs) : dirs[k] \in Dirs
  /\ data \in [Inodes -> [value : Values \cup {Torn}, durable : BOOLEAN]]
  /\ pc \in Steps /\ call \in Calls
  /\ outcome \in {"none", "ok", "refused", "conflict", "failed", "killed"}
  /\ awaited \in [Pair -> SUBSET (Values \cup {None})]
  /\ faults \in 0..MaxFaults

\* Whatever a power loss leaves, a file and its snapshot hold a whole value,
\* and one they held or were being given since the last completed call: never
\* a part, never an empty file, never a value already replaced for good.
EntriesWhole ==
  \A d \in Images, e \in Pair : Durable(d.name[e]) \in awaited[e]

\* What a call that returned has changed, no power loss takes back
\* (store.py:287, "could not be committed durably" is the alternative).
SuccessDurable ==
  outcome = "ok" /\ (call.kind \in {"write", "snapshot", "restore"} \/ View(Disk) # before)
    => Images = {Disk}

Completed(c, d) ==
  CASE c.kind = "write" -> Written(d, c.entry, c.value)
    [] c.kind = "snapshot" -> Snapshotted(d, "config", c.entry)
    [] c.kind = "restore" -> Restored(d, "configPrevious", c.entry)
    [] c.kind = "unlink" -> Removed(d, c.entry)
    [] c.kind = "discard" -> Unstaged(d, c.entry)

Leaves(c, d) ==
  CASE c.kind = "write" -> WriteLeaves(d, c.entry, c.value)
    [] c.kind = "snapshot" -> SnapshotLeaves(d, "config", c.entry)
    [] c.kind = "restore" -> RestoreLeaves(d, "configPrevious", c.entry)
    [] c.kind = "unlink" -> RemoveLeaves(d, c.entry)
    [] c.kind = "discard" -> {d, Unstaged(d, c.entry)}

Refuses(c, d) ==
  CASE c.kind = "write" -> "config" \in d.staging
    [] c.kind = "snapshot" -> d.configPrevious # None \/ d.config = None
    [] c.kind = "restore" -> d.configPrevious = None \/ "config" \in d.staging
    [] OTHER -> FALSE

\* The outcomes SetupApply gives a call of the store are those it has: at no
\* system call, failed, cut or refused, is the directory another one, and no
\* call is refused that SetupApply lets through.  Only a file system that
\* reorders can make a snapshot conflict with its own staging name (store.py:216).
Foreseen ==
  /\ View(Disk) \in Leaves(call, before)
  /\ outcome = "ok" => View(Disk) = Completed(call, before)
  /\ outcome = "refused" => Refuses(call, before)
  /\ fs = "ordered" => outcome # "conflict"
=============================================================================
