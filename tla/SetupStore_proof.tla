-------------------------- MODULE SetupStore_proof --------------------------
(***************************************************************************)
(* The store of the guided setup keeps its files whole, makes what it      *)
(* reports durable, and leaves no directory but those SetupApply counts    *)
(* on, for any number of inodes, settings, faults and calls.               *)
(*                                                                         *)
(* None of the three properties is inductive.  NamesWhole, StagingPrivate  *)
(* and Awaiting follow the data: an inode is named only when its data is   *)
(* durable and awaited, and no call fills an inode that some directory     *)
(* image already names.  Progress follows the directory: at each system    *)
(* call it is a function of the one the call found.                        *)
(***************************************************************************)
EXTENDS SetupStore, TLAPS

(* ---------------------------- the invariant ---------------------------- *)

Copy == "configPrevious"
Filling == {"fill", "syncData", "publish"}
Giving == {"write", "restore", "snapshot"}

\* What the directory was since its last barrier, in no order.
Past == {dirs[k] : k \in 1..Len(dirs)}

ViewType == [config : Values \cup {None}, configPrevious : Values \cup {None},
             staging : SUBSET Pair]

\* What a call is to put under its entry.
Goal == CASE call.kind = "write" -> call.value
          [] call.kind = "restore" -> before.configPrevious
          [] OTHER -> before.config

\* There is a directory, and the call found one.
Recorded ==
  /\ dirs \in Seq(Dirs) /\ dirs # << >>
  /\ before \in ViewType

\* Every name of every image is of an inode with whole, durable, awaited data.
NamesWhole ==
  \A d \in Past, e \in Pair :
    /\ Durable(d.name[e]) \in awaited[e]
    /\ d.name[e] # None => data[d.name[e]].durable

\* The inode being filled has no name in any image; what is published is whole.
StagingPrivate ==
  LET i == Disk.staging[call.entry]
  IN /\ pc \in Filling =>
          i \in Inodes /\ \A d \in Past, e \in Pair : d.name[e] # i
     /\ pc \in {"syncData", "publish"} => data[i].value = Goal
     /\ pc = "publish" => data[i].durable

\* What the call under way will leave is among what a power loss may.
Awaiting ==
  /\ pc # "idle" /\ call.kind = "unlink" => None \in awaited[call.entry]
  /\ pc # "idle" /\ call.kind \in Giving => Goal \in awaited[call.entry]
  /\ pc \in {"clearSync", "create"} \cup Filling => call.kind \in Giving /\ Goal \in Values

\* With ordered changes, a snapshot and its staging name are one inode.
OneInode ==
  fs = "ordered" =>
    \A d \in Past :
      d.staging[Copy] # None /\ d.name[Copy] # None => d.staging[Copy] = d.name[Copy]

\* A call reports nothing before it ends, and a success when nothing is left
\* to be made durable, or nothing was changed.
Finished ==
  /\ pc # "idle" => outcome = "none"
  /\ outcome = "ok" => \/ Len(dirs) = 1
                       \/ call.kind \in {"unlink", "discard"} /\ View(Disk) = before
  /\ pc = "unlink" => Len(dirs) = 1 \/ View(Disk) = before

\* The directory at each system call of each kind of call.
Copied == Snapshotted(before, "config", Copy)
Bare == Unstaged(before, Copy)

WriteProgress ==
  /\ pc \in {"idle", "create", "syncFile", "syncDir", "undo", "undoSync"} \cup Filling
  /\ pc \in {"create", "undoSync"} => View(Disk) = before
  /\ pc \in Filling \cup {"undo"} => View(Disk) = Staged(before, "config")
  /\ pc \in Filling \cup {"undo"} => "config" \notin before.staging
  /\ pc \in {"syncFile", "syncDir"} => View(Disk) = Written(before, "config", call.value)

RestoreProgress ==
  /\ pc \in {"idle", "clean", "cleanSync", "read", "create", "syncFile", "syncDir",
             "undo", "undoSync"} \cup Filling
  /\ pc = "clean" => View(Disk) = before
  /\ pc \in {"cleanSync", "read", "create", "undoSync"} => View(Disk) = Bare
  /\ pc \in Filling \cup {"undo"} => View(Disk) = Staged(Bare, "config")
  /\ pc \in Filling \cup {"undo"} => "config" \notin before.staging
  /\ pc \in {"syncFile", "syncDir"} =>
       View(Disk) = Written(Bare, "config", before.configPrevious)

SnapshotProgress ==
  /\ pc \in {"idle", "clear", "clearSync", "create", "syncDir", "drop", "dropSync",
             "undo", "undoSync"} \cup Filling
  /\ pc = "clear" => View(Disk) = before
  /\ pc \in {"clearSync", "create"} => View(Disk) = Bare
  /\ pc \in {"clearSync", "create"} \cup Filling => before.configPrevious = None
  /\ pc \in Filling => View(Disk) = Staged(before, Copy)
  /\ pc \in {"syncDir", "drop"} => View(Disk) = Staged(Copied, Copy)
  /\ pc = "dropSync" => View(Disk) = Copied
  /\ pc = "undo" => View(Disk) \in {Staged(before, Copy), Staged(Copied, Copy), Copied}
  /\ pc = "undoSync" => View(Disk) \in {Bare, Copied}

UnlinkProgress ==
  /\ pc \in {"idle", "clean", "cleanSync", "unlink", "unlinkSync"}
  /\ pc = "clean" => View(Disk) = before
  /\ pc \in {"cleanSync", "unlink"} => View(Disk) = Cleaned(before, call.entry)
  /\ pc = "unlinkSync" => View(Disk) = Removed(before, call.entry)

DiscardProgress ==
  /\ pc \in {"idle", "undo", "undoSync"}
  /\ pc = "undo" => View(Disk) = before
  /\ pc = "undoSync" => View(Disk) = Unstaged(before, "config")

Progress ==
  /\ call.kind = "write" => WriteProgress
  /\ call.kind = "restore" => RestoreProgress
  /\ call.kind = "snapshot" => SnapshotProgress
  /\ call.kind = "unlink" => UnlinkProgress
  /\ call.kind = "discard" => DiscardProgress
  /\ pc = "idle" => Foreseen

SInv ==
  /\ TypeOK /\ Recorded
  /\ NamesWhole /\ StagingPrivate /\ Awaiting /\ OneInode /\ Finished /\ Progress

(* ------------------------- sequences and images ------------------------ *)

\* The directory seen is one of those recorded.
LEMMA DiskIsPast ==
  ASSUME dirs \in Seq(Dirs), dirs # << >>
  PROVE  Disk \in Past /\ Past \subseteq Dirs /\ Disk \in Dirs
  BY DEF Disk, Past

\* A change of the directory adds to what it was.
LEMMA Appended ==
  ASSUME dirs \in Seq(Dirs), NEW d \in Dirs, dirs' = Append(dirs, d)
  PROVE  /\ dirs' \in Seq(Dirs) /\ dirs' # << >>
         /\ Disk' = d /\ Past' = Past \cup {d}
<1>1. /\ dirs' \in Seq(Dirs) /\ dirs' # << >> /\ Len(dirs') = Len(dirs) + 1
      /\ dirs'[Len(dirs) + 1] = d /\ \A k \in 1..Len(dirs) : dirs'[k] = dirs[k]
      /\ Len(dirs) \in Nat
  OBVIOUS
<1>2. Disk' = d
  BY <1>1 DEF Disk
<1>3. Past' \subseteq Past \cup {d}
  <2> SUFFICES ASSUME NEW k \in 1..Len(dirs') PROVE dirs'[k] \in Past \cup {d}
    BY DEF Past
  <2> QED BY <1>1 DEF Past
<1>4. Past \subseteq Past'
  <2> SUFFICES ASSUME NEW k \in 1..Len(dirs) PROVE dirs[k] \in Past'
    BY DEF Past
  <2>1. k \in 1..Len(dirs') /\ dirs'[k] = dirs[k]
    BY <1>1
  <2> QED BY <2>1 DEF Past
<1>5. d \in Past'
  <2>1. Len(dirs) + 1 \in 1..Len(dirs')
    BY <1>1
  <2> QED BY <1>1, <2>1 DEF Past
<1> QED BY <1>1, <1>2, <1>3, <1>4, <1>5

\* A barrier or a power loss leaves one directory.
LEMMA Single ==
  ASSUME NEW d \in Dirs, dirs' = <<d>>
  PROVE  /\ dirs' \in Seq(Dirs) /\ dirs' # << >> /\ Len(dirs') = 1
         /\ Disk' = d /\ Past' = {d}
  BY DEF Disk, Past

\* Each entry of an image is one the directory had since the last barrier.
LEMMA ImageParts ==
  ASSUME dirs \in Seq(Dirs), dirs # << >>, fs \in {"ordered", "reordered"},
         NEW img \in Images
  PROVE  /\ img \in Dirs
         /\ \A e \in Pair : \E p \in Past : img.name[e] = p.name[e]
         /\ fs = "ordered" => img \in Past
<1>1. CASE fs = "ordered"
  <2>1. img \in Past
    BY <1>1 DEF Images, Past
  <2> QED BY <2>1, DiskIsPast
<1>2. CASE fs = "reordered"
  <2>1. PICK n, s \in [Pair -> 1..Len(dirs)] : img = Mixed(n, s)
    BY <1>2 DEF Images
  <2>2. \A e \in Pair : dirs[n[e]] \in Past /\ dirs[s[e]] \in Past
    BY DEF Past
  <2>3. \A e \in Pair : /\ dirs[n[e]].name[e] \in Inodes \cup {None}
                        /\ dirs[s[e]].staging[e] \in Inodes \cup {None}
    BY <2>2, DiskIsPast DEF Dirs, Names
  <2>4. img \in Dirs
    BY <2>1, <2>3 DEF Dirs, Names, Mixed
  <2>5. \A e \in Pair : img.name[e] = dirs[n[e]].name[e]
    BY <2>1 DEF Mixed
  <2> QED BY <1>2, <2>2, <2>4, <2>5
<1> QED BY <1>1, <1>2

\* After a barrier there is but one image.
LEMMA OneImage ==
  ASSUME dirs \in Seq(Dirs), Len(dirs) = 1
  PROVE  Images = {Disk}
<1>1. 1..Len(dirs) = {1} /\ Disk = dirs[1] /\ dirs[1] \in Dirs
  BY DEF Disk
<1>2. CASE fs = "ordered"
  BY <1>1, <1>2 DEF Images
<1>3. CASE fs # "ordered"
  <2> DEFINE d == dirs[1]
  <2>1. d = [name |-> [e \in Pair |-> d.name[e]], staging |-> [e \in Pair |-> d.staging[e]]]
    BY <1>1 DEF Dirs, Names
  <2>2. ASSUME NEW img \in Images
        PROVE  img = d
    <3>1. PICK n, s \in [Pair -> 1..Len(dirs)] : img = Mixed(n, s)
      BY <1>3 DEF Images
    <3>2. \A e \in Pair : n[e] = 1 /\ s[e] = 1
      BY <1>1
    <3> QED BY <2>1, <3>1, <3>2 DEF Mixed
  <2>3. d \in Images
    <3> DEFINE one == [e \in Pair |-> 1]
    <3>1. one \in [Pair -> 1..Len(dirs)] /\ \A e \in Pair : one[e] = 1
      BY <1>1
    <3> HIDE DEF one
    <3>2. d = Mixed(one, one)
      BY <2>1, <3>1 DEF Mixed
    <3> HIDE DEF d
    <3> QED BY <1>3, <3>1, <3>2 DEF Images
  <2> QED BY <1>1, <2>2, <2>3
<1> QED BY <1>2, <1>3

(* ------------------------------ the views ------------------------------ *)

\* The named inodes hold values, and read now as after a power loss.
LEMMA NamedReads ==
  ASSUME TypeOK, Recorded, NamesWhole, NEW d \in Past, NEW e \in Pair
  PROVE  /\ Read(d.name[e]) \in Values \cup {None}
         /\ Read(d.name[e]) = Durable(d.name[e])
         /\ Read(d.name[e]) \in awaited[e]
         /\ Read(d.name[e]) = None <=> d.name[e] = None
         /\ d.name[e] \in Inodes \cup {None}
         /\ d.staging[e] \in Inodes \cup {None}
<1>1. d \in Dirs
  BY DiskIsPast DEF Recorded
<1>2. d.name[e] \in Inodes \cup {None} /\ d.staging[e] \in Inodes \cup {None}
  BY <1>1 DEF Dirs, Names
<1>3. /\ Durable(d.name[e]) \in awaited[e]
      /\ d.name[e] # None => data[d.name[e]].durable
  BY DEF NamesWhole
<1>4. awaited[e] \subseteq Values \cup {None}
  BY DEF TypeOK
<1>5. CASE d.name[e] = None
  BY <1>2, <1>3, <1>4, <1>5 DEF Read, Durable
<1>6. CASE d.name[e] # None
  <2>1. /\ data[d.name[e]].durable
        /\ data[d.name[e]] \in [value : Values \cup {Torn}, durable : BOOLEAN]
    BY <1>2, <1>3, <1>6 DEF TypeOK
  <2>2. Read(d.name[e]) = data[d.name[e]].value /\ Durable(d.name[e]) = data[d.name[e]].value
    BY <1>6, <2>1 DEF Read, Durable
  <2>3. data[d.name[e]].value # None
    BY <2>1, RecordsAssumption, StoreAssumption DEF Values
  <2> QED BY <1>2, <1>3, <1>4, <1>6, <2>2, <2>3
<1> QED BY <1>5, <1>6

\* The directory, as a call of the store sees it, is of its type.
LEMMA ViewTypes ==
  ASSUME TypeOK, Recorded, NamesWhole
  PROVE  View(Disk) \in ViewType
<1>1. Disk \in Past
  BY DiskIsPast DEF Recorded
<1> QED BY <1>1, NamedReads DEF View, ViewType, Pair

\* A view by its parts, and what the calls make of it.
Seen(config, previous, staging) ==
  [config |-> config, configPrevious |-> previous, staging |-> staging]

\* A view of the directory, by what each operation does to it.
LEMMA SeenForms ==
  ASSUME NEW a, NEW b, NEW s
  PROVE  /\ \A x : Unstaged(Seen(a, b, s), x) = Seen(a, b, s \ {x})
         /\ \A x : Staged(Seen(a, b, s), x) = Seen(a, b, s \cup {x})
         /\ \A v : Written(Seen(a, b, s), "config", v) = Seen(v, b, s)
         /\ \A v : Written(Seen(a, b, s), "configPrevious", v) = Seen(a, v, s)
         /\ Seen(a, b, s).config = a /\ Seen(a, b, s).configPrevious = b
         /\ Seen(a, b, s).staging = s
         /\ Seen(a, b, s)["config"] = a /\ Seen(a, b, s)["configPrevious"] = b
  BY DEF Seen, Unstaged, Staged, Written

Staging(d) == {e \in Pair : d.staging[e] # None}

\* The view of a directory, name by name.
LEMMA ViewForm ==
  ASSUME NEW d
  PROVE  View(d) = Seen(Read(d.name["config"]), Read(d.name["configPrevious"]), Staging(d))
  BY DEF View, Seen, Staging

\* The same of a directory.
LEMMA ViewForms ==
  ASSUME NEW d
  PROVE  LET a == Read(d.name["config"])
             b == Read(d.name["configPrevious"])
         IN /\ \A x : Unstaged(View(d), x) = Seen(a, b, Staging(d) \ {x})
            /\ \A x : Staged(View(d), x) = Seen(a, b, Staging(d) \cup {x})
            /\ \A v : Written(View(d), "config", v) = Seen(v, b, Staging(d))
            /\ \A v : Written(View(d), "configPrevious", v) = Seen(a, v, Staging(d))
            /\ \A v : Unstaged(Written(View(d), "config", v), "config")
                      = Seen(v, b, Staging(d) \ {"config"})
<1> DEFINE a == Read(d.name["config"])
           b == Read(d.name["configPrevious"])
           s == Staging(d)
<1>1. View(d) = Seen(a, b, s)
  BY ViewForm
<1> HIDE DEF a, b, s
<1>2. /\ \A x : Unstaged(View(d), x) = Seen(a, b, s \ {x})
      /\ \A x : Staged(View(d), x) = Seen(a, b, s \cup {x})
      /\ \A v : Written(View(d), "config", v) = Seen(v, b, s)
      /\ \A v : Written(View(d), "configPrevious", v) = Seen(a, v, s)
  BY <1>1, SeenForms
<1>3. \A v : Unstaged(Seen(v, b, s), "config") = Seen(v, b, s \ {"config"})
  BY SeenForms
<1>4. \A v : Unstaged(Written(View(d), "config", v), "config") = Seen(v, b, s \ {"config"})
  BY <1>2, <1>3
<1> QED BY <1>2, <1>4 DEF a, b, s

\* A call that leaves the directory and the named data leaves the view.
LEMMA SameView ==
  ASSUME Disk' = Disk,
         \A e \in Pair : Disk.name[e] # None => data'[Disk.name[e]] = data[Disk.name[e]]
  PROVE  View(Disk)' = View(Disk)
<1>1. /\ Read(Disk.name["config"])' = Read(Disk.name["config"])
      /\ Read(Disk.name["configPrevious"])' = Read(Disk.name["configPrevious"])
  BY DEF Read, Pair
<1> QED BY <1>1 DEF View

\* What a change of names and staging names does to the view.
LEMMA ChangedView ==
  ASSUME NEW a, NEW b, NEW s,
         Read(Disk.name["config"])' = a, Read(Disk.name["configPrevious"])' = b,
         Staging(Disk)' = s
  PROVE  View(Disk)' = Seen(a, b, s)
  BY DEF View, Seen, Staging

\* Giving up a staging name.
LEMMA UnstagedView ==
  ASSUME Disk \in Dirs, NEW x \in Pair, Disk' = Unnamed(Disk, x), data' = data
  PROVE  View(Disk)' = Unstaged(View(Disk), x)
<1>1. /\ Disk'.name = Disk.name
      /\ \A e \in Pair : Disk'.staging[e] = (IF e = x THEN None ELSE Disk.staging[e])
  BY DEF Dirs, Names, Unnamed
<1>2. Staging(Disk)' = Staging(Disk) \ {x}
  BY <1>1 DEF Staging
<1>3. /\ Read(Disk.name["config"])' = Read(Disk.name["config"])
      /\ Read(Disk.name["configPrevious"])' = Read(Disk.name["configPrevious"])
  BY <1>1 DEF Read
<1>4. View(Disk)' = Seen(Read(Disk.name["config"]), Read(Disk.name["configPrevious"]), Staging(Disk) \ {x})
  BY <1>2, <1>3, ChangedView
<1> QED BY <1>4, ViewForms

\* Taking a staging name for a free inode.
LEMMA StagedView ==
  ASSUME Disk \in Dirs, NEW x \in Pair, NEW i \in Inodes,
         Disk' = [Disk EXCEPT !.staging[x] = i],
         \A e \in Pair : Disk.name[e] # None => data'[Disk.name[e]] = data[Disk.name[e]]
  PROVE  View(Disk)' = Staged(View(Disk), x)
<1>1. /\ Disk'.name = Disk.name
      /\ \A e \in Pair : Disk'.staging[e] = (IF e = x THEN i ELSE Disk.staging[e])
  BY DEF Dirs, Names
<1>2. Staging(Disk)' = Staging(Disk) \cup {x}
  BY <1>1, StoreAssumption DEF Staging
<1>3. /\ Read(Disk.name["config"])' = Read(Disk.name["config"])
      /\ Read(Disk.name["configPrevious"])' = Read(Disk.name["configPrevious"])
  BY <1>1 DEF Read, Pair
<1>4. View(Disk)' = Seen(Read(Disk.name["config"]), Read(Disk.name["configPrevious"]), Staging(Disk) \cup {x})
  BY <1>2, <1>3, ChangedView
<1> QED BY <1>4, ViewForms

\* Giving an entry another inode, or none.
LEMMA NamedView ==
  ASSUME Disk \in Dirs, NEW x \in Pair, NEW i,
         Disk' = [Disk EXCEPT !.name[x] = i], data' = data
  PROVE  View(Disk)' = Written(View(Disk), x, Read(i))
<1>1. /\ Disk'.staging = Disk.staging
      /\ \A e \in Pair : Disk'.name[e] = (IF e = x THEN i ELSE Disk.name[e])
  BY DEF Dirs, Names
<1>2. \A e \in Pair : Read(Disk.name[e])' = IF e = x THEN Read(i) ELSE Read(Disk.name[e])
  BY <1>1 DEF Read
<1>3. Staging(Disk)' = Staging(Disk)
  BY <1>1 DEF Staging
<1>4. CASE x = "config"
  <2>1. /\ Read(Disk.name["config"])' = Read(i)
        /\ Read(Disk.name["configPrevious"])' = Read(Disk.name["configPrevious"])
    BY <1>2, <1>4 DEF Pair
  <2>2. View(Disk)' = Seen(Read(i), Read(Disk.name["configPrevious"]), Staging(Disk))
    BY <1>3, <2>1, ChangedView
  <2> QED BY <1>4, <2>2, ViewForms
<1>5. CASE x = "configPrevious"
  <2>1. /\ Read(Disk.name["config"])' = Read(Disk.name["config"])
        /\ Read(Disk.name["configPrevious"])' = Read(i)
    BY <1>2, <1>5 DEF Pair
  <2>2. View(Disk)' = Seen(Read(Disk.name["config"]), Read(i), Staging(Disk))
    BY <1>3, <2>1, ChangedView
  <2> QED BY <1>5, <2>2, ViewForms
<1> QED BY <1>4, <1>5 DEF Pair

\* ... and its staging name with it.
LEMMA RenamedView ==
  ASSUME Disk \in Dirs, NEW i,
         Disk' = Unnamed([Disk EXCEPT !.name["config"] = i], "config"), data' = data
  PROVE  View(Disk)' = Unstaged(Written(View(Disk), "config", Read(i)), "config")
<1>1. /\ \A e \in Pair : Disk'.name[e] = (IF e = "config" THEN i ELSE Disk.name[e])
      /\ \A e \in Pair : Disk'.staging[e] = (IF e = "config" THEN None ELSE Disk.staging[e])
  BY DEF Dirs, Names, Unnamed
<1>2. /\ Read(Disk.name["config"])' = Read(i)
      /\ Read(Disk.name["configPrevious"])' = Read(Disk.name["configPrevious"])
  BY <1>1 DEF Read, Pair
<1>3. Staging(Disk)' = Staging(Disk) \ {"config"}
  BY <1>1 DEF Staging
<1>4. View(Disk)' = Seen(Read(i), Read(Disk.name["configPrevious"]), Staging(Disk) \ {"config"})
  BY <1>2, <1>3, ChangedView
<1> QED BY <1>4, ViewForms


\* What the calls of the store make of a directory, one after the other.
LEMMA Algebra ==
  ASSUME NEW d \in ViewType
  PROVE  LET copied == Snapshotted(d, "config", Copy)
         IN /\ \A x : Unstaged(d, x).staging = d.staging \ {x}
            /\ \A x : Unstaged(d, x).config = d.config
            /\ \A x : Unstaged(d, x).configPrevious = d.configPrevious
            /\ \A x : Staged(d, x).staging = d.staging \cup {x}
            /\ \A x : Staged(d, x).config = d.config
            /\ \A x : Staged(d, x).configPrevious = d.configPrevious
            /\ copied.staging = d.staging \ {Copy}
            /\ \A x : Unstaged(d, x) \in ViewType
            /\ \A x : x \notin d.staging => Unstaged(d, x) = d
            /\ \A x : x \notin d.staging => Unstaged(Staged(d, x), x) = d
            /\ \A v : "config" \notin d.staging =>
                 Unstaged(Written(Staged(d, "config"), "config", v), "config")
                   = Written(d, "config", v)
            /\ Staged(Unstaged(d, Copy), Copy) = Staged(d, Copy)
            /\ Unstaged(Staged(d, Copy), Copy) = Unstaged(d, Copy)
            /\ Written(Staged(d, Copy), Copy, d.config) = Staged(copied, Copy)
            /\ Unstaged(Staged(copied, Copy), Copy) = copied
            /\ Unstaged(copied, Copy) = copied
<1> DEFINE a == d.config
           b == d.configPrevious
           s == d.staging
           copied == Snapshotted(d, "config", Copy)
<1>1. /\ d = Seen(a, b, s) /\ s \subseteq Pair
      /\ a \in Values \cup {None} /\ b \in Values \cup {None} /\ d["config"] = a
  BY DEF Seen, ViewType
<1> HIDE DEF a, b, s
<1>2. copied = Seen(a, a, s \ {Copy})
  <2>1. copied = Unstaged(Written(d, "configPrevious", a), "configPrevious")
    BY <1>1 DEF Snapshotted, Written, Copy
  <2>2. Written(d, "configPrevious", a) = Seen(a, a, s)
    BY <1>1, SeenForms
  <2> QED BY <2>1, <2>2, SeenForms DEF Copy
<1> HIDE DEF copied
<1>3. /\ \A x : Unstaged(d, x) = Seen(a, b, s \ {x})
      /\ \A x : Staged(d, x) = Seen(a, b, s \cup {x})
      /\ \A v : Written(d, "config", v) = Seen(v, b, s)
      /\ Staged(copied, Copy) = Seen(a, a, (s \ {Copy}) \cup {Copy})
      /\ Unstaged(copied, Copy) = Seen(a, a, (s \ {Copy}) \ {Copy})
  BY <1>1, <1>2, SeenForms
<1>4. /\ \A x : x \notin s => s \ {x} = s
      /\ \A x : x \notin s => (s \cup {x}) \ {x} = s
      /\ (s \ {Copy}) \cup {Copy} = s \cup {Copy}
      /\ (s \cup {Copy}) \ {Copy} = s \ {Copy}
      /\ (s \ {Copy}) \ {Copy} = s \ {Copy}
  BY Zenon
<1>5. /\ \A x : Unstaged(d, x).staging = s \ {x}
      /\ \A x : Unstaged(d, x).config = a
      /\ \A x : Unstaged(d, x).configPrevious = b
      /\ \A x : Staged(d, x).staging = s \cup {x}
      /\ \A x : Staged(d, x).config = a
      /\ \A x : Staged(d, x).configPrevious = b
      /\ copied.staging = s \ {Copy}
  BY <1>2, <1>3 DEF Seen
<1>6. ASSUME NEW x
      PROVE  Unstaged(d, x) \in ViewType
  <2>1. s \ {x} \in SUBSET Pair
    BY <1>1
  <2>2. ASSUME NEW t \in SUBSET Pair
        PROVE  Seen(a, b, t) \in ViewType
    BY <1>1 DEF Seen, ViewType
  <2>3. Unstaged(d, x) = Seen(a, b, s \ {x})
    BY <1>3
  <2>4. Seen(a, b, s \ {x}) \in ViewType
    BY <2>1, <2>2
  <2> QED BY <2>3, <2>4
<1>7. \A x : x \notin s => Unstaged(d, x) = d
  BY <1>1, <1>3, <1>4
<1>8. ASSUME NEW x, x \notin s
      PROVE  Unstaged(Staged(d, x), x) = d
  <2>1. Unstaged(Staged(d, x), x) = Seen(a, b, (s \cup {x}) \ {x})
    <3>1. Staged(d, x) = Seen(a, b, s \cup {x})
      BY <1>3
    <3>2. Unstaged(Seen(a, b, s \cup {x}), x) = Seen(a, b, (s \cup {x}) \ {x})
      BY SeenForms
    <3> QED BY <3>1, <3>2
  <2> QED BY <1>1, <1>4, <1>8, <2>1
<1>9. ASSUME NEW v, "config" \notin s
      PROVE  Unstaged(Written(Staged(d, "config"), "config", v), "config") = Written(d, "config", v)
  <2>1. Written(Staged(d, "config"), "config", v) = Seen(v, b, s \cup {"config"})
    BY <1>3, SeenForms
  <2>2. Unstaged(Seen(v, b, s \cup {"config"}), "config")
          = Seen(v, b, (s \cup {"config"}) \ {"config"})
    BY SeenForms
  <2> QED BY <1>3, <1>4, <1>9, <2>1, <2>2
<1>10. Staged(Unstaged(d, Copy), Copy) = Staged(d, Copy)
  <2>1. Staged(Unstaged(d, Copy), Copy) = Seen(a, b, (s \ {Copy}) \cup {Copy})
    BY <1>3, SeenForms
  <2> QED BY <1>3, <1>4, <2>1
<1>11. Unstaged(Staged(d, Copy), Copy) = Unstaged(d, Copy)
  <2>1. Unstaged(Staged(d, Copy), Copy) = Seen(a, b, (s \cup {Copy}) \ {Copy})
    BY <1>3, SeenForms
  <2> QED BY <1>3, <1>4, <2>1
<1>12. Written(Staged(d, Copy), Copy, a) = Staged(copied, Copy)
  <2>1. Written(Staged(d, Copy), Copy, a) = Seen(a, a, s \cup {Copy})
    BY <1>3, SeenForms DEF Copy
  <2> QED BY <1>3, <1>4, <2>1
<1>13. Unstaged(Staged(copied, Copy), Copy) = copied
  <2>1. Unstaged(Staged(copied, Copy), Copy) = Seen(a, a, (s \cup {Copy}) \ {Copy})
    BY <1>3, <1>4, SeenForms
  <2> QED BY <1>2, <1>4, <2>1
<1>14. Unstaged(copied, Copy) = copied
  BY <1>2, <1>3, <1>4
<1>15. a = d.config /\ b = d.configPrevious /\ s = d.staging
  BY DEF a, b, s
<1>16. copied = Snapshotted(d, "config", Copy)
  BY DEF copied
<1> HIDE DEF copied
<1> QED
  BY <1>5, <1>6, <1>7, <1>8, <1>9, <1>10, <1>11, <1>12, <1>13, <1>14, <1>15, <1>16

\* Removing what is absent changes nothing but a staging name.
LEMMA RemovedForm ==
  ASSUME NEW d \in ViewType, NEW x \in Pair
  PROVE  /\ Removed(d, x) = Written(Cleaned(d, x), x, None)
         /\ Cleaned(d, x) \in ViewType
         /\ Cleaned(d, x)[x] = None => Removed(d, x) = Cleaned(d, x)
         /\ x = "config" => Cleaned(d, x) = d
         /\ x = Copy => Cleaned(d, x) = Unstaged(d, x)
<1>1. Removed(d, x) = Written(Cleaned(d, x), x, None)
  BY DEF Removed, Written
<1>2. /\ x = "config" => Cleaned(d, x) = d
      /\ x = Copy => Cleaned(d, x) = Unstaged(d, x)
  BY DEF Cleaned, Snapshots, Copy
<1>3. Cleaned(d, x) \in ViewType
  BY <1>2, Algebra DEF Pair, Copy
<1>4. ASSUME Cleaned(d, x)[x] = None
      PROVE  Removed(d, x) = Cleaned(d, x)
  BY <1>1, <1>3, <1>4 DEF Written, ViewType
<1> QED BY <1>1, <1>2, <1>3, <1>4

(* ------------------------- the call under way -------------------------- *)

\* What each kind of call works on.
LEMMA CallForms ==
  ASSUME call \in Calls
  PROVE  /\ call.kind \in {"write", "restore", "snapshot", "unlink", "discard"}
         /\ call.entry \in Pair
         /\ call.kind \in {"write", "restore", "discard"} => call.entry = "config"
         /\ call.kind = "snapshot" => call.entry = Copy
         /\ call.kind = "write" => call.value \in Values
  BY DEF Calls, Pair, Copy

\* Which calls reach which system calls.
LEMMA Reached ==
  ASSUME SInv
  PROVE  /\ pc \in Filling \cup {"create"} => call.kind \in Giving
         /\ pc \in {"read"} => call.kind = "restore"
         /\ pc \in {"clean", "cleanSync"} => call.kind \in {"restore", "unlink"}
         /\ pc \in {"clear", "clearSync", "drop", "dropSync"} => call.kind = "snapshot"
         /\ pc = "syncFile" => call.kind \in {"write", "restore"}
         /\ pc = "syncDir" => call.kind \in Giving
         /\ pc \in {"undo", "undoSync"} => call.kind # "unlink"
         /\ pc \in {"unlink", "unlinkSync"} => call.kind = "unlink"
<1>1. call.kind \in {"write", "restore", "snapshot", "unlink", "discard"}
  BY CallForms DEF SInv, TypeOK
<1>2. Progress
  BY DEF SInv
<1> USE DEF Filling, Giving
<1>3. CASE call.kind = "write"
  BY <1>2, <1>3 DEF Progress, WriteProgress
<1>4. CASE call.kind = "restore"
  BY <1>2, <1>4 DEF Progress, RestoreProgress
<1>5. CASE call.kind = "snapshot"
  BY <1>2, <1>5 DEF Progress, SnapshotProgress
<1>6. CASE call.kind = "unlink"
  BY <1>2, <1>6 DEF Progress, UnlinkProgress
<1>7. CASE call.kind = "discard"
  BY <1>2, <1>7 DEF Progress, DiscardProgress
<1> QED BY <1>1, <1>3, <1>4, <1>5, <1>6, <1>7

\* At every system call the directory is one that the call may leave.
LEMMA Leaving ==
  ASSUME SInv
  PROVE  View(Disk) \in Leaves(call, before)
<1>1. call.kind \in {"write", "restore", "snapshot", "unlink", "discard"}
      /\ (call.kind \in {"write", "restore", "discard"} => call.entry = "config")
      /\ (call.kind = "snapshot" => call.entry = Copy)
  BY CallForms DEF SInv, TypeOK
<1>2. Progress
  BY DEF SInv
<1>3. CASE pc = "idle"
  BY <1>2, <1>3 DEF Progress, Foreseen
<1>4. ASSUME pc # "idle", call.kind = "write"
      PROVE  View(Disk) \in {before, Staged(before, "config"), Written(before, "config", call.value)}
  BY <1>2, <1>4 DEF Progress, WriteProgress, Filling
<1>5. ASSUME pc # "idle", call.kind = "restore"
      PROVE  View(Disk) \in {before, Bare, Staged(Bare, "config"),
                             Written(Bare, "config", before.configPrevious)}
  BY <1>2, <1>5 DEF Progress, RestoreProgress, Filling
<1>6. ASSUME pc # "idle", call.kind = "snapshot"
      PROVE  View(Disk) \in {before, Bare, Staged(before, Copy), Staged(Copied, Copy), Copied}
  BY <1>2, <1>6 DEF Progress, SnapshotProgress, Filling
<1>7. ASSUME pc # "idle", call.kind = "unlink"
      PROVE  View(Disk) \in {before, Cleaned(before, call.entry), Removed(before, call.entry)}
  BY <1>2, <1>7 DEF Progress, UnlinkProgress
<1>8. ASSUME pc # "idle", call.kind = "discard"
      PROVE  View(Disk) \in {before, Unstaged(before, "config")}
  BY <1>2, <1>8 DEF Progress, DiscardProgress
<1> HIDE DEF Disk
<1>9. CASE pc # "idle" /\ call.kind = "write"
  BY <1>1, <1>4, <1>9 DEF Leaves, WriteLeaves
<1>10. CASE pc # "idle" /\ call.kind = "restore"
  BY <1>1, <1>5, <1>10 DEF Leaves, RestoreLeaves, WriteLeaves, Bare, Copy
<1>11. CASE pc # "idle" /\ call.kind = "snapshot"
  BY <1>1, <1>6, <1>11 DEF Leaves, SnapshotLeaves, Bare, Copied, Copy
<1>12. CASE pc # "idle" /\ call.kind = "unlink"
  BY <1>7, <1>12 DEF Leaves, RemoveLeaves
<1>13. CASE pc # "idle" /\ call.kind = "discard"
  BY <1>1, <1>8, <1>13 DEF Leaves
<1> QED BY <1>1, <1>3, <1>9, <1>10, <1>11, <1>12, <1>13

(* ---------------------- what most steps have in common ----------------- *)

Outcomes == {"none", "ok", "refused", "conflict", "failed", "killed"}

\* Nothing new is named but durable data that is awaited.
LEMMA KeepsWhole ==
  ASSUME SInv, dirs' \in Seq(Dirs), dirs' # << >>,
         Disk' \in Past', Past' \subseteq Past \cup {Disk'},
         UNCHANGED <<fs, data, call, before>>,
         \A e \in Pair :
           \/ Disk'.name[e] = Disk.name[e]
           \/ /\ Durable(Disk'.name[e]) \in awaited[e]
              /\ Disk'.name[e] # None => data[Disk'.name[e]].durable,
         fs = "ordered" /\ Disk'.staging[Copy] # None /\ Disk'.name[Copy] # None
           => Disk'.staging[Copy] = Disk'.name[Copy],
         pc' \in Steps \ Filling, outcome' \in Outcomes, faults' \in 0..MaxFaults,
         awaited' = awaited \/ (Past' = {Disk'} /\ awaited' = Held(Disk)')
  PROVE  TypeOK' /\ Recorded' /\ NamesWhole' /\ StagingPrivate' /\ OneInode'
<1>1. TypeOK /\ Recorded /\ NamesWhole /\ OneInode
  BY DEF SInv
<1>2. Disk \in Past /\ Disk' \in Dirs
  <2>1. Past' \subseteq Dirs
    BY DEF Past
  <2> QED BY <1>1, <2>1, DiskIsPast DEF Recorded
<1>3. \A e \in Pair : /\ Durable(Disk'.name[e]) \in awaited[e]
                      /\ Disk'.name[e] # None => data[Disk'.name[e]].durable
  BY <1>1, <1>2 DEF NamesWhole
<1>4. \A d \in Past', e \in Pair :
        /\ Durable(d.name[e]) \in awaited[e]
        /\ d.name[e] # None => data[d.name[e]].durable
  BY <1>1, <1>3 DEF NamesWhole
<1>5. \A i : Durable(i)' = Durable(i) /\ Read(i)' = Read(i)
  BY DEF Durable, Read
<1>6. \A e \in Pair : Read(Disk'.name[e]) = Durable(Disk'.name[e])
  BY <1>3 DEF Read, Durable
<1>7. ASSUME awaited' = awaited
      PROVE  NamesWhole' /\ awaited' \in [Pair -> SUBSET (Values \cup {None})]
  <2>1. NamesWhole'
    BY <1>4, <1>5, <1>7 DEF NamesWhole
  <2> QED BY <1>1, <1>7, <2>1 DEF TypeOK
<1>8. ASSUME Past' = {Disk'} /\ awaited' = Held(Disk)'
      PROVE  NamesWhole' /\ awaited' \in [Pair -> SUBSET (Values \cup {None})]
  <2>1. \A e \in Pair : awaited'[e] = {Read(Disk'.name[e])}
    BY <1>5, <1>8 DEF Held
  <2>2. NamesWhole'
    BY <1>3, <1>5, <1>6, <1>8, <2>1 DEF NamesWhole
  <2>3. \A e \in Pair : awaited'[e] \subseteq awaited[e]
    BY <1>3, <1>6, <2>1
  <2>4. awaited' = [e \in Pair |-> awaited'[e]]
    BY <1>8 DEF Held
  <2>5. awaited' \in [Pair -> SUBSET (Values \cup {None})]
    BY <1>1, <2>3, <2>4 DEF TypeOK
  <2> QED BY <2>2, <2>5
<1>9. NamesWhole' /\ awaited' \in [Pair -> SUBSET (Values \cup {None})]
  BY <1>7, <1>8
<1>10. Recorded'
  BY <1>1 DEF Recorded
<1>11. \A k \in 1..Len(dirs') : dirs'[k] \in Dirs
  OBVIOUS
<1>12. TypeOK'
  BY <1>1, <1>9, <1>11 DEF TypeOK, Outcomes, Steps
<1>13. StagingPrivate'
  BY DEF StagingPrivate, Filling
<1>14. OneInode'
  BY <1>1 DEF OneInode
<1> QED BY <1>9, <1>10, <1>12, <1>13, <1>14

\* A step that leaves the directory alone.
LEMMA KeepsDirectory ==
  ASSUME SInv, UNCHANGED <<fs, dirs, data, call, before>>,
         pc' \in Steps \ Filling, outcome' \in Outcomes, faults' \in 0..MaxFaults,
         awaited' = awaited \/ (Len(dirs) = 1 /\ awaited' = Held(Disk)')
  PROVE  /\ TypeOK' /\ Recorded' /\ NamesWhole' /\ StagingPrivate' /\ OneInode'
         /\ View(Disk)' = View(Disk)
<1>1. dirs \in Seq(Dirs) /\ dirs # << >> /\ OneInode
  BY DEF SInv, Recorded
<1>2. Disk' = Disk /\ Past' = Past /\ Disk \in Past
  BY <1>1, DiskIsPast DEF Disk, Past
<1>3. Len(dirs) = 1 => Past = {Disk}
  BY <1>1 DEF Past, Disk
<1>4. fs = "ordered" /\ Disk.staging[Copy] # None /\ Disk.name[Copy] # None
        => Disk.staging[Copy] = Disk.name[Copy]
  BY <1>1, <1>2 DEF OneInode
<1>5. TypeOK' /\ Recorded' /\ NamesWhole' /\ StagingPrivate' /\ OneInode'
  BY <1>1, <1>2, <1>3, <1>4, KeepsWhole
<1> QED BY <1>2, <1>5, SameView

\* A barrier.
LEMMA KeepsBarrier ==
  ASSUME SInv, dirs' = <<Disk>>, UNCHANGED <<fs, data, call, before>>,
         pc' \in Steps \ Filling, outcome' \in Outcomes, faults' \in 0..MaxFaults,
         awaited' = awaited \/ awaited' = Held(Disk)'
  PROVE  /\ TypeOK' /\ Recorded' /\ NamesWhole' /\ StagingPrivate' /\ OneInode'
         /\ View(Disk)' = View(Disk) /\ Len(dirs') = 1
<1>1. dirs \in Seq(Dirs) /\ dirs # << >> /\ OneInode
  BY DEF SInv, Recorded
<1>2. Disk \in Past /\ Disk \in Dirs
  BY <1>1, DiskIsPast
<1>3. /\ dirs' \in Seq(Dirs) /\ dirs' # << >> /\ Len(dirs') = 1
      /\ Disk' = Disk /\ Past' = {Disk}
  BY <1>2, Single
<1>4. fs = "ordered" /\ Disk.staging[Copy] # None /\ Disk.name[Copy] # None
        => Disk.staging[Copy] = Disk.name[Copy]
  BY <1>1, <1>2 DEF OneInode
<1>5. TypeOK' /\ Recorded' /\ NamesWhole' /\ StagingPrivate' /\ OneInode'
  BY <1>2, <1>3, <1>4, KeepsWhole
<1> QED BY <1>3, <1>5, SameView

\* A change of the directory.
LEMMA KeepsChange ==
  ASSUME SInv, NEW d \in Dirs, dirs' = Append(dirs, d), UNCHANGED <<fs, data, call, before>>,
         \A e \in Pair :
           \/ d.name[e] = Disk.name[e]
           \/ /\ Durable(d.name[e]) \in awaited[e]
              /\ d.name[e] # None => data[d.name[e]].durable,
         fs = "ordered" /\ d.staging[Copy] # None /\ d.name[Copy] # None
           => d.staging[Copy] = d.name[Copy],
         pc' \in Steps \ Filling, outcome' \in Outcomes, faults' \in 0..MaxFaults,
         awaited' = awaited
  PROVE  TypeOK' /\ Recorded' /\ NamesWhole' /\ StagingPrivate' /\ OneInode' /\ Disk' = d
<1>1. dirs \in Seq(Dirs) /\ dirs # << >>
  BY DEF SInv, Recorded
<1>2. dirs' \in Seq(Dirs) /\ dirs' # << >> /\ Disk' = d /\ Past' = Past \cup {d}
  BY <1>1, Appended
<1> QED BY <1>2, KeepsWhole

\* A call that has ended owes nothing but what SetupApply counts on.
LEMMA AtRest ==
  ASSUME pc' = "idle", Foreseen',
         outcome' = "ok" => \/ Len(dirs') = 1
                            \/ call.kind' \in {"unlink", "discard"} /\ View(Disk)' = before'
  PROVE  Awaiting' /\ Finished' /\ Progress'
<1>1. Awaiting'
  BY DEF Awaiting, Filling
<1>2. Finished'
  BY DEF Finished
<1>3. /\ WriteProgress' /\ RestoreProgress' /\ SnapshotProgress'
      /\ UnlinkProgress' /\ DiscardProgress'
  BY DEF WriteProgress, RestoreProgress, SnapshotProgress, UnlinkProgress, DiscardProgress,
         Filling
<1>4. Progress'
  BY <1>3 DEF Progress
<1> QED BY <1>1, <1>2, <1>4

\* A system call fails: the staging file is removed, or the call has failed.
LEMMA FailStep ==
  ASSUME SInv, Fail, pc # "idle", UNCHANGED <<fs, data, call, before>>
  PROVE  SInv'
<1>1. /\ faults' \in 0..MaxFaults /\ UNCHANGED <<dirs, awaited>>
      /\ \/ pc' = "idle" /\ outcome' = "failed"
         \/ /\ pc' = "undo" /\ outcome' = outcome
            /\ \/ pc \in Filling
               \/ call.kind = "snapshot" /\ pc \in {"syncDir", "drop", "dropSync"}
  BY StoreAssumption DEF SInv, TypeOK, Fail, Raise, Go, End, Filling
<1>2. outcome \in Outcomes /\ outcome = "none"
  BY DEF SInv, TypeOK, Finished, Outcomes
<1>3. pc' \in Steps \ Filling /\ outcome' \in Outcomes
  BY <1>1, <1>2 DEF Steps, Filling, Outcomes
<1>4. /\ TypeOK' /\ Recorded' /\ NamesWhole' /\ StagingPrivate' /\ OneInode'
      /\ View(Disk)' = View(Disk)
  BY <1>1, <1>3, KeepsDirectory
<1>5. CASE pc' = "idle" /\ outcome' = "failed"
  <2>1. View(Disk)' \in Leaves(call, before)'
    BY <1>4, Leaving DEF Leaves
  <2>2. Foreseen'
    BY <1>5, <2>1 DEF Foreseen
  <2> QED BY <1>4, <1>5, <2>2, AtRest DEF SInv
<1>6. CASE /\ pc' = "undo" /\ outcome' = outcome
           /\ \/ pc \in Filling
              \/ call.kind = "snapshot" /\ pc \in {"syncDir", "drop", "dropSync"}
  <2>1. Goal' = Goal /\ call' = call /\ before' = before
    BY DEF Goal
  <2>2. call.kind \in Giving
    BY <1>6, Reached DEF Giving
  <2>3. Awaiting'
    BY <1>1, <1>6, <2>1 DEF SInv, Awaiting, Filling
  <2>4. Finished'
    BY <1>2, <1>6 DEF Finished
  <2>5. Progress
    BY DEF SInv
  <2>6. ASSUME call.kind = "write"
        PROVE  Progress'
    <3>1. WriteProgress
      BY <2>5, <2>6 DEF Progress
    <3>2. WriteProgress'
      BY <1>4, <1>6, <2>6, <3>1 DEF WriteProgress, Filling
    <3> QED BY <1>6, <2>6, <3>2 DEF Progress
  <2>7. ASSUME call.kind = "restore"
        PROVE  Progress'
    <3>1. RestoreProgress
      BY <2>5, <2>7 DEF Progress
    <3>2. RestoreProgress'
      BY <1>4, <1>6, <2>7, <3>1 DEF RestoreProgress, Filling, Bare
    <3> QED BY <1>6, <2>7, <3>2 DEF Progress
  <2>8. ASSUME call.kind = "snapshot"
        PROVE  Progress'
    <3>1. SnapshotProgress
      BY <2>5, <2>8 DEF Progress
    <3>2. SnapshotProgress'
      BY <1>4, <1>6, <2>8, <3>1 DEF SnapshotProgress, Filling, Bare, Copied
    <3> QED BY <1>6, <2>8, <3>2 DEF Progress
  <2>9. Progress'
    BY <2>2, <2>6, <2>7, <2>8 DEF Giving
  <2> QED BY <1>4, <2>3, <2>4, <2>9 DEF SInv
<1> QED BY <1>1, <1>5, <1>6

\* The call goes on at another system call.
LEMMA GoesOn ==
  ASSUME SInv, pc # "idle", UNCHANGED <<call, before>>,
         NEW next \in Steps \ {"idle"}, Go(next),
         next \in {"clearSync", "create"} \cup Filling => call.kind \in Giving /\ Goal \in Values,
         next = "unlink" => Len(dirs') = 1 \/ View(Disk)' = before
  PROVE  /\ Awaiting' /\ Finished' /\ pc' = next
         /\ outcome' \in Outcomes /\ awaited' = awaited
<1>1. Goal' = Goal /\ call' = call /\ before' = before
  BY DEF Goal
<1>2. pc' = next /\ outcome' = outcome /\ awaited' = awaited
  BY DEF Go
<1>3. outcome = "none" /\ Awaiting
  BY DEF SInv, Finished
<1>4. Awaiting'
  BY <1>1, <1>2, <1>3 DEF Awaiting
<1>5. Finished'
  BY <1>1, <1>2, <1>3 DEF Finished
<1> QED BY <1>2, <1>3, <1>4, <1>5 DEF Outcomes

\* ... the directory being what it was, or made durable.
LEMMA GoStep ==
  ASSUME SInv, pc # "idle", UNCHANGED <<fs, data, call, before, faults>>,
         dirs' = dirs \/ dirs' = <<Disk>>,
         NEW next \in Steps \ ({"idle"} \cup Filling), Go(next),
         next \in {"clearSync", "create"} => call.kind \in Giving /\ Goal \in Values,
         next = "unlink" => dirs' = <<Disk>> \/ View(Disk) = before
  PROVE  /\ TypeOK' /\ Recorded' /\ NamesWhole' /\ StagingPrivate' /\ OneInode'
         /\ Awaiting' /\ Finished' /\ View(Disk)' = View(Disk) /\ pc' = next
<1>1. outcome' \in Outcomes /\ pc' = next /\ awaited' = awaited /\ faults' \in 0..MaxFaults
  BY DEF Go, SInv, TypeOK, Finished, Outcomes
<1>2. CASE dirs' = dirs
  <2>1. /\ TypeOK' /\ Recorded' /\ NamesWhole' /\ StagingPrivate' /\ OneInode'
        /\ View(Disk)' = View(Disk)
    BY <1>1, <1>2, KeepsDirectory
  <2>2. next = "unlink" => Len(dirs') = 1 \/ View(Disk)' = before
    BY <1>2, <2>1
  <2>3. Awaiting' /\ Finished'
    BY <2>2, GoesOn DEF Filling
  <2> QED BY <1>1, <2>1, <2>3
<1>3. CASE dirs' = <<Disk>>
  <2>1. /\ TypeOK' /\ Recorded' /\ NamesWhole' /\ StagingPrivate' /\ OneInode'
        /\ View(Disk)' = View(Disk) /\ Len(dirs') = 1
    BY <1>1, <1>3, KeepsBarrier
  <2>2. Awaiting' /\ Finished'
    BY <2>1, GoesOn DEF Filling
  <2> QED BY <1>1, <2>1, <2>2
<1> QED BY <1>2, <1>3

\* The call ends without having done what it was to do.
LEMMA EndStep ==
  ASSUME SInv, pc # "idle", UNCHANGED <<fs, data, call, before>>,
         dirs' = dirs \/ dirs' = <<Disk>>, faults' \in 0..MaxFaults,
         NEW result \in {"refused", "conflict", "failed", "killed"}, End(result),
         result = "refused" => Refuses(call, before),
         result = "conflict" => fs # "ordered"
  PROVE  SInv'
<1>1. pc' = "idle" /\ outcome' = result /\ awaited' = awaited
  BY DEF End
<1>2. pc' \in Steps \ Filling /\ outcome' \in Outcomes
  BY <1>1 DEF Steps, Filling, Outcomes
<1>3. /\ TypeOK' /\ Recorded' /\ NamesWhole' /\ StagingPrivate' /\ OneInode'
      /\ View(Disk)' = View(Disk)
  BY <1>1, <1>2, KeepsDirectory, KeepsBarrier
<1>4. View(Disk)' \in Leaves(call, before)' /\ Refuses(call, before)' = Refuses(call, before)
  BY <1>3, Leaving DEF Leaves, Refuses
<1>5. Foreseen'
  BY <1>1, <1>4 DEF Foreseen
<1> QED BY <1>1, <1>3, <1>5, AtRest DEF SInv

\* The call returns.
LEMMA ReturnStep ==
  ASSUME SInv, pc # "idle", UNCHANGED <<fs, data, call, before, faults>>, Return,
         \/ dirs' = <<Disk>>
         \/ dirs' = dirs /\ Len(dirs) = 1
         \/ dirs' = dirs /\ call.kind \in {"unlink", "discard"} /\ View(Disk) = before,
         View(Disk) = Completed(call, before)
  PROVE  SInv'
<1>1. pc' = "idle" /\ outcome' = "ok"
      /\ awaited' = IF Len(dirs') = 1 THEN Held(Disk)' ELSE awaited
  BY DEF Return
<1>2. pc' \in Steps \ Filling /\ outcome' \in Outcomes /\ faults' \in 0..MaxFaults
  BY <1>1 DEF Steps, Filling, Outcomes, SInv, TypeOK
<1>3. /\ TypeOK' /\ Recorded' /\ NamesWhole' /\ StagingPrivate' /\ OneInode'
      /\ View(Disk)' = View(Disk) /\ (dirs' = <<Disk>> => Len(dirs') = 1)
  <2>1. CASE dirs' = <<Disk>>
    BY <1>1, <1>2, <2>1, KeepsBarrier
  <2>2. CASE dirs' = dirs
    BY <1>1, <1>2, <2>2, KeepsDirectory
  <2> QED BY <2>1, <2>2
<1>4. /\ View(Disk)' \in Leaves(call, before)'
      /\ View(Disk)' = Completed(call, before)'
  BY <1>3, Leaving DEF Leaves, Completed
<1>5. Foreseen'
  BY <1>1, <1>4 DEF Foreseen
<1>6. outcome' = "ok" => \/ Len(dirs') = 1
                         \/ call.kind' \in {"unlink", "discard"} /\ View(Disk)' = before'
  BY <1>3
<1> QED BY <1>1, <1>3, <1>5, <1>6, AtRest DEF SInv

\* A staging name is given up.
LEMMA UnnameStep ==
  ASSUME SInv, pc # "idle", UNCHANGED <<fs, data, call, before, faults>>, NEW x \in Pair,
         dirs' = Append(dirs, Unnamed(Disk, x)),
         NEW next \in Steps \ ({"idle", "unlink", "create"} \cup Filling), Go(next),
         next = "clearSync" => call.kind \in Giving /\ Goal \in Values
  PROVE  /\ TypeOK' /\ Recorded' /\ NamesWhole' /\ StagingPrivate' /\ OneInode'
         /\ Awaiting' /\ Finished' /\ View(Disk)' = Unstaged(View(Disk), x) /\ pc' = next
<1> DEFINE d == Unnamed(Disk, x)
<1>1. dirs \in Seq(Dirs) /\ dirs # << >> /\ OneInode
  BY DEF SInv, Recorded
<1>2. Disk \in Past /\ Disk \in Dirs
  BY <1>1, DiskIsPast
<1>3. /\ d \in Dirs /\ d.name = Disk.name
      /\ \A e \in Pair : d.staging[e] = (IF e = x THEN None ELSE Disk.staging[e])
  BY <1>2 DEF Dirs, Names, Unnamed
<1>4. fs = "ordered" /\ d.staging[Copy] # None /\ d.name[Copy] # None
        => d.staging[Copy] = d.name[Copy]
  BY <1>1, <1>2, <1>3 DEF OneInode, Pair, Copy
<1>5. outcome' \in Outcomes /\ pc' = next /\ awaited' = awaited /\ faults' \in 0..MaxFaults
  BY DEF Go, SInv, TypeOK, Finished, Outcomes
<1>6. Awaiting' /\ Finished'
  BY GoesOn DEF Filling
<1>7. dirs' = Append(dirs, d)
  OBVIOUS
<1>8. Disk' = d
  BY <1>1, <1>3, <1>7, Appended
<1>9. View(Disk)' = Unstaged(View(Disk), x)
  BY <1>2, <1>8, UnstagedView
<1> HIDE DEF d
<1>10. TypeOK' /\ Recorded' /\ NamesWhole' /\ StagingPrivate' /\ OneInode'
  BY <1>3, <1>4, <1>5, <1>7, KeepsChange
<1> QED BY <1>5, <1>6, <1>9, <1>10

(* ------------------------------ the steps ------------------------------ *)

\* The system call Clean keeps the invariant of the store.
LEMMA CleanStep ==
  ASSUME SInv, Clean
  PROVE  SInv'
<1>1. /\ pc = "clean" /\ call.kind \in {"restore", "unlink"} /\ View(Disk) = before
      /\ before \in ViewType /\ call.entry \in Pair /\ Copy \in Pair
      /\ call.kind = "restore" => call.entry = "config"
  <2>1. pc = "clean"
    BY DEF Clean, Change
  <2>2. call.kind \in {"restore", "unlink"}
    BY <2>1, Reached
  <2>3. View(Disk) = before
    BY <2>1, <2>2 DEF SInv, Progress, RestoreProgress, UnlinkProgress
  <2> QED BY <2>1, <2>2, <2>3, CallForms DEF SInv, TypeOK, Recorded, Pair, Copy
<1>2. CASE ~Abandoned /\ Pass(Go(AfterClean))
  <2>1. /\ UNCHANGED <<fs, dirs, data, call, before, faults>> /\ Go(AfterClean)
        /\ AfterClean \in {"read", "unlink"}
        /\ AfterClean = "unlink" <=> call.kind # "restore"
    BY <1>2 DEF Pass, AfterClean
  <2>2. /\ TypeOK' /\ Recorded' /\ NamesWhole' /\ StagingPrivate' /\ OneInode'
        /\ Awaiting' /\ Finished' /\ View(Disk)' = before /\ pc' = AfterClean
    BY <1>1, <2>1, GoStep DEF Steps, Filling
  <2>3. ASSUME call.kind = "restore" \/ call.entry = Copy
        PROVE  Unstaged(before, Copy) = before
    <3>1. Copy \notin View(Disk).staging
      BY <1>2, <2>3 DEF Abandoned, View, Copy
    <3> QED BY <1>1, <3>1, Algebra
  <2>4. call.kind = "restore" => Bare = before
    BY <2>3 DEF Bare
  <2>5. Cleaned(before, call.entry) = before \/ call.kind = "restore"
    BY <1>1, <2>3, RemovedForm DEF Pair, Copy
  <2>6. call.kind = "restore" => RestoreProgress'
    BY <2>1, <2>2, <2>4 DEF RestoreProgress, Filling, Bare
  <2>7. call.kind = "unlink" => UnlinkProgress'
    BY <2>1, <2>2, <2>5 DEF UnlinkProgress
  <2>8. Progress'
    BY <1>1, <2>1, <2>2, <2>6, <2>7 DEF Progress
  <2> QED BY <2>2, <2>8 DEF SInv
<1>3. CASE Conflict /\ Pass(End("conflict"))
  <2>1. fs # "ordered"
    <3>1. Disk \in Past
      BY DiskIsPast DEF SInv, Recorded
    <3> QED BY <1>3, <3>1 DEF Conflict, SInv, OneInode, Copy
  <2> QED BY <1>1, <1>3, <2>1, EndStep DEF Pass, SInv, TypeOK
<1>4. CASE Abandoned /\ Change("clean", Unnamed(Disk, Copy), "cleanSync") /\ UNCHANGED data
  <2>1. CASE Fail
    BY <1>1, <1>4, <2>1, FailStep DEF Change
  <2>2. CASE dirs' = Append(dirs, Unnamed(Disk, Copy)) /\ Go("cleanSync") /\ UNCHANGED faults
    <3>1. UNCHANGED <<fs, data, call, before, faults>>
      BY <1>4, <2>2 DEF Change
    <3>2. /\ TypeOK' /\ Recorded' /\ NamesWhole' /\ StagingPrivate' /\ OneInode'
          /\ Awaiting' /\ Finished' /\ View(Disk)' = Unstaged(before, Copy) /\ pc' = "cleanSync"
      BY <1>1, <2>2, <3>1, UnnameStep DEF Steps, Filling
    <3>3. call.kind = "restore" => RestoreProgress'
      BY <3>1, <3>2 DEF RestoreProgress, Filling, Bare
    <3>4. call.kind = "unlink" => Cleaned(before, call.entry) = Unstaged(before, Copy)
      BY <1>1, <1>4, RemovedForm DEF Abandoned, Copy
    <3>5. call.kind = "unlink" => UnlinkProgress'
      BY <3>1, <3>2, <3>4 DEF UnlinkProgress
    <3>6. Progress'
      BY <1>1, <3>1, <3>2, <3>3, <3>5 DEF Progress
    <3> QED BY <3>2, <3>6 DEF SInv
  <2> QED BY <1>4, <2>1, <2>2 DEF Change
<1> QED BY <1>2, <1>3, <1>4 DEF Clean, Copy

\* The system call CleanSync keeps the invariant of the store.
LEMMA CleanSyncStep ==
  ASSUME SInv, CleanSync
  PROVE  SInv'
<1>1. /\ pc = "cleanSync" /\ call.kind \in {"restore", "unlink"}
      /\ UNCHANGED <<fs, data, call, before>>
  BY Reached DEF CleanSync, Barrier
<1>2. CASE Fail
  BY <1>1, <1>2, FailStep
<1>3. CASE dirs' = <<Disk>> /\ Go(AfterClean) /\ UNCHANGED faults
  <2>1. AfterClean \in {"read", "unlink"} /\ (AfterClean = "unlink" <=> call.kind # "restore")
    BY DEF AfterClean
  <2>2. /\ TypeOK' /\ Recorded' /\ NamesWhole' /\ StagingPrivate' /\ OneInode'
        /\ Awaiting' /\ Finished' /\ View(Disk)' = View(Disk) /\ pc' = AfterClean
    BY <1>1, <1>3, <2>1, GoStep DEF Steps, Filling
  <2>3. /\ call.kind = "restore" => View(Disk) = Bare
        /\ call.kind = "unlink" => View(Disk) = Cleaned(before, call.entry)
    BY <1>1 DEF SInv, Progress, RestoreProgress, UnlinkProgress
  <2>4. call.kind = "restore" => RestoreProgress'
    BY <1>1, <2>1, <2>2, <2>3 DEF RestoreProgress, Filling, Bare
  <2>5. call.kind = "unlink" => UnlinkProgress'
    BY <1>1, <2>1, <2>2, <2>3 DEF UnlinkProgress
  <2>6. Progress'
    BY <1>1, <2>1, <2>2, <2>4, <2>5 DEF Progress
  <2> QED BY <2>2, <2>6 DEF SInv
<1> QED BY <1>2, <1>3 DEF CleanSync, Barrier

\* The names of the file and its snapshot, and what is read of them.
LEMMA NamesSeen ==
  ASSUME SInv
  PROVE  /\ View(Disk) \in ViewType
         /\ \A e \in Pair : /\ View(Disk)[e] = Read(Disk.name[e])
                            /\ View(Disk)[e] = None <=> Disk.name[e] = None
                            /\ e \in View(Disk).staging <=> Disk.staging[e] # None
<1>1. Disk \in Past /\ TypeOK /\ Recorded /\ NamesWhole
  BY DiskIsPast DEF SInv, Recorded
<1>2. \A e \in Pair : View(Disk)[e] = Read(Disk.name[e])
  BY DEF View, Pair
<1>3. \A e \in Pair : e \in View(Disk).staging <=> Disk.staging[e] # None
  BY DEF View
<1>4. \A e \in Pair : Read(Disk.name[e]) = None <=> Disk.name[e] = None
  BY <1>1, NamedReads
<1> QED BY <1>1, <1>2, <1>3, <1>4, ViewTypes

\* The system call ReadSnapshot keeps the invariant of the store.
LEMMA ReadSnapshotStep ==
  ASSUME SInv, ReadSnapshot
  PROVE  SInv'
<1>1. /\ pc = "read" /\ call.kind = "restore" /\ UNCHANGED <<fs, dirs, data, call, before, faults>>
      /\ faults \in 0..MaxFaults
  BY Reached DEF ReadSnapshot, Pass, SInv, TypeOK
<1>2. View(Disk) = Bare /\ before \in ViewType
  BY <1>1 DEF SInv, Progress, RestoreProgress, Recorded
<1>3. View(Disk).configPrevious = before.configPrevious
  BY <1>2, Algebra DEF Bare
<1>4. View(Disk).configPrevious = None <=> Disk.name["configPrevious"] = None
  BY NamesSeen DEF Pair
<1>5. CASE Disk.name["configPrevious"] = None
  <2>1. End("refused")
    BY <1>5 DEF ReadSnapshot, Pass
  <2>2. Refuses(call, before)
    BY <1>1, <1>3, <1>4, <1>5 DEF Refuses
  <2> QED BY <1>1, <2>1, <2>2, EndStep
<1>6. CASE Disk.name["configPrevious"] # None
  <2>1. Go("create")
    BY <1>6 DEF ReadSnapshot, Pass
  <2>2. call.kind \in Giving /\ Goal \in Values
    BY <1>1, <1>2, <1>3, <1>4, <1>6 DEF Giving, Goal, ViewType
  <2>3. /\ TypeOK' /\ Recorded' /\ NamesWhole' /\ StagingPrivate' /\ OneInode'
        /\ Awaiting' /\ Finished' /\ View(Disk)' = View(Disk) /\ pc' = "create"
    BY <1>1, <2>1, <2>2, GoStep DEF Steps, Filling
  <2>4. RestoreProgress'
    BY <1>1, <1>2, <2>3 DEF RestoreProgress, Filling, Bare
  <2>5. Progress'
    BY <1>1, <2>3, <2>4 DEF Progress
  <2> QED BY <2>3, <2>5 DEF SInv
<1> QED BY <1>5, <1>6

\* The system call Clear keeps the invariant of the store.
LEMMA ClearStep ==
  ASSUME SInv, Clear
  PROVE  SInv'
<1> DEFINE refused == Disk.name["configPrevious"] # None \/ Disk.name["config"] = None
           stale == Disk.staging["configPrevious"] # None
<1>1. /\ pc = "clear" /\ call.kind = "snapshot"
      /\ UNCHANGED <<fs, data, call, before>> /\ faults \in 0..MaxFaults
  BY Reached DEF Clear, Pass, Change, SInv, TypeOK
<1>2. View(Disk) = before /\ before \in ViewType
  BY <1>1 DEF SInv, Progress, SnapshotProgress, Recorded
<1>3. /\ before.configPrevious = None <=> Disk.name["configPrevious"] = None
      /\ before.config = None <=> Disk.name["config"] = None
      /\ Copy \in before.staging <=> stale
  BY <1>2, NamesSeen DEF Pair, Copy
<1>4. ASSUME ~refused
      PROVE  call.kind \in Giving /\ Goal \in Values /\ before.configPrevious = None
  BY <1>1, <1>2, <1>3, <1>4 DEF Giving, Goal, ViewType
<1>5. CASE refused /\ Pass(End("refused"))
  <2>1. Refuses(call, before)
    BY <1>1, <1>3, <1>5 DEF Refuses
  <2> QED BY <1>1, <1>5, <2>1, EndStep DEF Pass
<1>6. CASE ~refused /\ ~stale /\ Pass(Go("create"))
  <2>1. /\ TypeOK' /\ Recorded' /\ NamesWhole' /\ StagingPrivate' /\ OneInode'
        /\ Awaiting' /\ Finished' /\ View(Disk)' = before /\ pc' = "create"
    BY <1>1, <1>2, <1>4, <1>6, GoStep DEF Steps, Filling, Pass
  <2>2. Bare = before
    BY <1>2, <1>3, <1>6, Algebra DEF Bare
  <2>3. SnapshotProgress'
    BY <1>1, <1>4, <1>6, <2>1, <2>2 DEF SnapshotProgress, Filling, Bare
  <2>4. Progress'
    BY <1>1, <2>1, <2>3 DEF Progress
  <2> QED BY <2>1, <2>4 DEF SInv
<1>7. CASE ~refused /\ Change("clear", Unnamed(Disk, Copy), "clearSync") /\ UNCHANGED data
  <2>1. CASE Fail
    BY <1>1, <2>1, FailStep
  <2>2. CASE dirs' = Append(dirs, Unnamed(Disk, Copy)) /\ Go("clearSync") /\ UNCHANGED faults
    <3>1. /\ TypeOK' /\ Recorded' /\ NamesWhole' /\ StagingPrivate' /\ OneInode'
          /\ Awaiting' /\ Finished' /\ View(Disk)' = Unstaged(before, Copy) /\ pc' = "clearSync"
      BY <1>1, <1>2, <1>4, <1>7, <2>2, UnnameStep DEF Steps, Filling, Pair, Copy
    <3>2. SnapshotProgress'
      BY <1>1, <1>4, <1>7, <3>1 DEF SnapshotProgress, Filling, Bare
    <3>3. Progress'
      BY <1>1, <3>1, <3>2 DEF Progress
    <3> QED BY <3>1, <3>3 DEF SInv
  <2> QED BY <1>7, <2>1, <2>2 DEF Change
<1> HIDE DEF refused, stale
<1>8. \/ refused /\ Pass(End("refused"))
      \/ ~refused /\ ~stale /\ Pass(Go("create"))
      \/ ~refused /\ Change("clear", Unnamed(Disk, Copy), "clearSync") /\ UNCHANGED data
  BY DEF Clear, Copy, refused, stale
<1> QED BY <1>5, <1>6, <1>7, <1>8

\* The system call ClearSync keeps the invariant of the store.
LEMMA ClearSyncStep ==
  ASSUME SInv, ClearSync
  PROVE  SInv'
<1>1. /\ pc = "clearSync" /\ call.kind = "snapshot"
      /\ UNCHANGED <<fs, data, call, before>>
  BY Reached DEF ClearSync, Barrier
<1>2. CASE Fail
  BY <1>1, <1>2, FailStep
<1>3. CASE dirs' = <<Disk>> /\ Go("create") /\ UNCHANGED faults
  <2>1. View(Disk) = Bare /\ before.configPrevious = None
        /\ call.kind \in Giving /\ Goal \in Values
    BY <1>1 DEF SInv, Progress, SnapshotProgress, Awaiting
  <2>2. /\ TypeOK' /\ Recorded' /\ NamesWhole' /\ StagingPrivate' /\ OneInode'
        /\ Awaiting' /\ Finished' /\ View(Disk)' = View(Disk) /\ pc' = "create"
    BY <1>1, <1>3, <2>1, GoStep DEF Steps, Filling
  <2>3. SnapshotProgress'
    BY <1>1, <2>1, <2>2 DEF SnapshotProgress, Filling, Bare
  <2>4. Progress'
    BY <1>1, <2>2, <2>3 DEF Progress
  <2> QED BY <2>2, <2>4 DEF SInv
<1> QED BY <1>2, <1>3 DEF ClearSync, Barrier

\* The inodes whose data a step leaves read as before.
LEMMA ReadsAlike ==
  ASSUME NEW i, i # None => data'[i] = data[i]
  PROVE  Read(i)' = Read(i) /\ Durable(i)' = Durable(i)
  BY DEF Read, Durable

\* The system call Create keeps the invariant of the store.
LEMMA CreateStep ==
  ASSUME SInv, Create
  PROVE  SInv'
<1> DEFINE entry == call.entry
           i == CHOOSE j \in Free : TRUE
           d == [Disk EXCEPT !.staging[entry] = i]
<1>1. /\ pc = "create" /\ call.kind \in Giving /\ UNCHANGED <<fs, call, before>>
      /\ entry \in Pair /\ faults \in 0..MaxFaults
      /\ call.kind \in {"write", "restore"} => entry = "config"
      /\ call.kind = "snapshot" => entry = Copy
  <2>1. pc = "create" /\ UNCHANGED <<fs, call, before>>
    BY DEF Create, Pass, Change
  <2>2. call.kind \in Giving
    BY <2>1, Reached
  <2> QED BY <2>1, <2>2, CallForms DEF SInv, TypeOK
<1>2. /\ TypeOK /\ Recorded /\ NamesWhole /\ OneInode
      /\ Disk \in Past /\ Disk \in Dirs /\ before \in ViewType
  BY DiskIsPast DEF SInv, Recorded
<1>3. /\ call.kind = "write" => View(Disk) = before
      /\ call.kind = "restore" => View(Disk) = Bare
      /\ call.kind = "snapshot" => View(Disk) = Bare /\ before.configPrevious = None
  BY <1>1 DEF SInv, Progress, WriteProgress, RestoreProgress, SnapshotProgress
<1>4. /\ Bare.staging = before.staging \ {Copy}
      /\ Bare.configPrevious = before.configPrevious
  BY <1>2, Algebra DEF Bare
<1>5. \A e \in Pair : e \in View(Disk).staging <=> Disk.staging[e] # None
  BY NamesSeen
<1>6. CASE Disk.staging[entry] # None /\ Pass(End("refused"))
  <2>1. entry \in View(Disk).staging
    BY <1>1, <1>5, <1>6
  <2>2. Refuses(call, before)
    BY <1>1, <1>3, <1>4, <2>1 DEF Refuses, Giving
  <2> QED BY <1>1, <1>6, <2>2, EndStep DEF Pass
<1>7. CASE Fail /\ UNCHANGED data
  BY <1>1, <1>7, FailStep
<1>8. CASE /\ Disk.staging[entry] = None /\ Free # {} /\ UNCHANGED faults
           /\ dirs' = Append(dirs, d) /\ Go("fill")
           /\ data' = [data EXCEPT ![i] = [value |-> Torn, durable |-> FALSE]]
  <2>1. i \in Free
    BY <1>8
  <2>2. i \in Inodes /\ \A p \in Past, e \in Pair : p.name[e] # i /\ p.staging[e] # i
    BY <2>1 DEF Free, Past
  <2> HIDE DEF i
  <2>3. /\ d \in Dirs /\ d.name = Disk.name
        /\ \A e \in Pair : d.staging[e] = (IF e = entry THEN i ELSE Disk.staging[e])
    BY <1>1, <1>2, <2>2 DEF Dirs, Names
  <2>4. /\ dirs' \in Seq(Dirs) /\ dirs' # << >> /\ Disk' = d /\ Past' = Past \cup {d}
    BY <1>2, <1>8, <2>3, Appended DEF Recorded
  <2>5. \A p \in Past', e \in Pair : p.name[e] # i
    BY ZenonT(60), <1>2, <2>2, <2>3, <2>4
  <2>6. \A j : j # i => data'[j] = data[j]
    BY <1>8
  <2>7. data' \in [Inodes -> [value : Values \cup {Torn}, durable : BOOLEAN]]
    BY <1>2, <1>8, <2>2 DEF TypeOK
  <2>8. View(Disk)' = Staged(View(Disk), entry)
    <3>1. \A e \in Pair : Disk.name[e] # None => data'[Disk.name[e]] = data[Disk.name[e]]
      BY <1>2, <2>2, <2>6
    <3> QED BY <1>1, <1>2, <2>2, <2>4, <3>1, StagedView
  <2>9. Goal \in Values
    BY <1>1 DEF SInv, Awaiting
  <2>10. Awaiting' /\ Finished' /\ pc' = "fill" /\ outcome' \in Outcomes /\ awaited' = awaited
    BY <1>1, <1>8, <2>9, GoesOn DEF Steps, Filling
  <2>11. \A k \in 1..Len(dirs') : dirs'[k] \in Dirs
    BY <2>4
  <2>12. TypeOK'
    BY <1>1, <1>2, <1>8, <2>7, <2>10, <2>11 DEF TypeOK, Outcomes, Steps
  <2>13. Recorded'
    BY <1>1, <1>2, <2>4 DEF Recorded
  <2>14. NamesWhole'
    <3> SUFFICES ASSUME NEW p \in Past', NEW e \in Pair
                 PROVE  /\ Durable(p.name[e])' \in awaited[e]
                        /\ p.name[e] # None => data'[p.name[e]].durable
      BY <2>10 DEF NamesWhole
    <3> PICK q \in Past : p.name = q.name
      BY <1>2, <2>3, <2>4
    <3>1. /\ Durable(q.name[e]) \in awaited[e]
          /\ q.name[e] # None => data[q.name[e]].durable
      BY <1>2 DEF NamesWhole
    <3>2. data'[p.name[e]] = data[p.name[e]]
      BY <2>5, <2>6
    <3> QED BY <3>1, <3>2, ReadsAlike
  <2>15. StagingPrivate'
    <3>1. Disk'.staging[call'.entry] = i
      BY <1>1, <2>3, <2>4
    <3> QED BY <1>1, <2>2, <2>5, <2>10, <3>1 DEF StagingPrivate
  <2>16. OneInode'
    <3>1. entry = Copy => Disk.name[Copy] = None
      <4>1. entry = Copy => View(Disk)[Copy] = None
        BY <1>1, <1>3, <1>4 DEF Giving, Copy
      <4> QED BY <4>1, NamesSeen DEF Pair, Copy
    <3>2. fs = "ordered" /\ d.staging[Copy] # None /\ d.name[Copy] # None
            => d.staging[Copy] = d.name[Copy]
      BY <1>2, <2>3, <3>1 DEF OneInode, Pair, Copy
    <3> QED BY <1>1, <1>2, <2>4, <3>2 DEF OneInode
  <2>17. entry \notin View(Disk).staging
    BY <1>1, <1>5, <1>8
  <2>18. call.kind = "write" => WriteProgress'
    BY <1>1, <1>3, <2>8, <2>10, <2>17 DEF WriteProgress, Filling
  <2>19. call.kind = "restore" => RestoreProgress'
    <3>1. call.kind = "restore" => "config" \notin before.staging
      BY <1>1, <1>3, <1>4, <2>17 DEF Copy
    <3> QED BY <1>1, <1>3, <2>8, <2>10, <3>1 DEF RestoreProgress, Filling, Bare
  <2>20. call.kind = "snapshot" => SnapshotProgress'
    <3>1. call.kind = "snapshot" => View(Disk)' = Staged(before, Copy)
      BY <1>1, <1>2, <1>3, <2>8, Algebra DEF Bare
    <3> QED BY <1>1, <1>3, <2>10, <3>1 DEF SnapshotProgress, Filling
  <2>21. Progress'
    BY <1>1, <2>10, <2>18, <2>19, <2>20 DEF Progress, Giving
  <2> QED BY <2>10, <2>12, <2>13, <2>14, <2>15, <2>16, <2>21 DEF SInv
<1> HIDE DEF i
<1>9. \/ Disk.staging[entry] # None /\ Pass(End("refused"))
      \/ /\ Disk.staging[entry] = None /\ Free # {}
         /\ Change("create", d, "fill")
         /\ data' = IF pc' = "fill" THEN [data EXCEPT ![i] = [value |-> Torn, durable |-> FALSE]]
                                    ELSE data
  BY DEF Create, i
<1>10. Go("fill") => pc' = "fill"
  BY DEF Go
<1>11. Fail => pc' # "fill"
  BY DEF Fail, Raise, Go, End
<1> HIDE DEF d
<1> QED BY <1>6, <1>7, <1>8, <1>9, <1>10, <1>11 DEF Change

\* The inode under the staging name is given data that no image names.
LEMMA FillsPrivate ==
  ASSUME SInv, pc \in Filling, UNCHANGED <<fs, dirs, call, before, faults>>,
         NEW v \in [value : Values \cup {Torn}, durable : BOOLEAN], v.value = Goal,
         data' = [data EXCEPT ![Disk.staging[call.entry]] = v],
         NEW next \in {"syncData", "publish"}, Go(next), next = "publish" => v.durable
  PROVE  SInv'
<1> DEFINE i == Disk.staging[call.entry]
<1>1. /\ TypeOK /\ Recorded /\ NamesWhole /\ OneInode /\ StagingPrivate
      /\ Disk \in Past /\ call.kind \in Giving
  BY DiskIsPast, Reached DEF SInv, Recorded
<1>2. i \in Inodes /\ \A p \in Past, e \in Pair : p.name[e] # i
  BY <1>1 DEF StagingPrivate
<1>3. Disk' = Disk /\ Past' = Past /\ i' = i
  BY DEF Disk, Past
<1>4. data' \in [Inodes -> [value : Values \cup {Torn}, durable : BOOLEAN]] /\ data'[i] = v
  BY <1>1, <1>2 DEF TypeOK
<1>5. \A j : j # i => data'[j] = data[j]
  OBVIOUS
<1> HIDE DEF i
<1>6. Goal \in Values
  BY DEF SInv, Awaiting
<1>7. Awaiting' /\ Finished' /\ pc' = next /\ outcome' \in Outcomes /\ awaited' = awaited
  BY <1>1, <1>6, GoesOn DEF Steps, Filling
<1>8. TypeOK'
  BY <1>1, <1>4, <1>7 DEF TypeOK, Outcomes, Steps
<1>9. Recorded'
  BY <1>1 DEF Recorded
<1>10. NamesWhole'
  <2> SUFFICES ASSUME NEW p \in Past', NEW e \in Pair
               PROVE  /\ Durable(p.name[e])' \in awaited[e]
                      /\ p.name[e] # None => data'[p.name[e]].durable
    BY <1>7 DEF NamesWhole
  <2>1. /\ Durable(p.name[e]) \in awaited[e]
        /\ p.name[e] # None => data[p.name[e]].durable
    BY <1>1, <1>3 DEF NamesWhole
  <2>2. data'[p.name[e]] = data[p.name[e]]
    BY <1>2, <1>3, <1>5
  <2> QED BY <2>1, <2>2, ReadsAlike
<1>11. StagingPrivate'
  <2>1. Goal' = Goal /\ Disk'.staging[call'.entry] = i
    BY <1>3 DEF Goal, i
  <2> QED BY <1>2, <1>3, <1>4, <1>7, <2>1 DEF StagingPrivate
<1>12. OneInode'
  BY <1>1, <1>3 DEF OneInode
<1>13. View(Disk)' = View(Disk)
  BY <1>1, <1>2, <1>3, <1>5, SameView
<1>14. Progress
  BY DEF SInv
<1>15. call.kind = "write" => WriteProgress'
  BY <1>7, <1>13, <1>14 DEF Progress, WriteProgress, Filling
<1>16. call.kind = "restore" => RestoreProgress'
  BY <1>7, <1>13, <1>14 DEF Progress, RestoreProgress, Filling, Bare
<1>17. call.kind = "snapshot" => SnapshotProgress'
  BY <1>7, <1>13, <1>14 DEF Progress, SnapshotProgress, Filling, Bare, Copied
<1>18. Progress'
  BY <1>1, <1>7, <1>15, <1>16, <1>17 DEF Progress, Giving
<1> QED BY <1>7, <1>8, <1>9, <1>10, <1>11, <1>12, <1>18 DEF SInv

\* The system call Fill keeps the invariant of the store.
LEMMA FillStep ==
  ASSUME SInv, Fill
  PROVE  SInv'
<1>1. pc = "fill" /\ call.kind \in Giving /\ UNCHANGED <<fs, call, before>>
      /\ before \in ViewType
  BY Reached DEF Fill, SInv, Recorded, Filling
<1>2. CASE Fail /\ UNCHANGED data
  BY <1>1, <1>2, FailStep
<1>3. CASE /\ data' = [data EXCEPT ![Disk.staging[call.entry]].value = Payload]
           /\ Go("syncData") /\ UNCHANGED <<dirs, faults>>
  <2> DEFINE i == Disk.staging[call.entry]
             v == [data[i] EXCEPT !.value = Payload]
  <2>1. /\ call.kind = "restore" => View(Disk) = Staged(Bare, "config")
        /\ call.kind = "snapshot" => View(Disk) = Staged(before, Copy)
    BY <1>1 DEF SInv, Progress, RestoreProgress, SnapshotProgress, Filling
  <2>2. /\ Bare \in ViewType /\ Bare.configPrevious = before.configPrevious
        /\ Staged(Bare, "config").configPrevious = before.configPrevious
        /\ Staged(before, Copy).config = before.config
    BY <1>1, Algebra DEF Bare
  <2>3. /\ Read(Disk.name["configPrevious"]) = View(Disk).configPrevious
        /\ Read(Disk.name["config"]) = View(Disk).config
    BY NamesSeen DEF Pair
  <2>4. Payload = Goal
    BY <1>1, <2>1, <2>2, <2>3 DEF Payload, Goal, Giving
  <2>5. Goal \in Values /\ i \in Inodes
    BY <1>1 DEF SInv, Awaiting, StagingPrivate, Filling
  <2>6. /\ data[i] \in [value : Values \cup {Torn}, durable : BOOLEAN]
    BY <2>5 DEF SInv, TypeOK
  <2>7. v \in [value : Values \cup {Torn}, durable : BOOLEAN] /\ v.value = Goal
    BY <2>4, <2>5, <2>6
  <2>8. data' = [data EXCEPT ![i] = v]
    BY <1>3
  <2> HIDE DEF v
  <2> QED BY <1>1, <1>3, <2>7, <2>8, FillsPrivate DEF Filling
<1> QED BY <1>2, <1>3 DEF Fill

\* The system call SyncData keeps the invariant of the store.
LEMMA SyncDataStep ==
  ASSUME SInv, SyncData
  PROVE  SInv'
<1>1. pc = "syncData" /\ UNCHANGED <<fs, call, before>>
  BY DEF SyncData
<1>2. CASE Fail /\ UNCHANGED data
  BY <1>1, <1>2, FailStep
<1>3. CASE /\ data' = [data EXCEPT ![Disk.staging[call.entry]].durable = TRUE]
           /\ Go("publish") /\ UNCHANGED <<dirs, faults>>
  <2> DEFINE i == Disk.staging[call.entry]
             v == [data[i] EXCEPT !.durable = TRUE]
  <2>1. i \in Inodes /\ data[i].value = Goal
    BY <1>1 DEF SInv, StagingPrivate, Filling
  <2>2. data[i] \in [value : Values \cup {Torn}, durable : BOOLEAN]
    BY <2>1 DEF SInv, TypeOK
  <2>3. /\ v \in [value : Values \cup {Torn}, durable : BOOLEAN]
        /\ v.value = Goal /\ v.durable
    BY <2>1, <2>2
  <2>4. data' = [data EXCEPT ![i] = v]
    BY <1>3
  <2> HIDE DEF v
  <2> QED BY <1>1, <1>3, <2>3, <2>4, FillsPrivate DEF Filling
<1> QED BY <1>2, <1>3 DEF SyncData

\* The system call Publish keeps the invariant of the store.
LEMMA PublishStep ==
  ASSUME SInv, Publish
  PROVE  SInv'
<1> DEFINE entry == call.entry
           i == Disk.staging[entry]
           named == [Disk EXCEPT !.name[entry] = i]
<1>1. /\ pc = "publish" /\ call.kind \in Giving /\ UNCHANGED <<fs, data, call, before>>
      /\ entry \in Pair /\ faults \in 0..MaxFaults
      /\ call.kind \in {"write", "restore"} => entry = "config"
      /\ call.kind = "snapshot" => entry = Copy
  <2>1. pc = "publish" /\ UNCHANGED <<fs, data, call, before>>
    BY DEF Publish, Change
  <2>2. call.kind \in Giving
    BY <2>1, Reached DEF Filling
  <2> QED BY <2>1, <2>2, CallForms DEF SInv, TypeOK
<1>2. /\ TypeOK /\ Recorded /\ NamesWhole /\ OneInode
      /\ Disk \in Past /\ Disk \in Dirs /\ before \in ViewType
  BY DiskIsPast DEF SInv, Recorded
<1>3. /\ i \in Inodes /\ data[i].value = Goal /\ data[i].durable
      /\ Goal \in Values /\ Goal \in awaited[entry]
  BY <1>1 DEF SInv, StagingPrivate, Awaiting, Filling
<1>4. i # None /\ Read(i) = Goal /\ Durable(i) = Goal
  BY <1>3, StoreAssumption DEF Read, Durable
<1> HIDE DEF i
<1>5. /\ named \in Dirs /\ named.staging = Disk.staging
      /\ \A e \in Pair : named.name[e] = (IF e = entry THEN i ELSE Disk.name[e])
  BY <1>1, <1>2, <1>3 DEF Dirs, Names
<1>6. ASSUME Go("syncDir") \/ Go("syncFile"), UNCHANGED faults
      PROVE  /\ outcome' \in Outcomes /\ pc' \in Steps \ Filling /\ faults' \in 0..MaxFaults
             /\ awaited' = awaited
             /\ Go("syncDir") => pc' = "syncDir"
             /\ Go("syncFile") => pc' = "syncFile"
             /\ Awaiting' /\ Finished'
  <2>1. outcome = "none"
    BY <1>1 DEF SInv, Finished
  <2>2. Awaiting' /\ Finished'
    BY <1>1, <1>6, GoesOn DEF Filling, Steps
  <2> QED BY <1>1, <1>6, <2>1, <2>2 DEF Go, Outcomes, Steps, Filling
<1>7. CASE Fail
  BY <1>1, <1>7, FailStep
<1>8. CASE call.kind = "snapshot" /\ dirs' = Append(dirs, named) /\ Go("syncDir") /\ UNCHANGED faults
  <2>1. Disk' = named
    BY <1>2, <1>5, <1>8, Appended DEF Recorded
  <2>2. View(Disk)' = Written(View(Disk), Copy, Goal)
    BY <1>1, <1>2, <1>4, <1>8, <2>1, NamedView
  <2>3. View(Disk) = Staged(before, Copy) /\ Goal = before.config
    BY <1>1, <1>8 DEF SInv, Progress, SnapshotProgress, Filling, Goal
  <2>4. View(Disk)' = Staged(Copied, Copy)
    BY <1>2, <2>2, <2>3, Algebra DEF Copied
  <2>5. fs = "ordered" /\ named.staging[Copy] # None /\ named.name[Copy] # None
          => named.staging[Copy] = named.name[Copy]
    BY <1>1, <1>5, <1>8 DEF i
  <2> HIDE DEF named
  <2>6. TypeOK' /\ Recorded' /\ NamesWhole' /\ StagingPrivate' /\ OneInode'
    BY <1>1, <1>3, <1>4, <1>5, <1>6, <1>8, <2>5, KeepsChange
  <2>7. SnapshotProgress'
    BY <1>1, <1>6, <1>8, <2>4 DEF SnapshotProgress, Filling, Copied
  <2>8. Progress'
    BY <1>1, <1>6, <1>8, <2>7 DEF Progress
  <2> QED BY <1>6, <1>8, <2>6, <2>8 DEF SInv
<1>9. CASE /\ call.kind # "snapshot" /\ dirs' = Append(dirs, Unnamed(named, entry))
           /\ Go("syncFile") /\ UNCHANGED faults
  <2> DEFINE d == Unnamed(named, entry)
  <2>1. entry = "config" /\ call.kind \in {"write", "restore"}
    BY <1>1, <1>9 DEF Giving
  <2>2. /\ d \in Dirs
        /\ \A e \in Pair : d.name[e] = (IF e = entry THEN i ELSE Disk.name[e])
        /\ \A e \in Pair : d.staging[e] = (IF e = entry THEN None ELSE Disk.staging[e])
    <3> HIDE DEF named
    <3>1. d.name = named.name /\ d \in Dirs
          /\ \A e \in Pair : d.staging[e] = (IF e = entry THEN None ELSE named.staging[e])
      BY <1>5 DEF Dirs, Names, Unnamed
    <3> QED BY <1>5, <3>1
  <2>3. Disk' = d
    BY <1>2, <1>9, <2>2, Appended DEF Recorded
  <2>4. View(Disk)' = Unstaged(Written(View(Disk), "config", Goal), "config")
    BY <1>1, <1>2, <1>4, <2>1, <2>3, RenamedView
  <2>5. fs = "ordered" /\ d.staging[Copy] # None /\ d.name[Copy] # None
          => d.staging[Copy] = d.name[Copy]
    BY <1>2, <2>1, <2>2 DEF OneInode, Pair, Copy
  <2> HIDE DEF d
  <2>6. TypeOK' /\ Recorded' /\ NamesWhole' /\ StagingPrivate' /\ OneInode'
    <3>1. dirs' = Append(dirs, d)
      BY <1>9 DEF d
    <3> QED BY <1>1, <1>3, <1>4, <1>6, <1>9, <2>2, <2>5, <3>1, KeepsChange
  <2>7. call.kind = "write" => WriteProgress'
    <3> HAVE call.kind = "write"
    <3>1. View(Disk) = Staged(before, "config") /\ "config" \notin before.staging
          /\ Goal = call.value
      BY <1>1 DEF SInv, Progress, WriteProgress, Filling, Goal
    <3>2. View(Disk)' = Written(before, "config", call.value)
      BY <1>2, <2>4, <3>1, Algebra
    <3> QED BY <1>1, <1>6, <1>9, <3>2 DEF WriteProgress, Filling
  <2>8. call.kind = "restore" => RestoreProgress'
    <3> HAVE call.kind = "restore"
    <3>1. View(Disk) = Staged(Bare, "config") /\ "config" \notin before.staging
          /\ Goal = before.configPrevious
      BY <1>1 DEF SInv, Progress, RestoreProgress, Filling, Goal
    <3>2. Bare \in ViewType /\ "config" \notin Bare.staging
      BY <1>2, <3>1, Algebra DEF Bare
    <3>3. View(Disk)' = Written(Bare, "config", before.configPrevious)
      BY <2>4, <3>1, <3>2, Algebra
    <3> QED BY <1>1, <1>6, <1>9, <3>3 DEF RestoreProgress, Filling, Bare
  <2>9. Progress'
    BY <1>1, <1>6, <1>9, <2>1, <2>7, <2>8 DEF Progress
  <2> QED BY <1>6, <1>9, <2>6, <2>9 DEF SInv
<1>10. \/ Fail
       \/ call.kind = "snapshot" /\ dirs' = Append(dirs, named) /\ Go("syncDir") /\ UNCHANGED faults
       \/ /\ call.kind # "snapshot" /\ dirs' = Append(dirs, Unnamed(named, entry))
          /\ Go("syncFile") /\ UNCHANGED faults
  BY DEF Publish, Change, i
<1> QED BY <1>7, <1>8, <1>9, <1>10

\* The system call SyncFile keeps the invariant of the store.
LEMMA SyncFileStep ==
  ASSUME SInv, SyncFile
  PROVE  SInv'
<1>1. /\ pc = "syncFile" /\ call.kind \in {"write", "restore"}
      /\ UNCHANGED <<fs, data, call, before>>
  BY Reached DEF SyncFile
<1>2. CASE Fail
  BY <1>1, <1>2, FailStep
<1>3. CASE Go("syncDir") /\ UNCHANGED <<dirs, faults>>
  <2>1. /\ TypeOK' /\ Recorded' /\ NamesWhole' /\ StagingPrivate' /\ OneInode'
        /\ Awaiting' /\ Finished' /\ View(Disk)' = View(Disk) /\ pc' = "syncDir"
    BY <1>1, <1>3, GoStep DEF Steps, Filling
  <2>2. call.kind = "write" => WriteProgress'
    BY <1>1, <2>1 DEF SInv, Progress, WriteProgress, Filling
  <2>3. call.kind = "restore" => RestoreProgress'
    BY <1>1, <2>1 DEF SInv, Progress, RestoreProgress, Filling, Bare
  <2>4. Progress'
    BY <1>1, <2>1, <2>2, <2>3 DEF Progress
  <2> QED BY <2>1, <2>4 DEF SInv
<1> QED BY <1>2, <1>3 DEF SyncFile

\* The system call SyncDir keeps the invariant of the store.
LEMMA SyncDirStep ==
  ASSUME SInv, SyncDir
  PROVE  SInv'
<1>1. pc = "syncDir" /\ call.kind \in Giving /\ UNCHANGED <<fs, data, call, before>>
  BY Reached DEF SyncDir, Barrier
<1>2. CASE Fail
  BY <1>1, <1>2, FailStep
<1>3. CASE call.kind = "snapshot" /\ dirs' = <<Disk>> /\ Go("drop") /\ UNCHANGED faults
  <2>1. /\ TypeOK' /\ Recorded' /\ NamesWhole' /\ StagingPrivate' /\ OneInode'
        /\ Awaiting' /\ Finished' /\ View(Disk)' = View(Disk) /\ pc' = "drop"
    BY <1>1, <1>3, GoStep DEF Steps, Filling
  <2>2. SnapshotProgress'
    BY <1>1, <1>3, <2>1 DEF SInv, Progress, SnapshotProgress, Filling, Copied
  <2>3. Progress'
    BY <1>1, <1>3, <2>1, <2>2 DEF Progress
  <2> QED BY <2>1, <2>3 DEF SInv
<1>4. CASE call.kind # "snapshot" /\ dirs' = <<Disk>> /\ Return /\ UNCHANGED faults
  <2>1. call.kind \in {"write", "restore"} /\ call.entry = "config"
    BY <1>1, <1>4, CallForms DEF Giving, SInv, TypeOK
  <2>2. /\ call.kind = "write" => View(Disk) = Written(before, "config", call.value)
        /\ call.kind = "restore" => View(Disk) = Written(Bare, "config", before.configPrevious)
    BY <1>1 DEF SInv, Progress, WriteProgress, RestoreProgress
  <2>3. View(Disk) = Completed(call, before)
    BY <2>1, <2>2 DEF Completed, Restored, Bare, Copy
  <2> QED BY <1>1, <1>4, <2>3, ReturnStep
<1> QED BY <1>2, <1>3, <1>4 DEF SyncDir, Barrier

\* The system call Drop keeps the invariant of the store.
LEMMA DropStep ==
  ASSUME SInv, Drop
  PROVE  SInv'
<1>1. /\ pc = "drop" /\ call.kind = "snapshot" /\ UNCHANGED <<fs, data, call, before>>
      /\ before \in ViewType
  BY Reached DEF Drop, Change, SInv, Recorded
<1>2. CASE Fail
  BY <1>1, <1>2, FailStep
<1>3. CASE dirs' = Append(dirs, Unnamed(Disk, Copy)) /\ Go("dropSync") /\ UNCHANGED faults
  <2>1. /\ TypeOK' /\ Recorded' /\ NamesWhole' /\ StagingPrivate' /\ OneInode'
        /\ Awaiting' /\ Finished' /\ View(Disk)' = Unstaged(View(Disk), Copy) /\ pc' = "dropSync"
    BY <1>1, <1>3, UnnameStep DEF Steps, Filling, Pair, Copy
  <2>2. View(Disk) = Staged(Copied, Copy)
    BY <1>1 DEF SInv, Progress, SnapshotProgress
  <2>3. View(Disk)' = Copied
    BY <1>1, <2>1, <2>2, Algebra DEF Copied
  <2>4. SnapshotProgress'
    BY <1>1, <2>1, <2>3 DEF SnapshotProgress, Filling, Copied
  <2>5. Progress'
    BY <1>1, <2>1, <2>4 DEF Progress
  <2> QED BY <2>1, <2>5 DEF SInv
<1> QED BY <1>2, <1>3 DEF Drop, Change, Copy

\* The system call DropSync keeps the invariant of the store.
LEMMA DropSyncStep ==
  ASSUME SInv, DropSync
  PROVE  SInv'
<1>1. /\ pc = "dropSync" /\ call.kind = "snapshot" /\ call.entry = Copy
      /\ UNCHANGED <<fs, data, call, before>>
  BY Reached, CallForms DEF DropSync, Barrier, SInv, TypeOK
<1>2. CASE Fail
  BY <1>1, <1>2, FailStep
<1>3. CASE dirs' = <<Disk>> /\ Return /\ UNCHANGED faults
  <2>1. View(Disk) = Completed(call, before)
    BY <1>1 DEF SInv, Progress, SnapshotProgress, Completed, Copied
  <2> QED BY <1>1, <1>3, <2>1, ReturnStep
<1> QED BY <1>2, <1>3 DEF DropSync, Barrier

\* The system call Undo keeps the invariant of the store.
LEMMA UndoStep ==
  ASSUME SInv, Undo
  PROVE  SInv'
<1> DEFINE entry == call.entry
<1>1. /\ pc = "undo" /\ UNCHANGED <<fs, data, call, before>> /\ faults \in 0..MaxFaults
      /\ call.kind \in {"write", "restore", "snapshot", "discard"} /\ entry \in Pair
      /\ call.kind \in {"write", "restore", "discard"} => entry = "config"
      /\ call.kind = "snapshot" => entry = Copy
      /\ before \in ViewType
  <2>1. pc = "undo" /\ UNCHANGED <<fs, data, call, before>>
    BY DEF Undo, Pass, Change
  <2>2. call.kind # "unlink"
    BY <2>1, Reached
  <2> QED BY <2>1, <2>2, CallForms DEF SInv, TypeOK, Recorded
<1>2. /\ call.kind = "write" => View(Disk) = Staged(before, "config")
      /\ call.kind = "restore" => View(Disk) = Staged(Bare, "config")
      /\ call.kind \in {"write", "restore"} => "config" \notin before.staging
      /\ call.kind = "snapshot" =>
           View(Disk) \in {Staged(before, Copy), Staged(Copied, Copy), Copied}
      /\ call.kind = "discard" => View(Disk) = before
  BY <1>1 DEF SInv, Progress, WriteProgress, RestoreProgress, SnapshotProgress, DiscardProgress
<1>3. /\ Bare \in ViewType /\ Bare.staging = before.staging \ {Copy}
      /\ Unstaged(Staged(before, Copy), Copy) = Bare
      /\ Unstaged(Staged(Copied, Copy), Copy) = Copied
      /\ Unstaged(Copied, Copy) = Copied
  BY <1>1, Algebra DEF Bare, Copied
<1>4. \A e \in Pair : e \in View(Disk).staging <=> Disk.staging[e] # None
  BY NamesSeen
<1>5. CASE Disk.staging[entry] = None /\ call.kind = "discard" /\ Pass(Return)
  <2>1. Unstaged(before, "config") = before
    BY <1>1, <1>2, <1>4, <1>5, Algebra
  <2>2. View(Disk) = Completed(call, before)
    BY <1>1, <1>2, <1>5, <2>1 DEF Completed
  <2> QED BY <1>1, <1>2, <1>5, <2>2, ReturnStep DEF Pass
<1>6. CASE Disk.staging[entry] = None /\ call.kind # "discard" /\ Pass(Go("undoSync"))
  <2>1. entry \notin View(Disk).staging
    BY <1>1, <1>4, <1>6
  <2>2. /\ Staged(before, "config").staging = before.staging \cup {"config"}
        /\ Staged(before, Copy).staging = before.staging \cup {Copy}
        /\ Staged(Bare, "config").staging = Bare.staging \cup {"config"}
    BY <1>1, <1>3, Algebra
  <2>3. Copy \in Staged(Copied, Copy).staging
    BY DEF Staged, Copied, Snapshotted, Unstaged
  <2>4. call.kind = "snapshot" /\ View(Disk) = Copied
    BY <1>1, <1>2, <1>6, <2>1, <2>2, <2>3
  <2>5. /\ TypeOK' /\ Recorded' /\ NamesWhole' /\ StagingPrivate' /\ OneInode'
        /\ Awaiting' /\ Finished' /\ View(Disk)' = View(Disk) /\ pc' = "undoSync"
    BY <1>1, <1>6, GoStep DEF Steps, Filling, Pass
  <2>6. SnapshotProgress'
    BY <1>1, <2>4, <2>5 DEF SnapshotProgress, Filling, Copied
  <2>7. Progress'
    BY <1>1, <2>4, <2>5, <2>6 DEF Progress
  <2> QED BY <2>5, <2>7 DEF SInv
<1>7. CASE Fail
  BY <1>1, <1>7, FailStep
<1>8. CASE dirs' = Append(dirs, Unnamed(Disk, entry)) /\ Go("undoSync") /\ UNCHANGED faults
  <2>1. /\ TypeOK' /\ Recorded' /\ NamesWhole' /\ StagingPrivate' /\ OneInode'
        /\ Awaiting' /\ Finished' /\ View(Disk)' = Unstaged(View(Disk), entry) /\ pc' = "undoSync"
    BY <1>1, <1>8, UnnameStep DEF Steps, Filling
  <2>2. call.kind = "write" => WriteProgress'
    <3> HAVE call.kind = "write"
    <3>1. View(Disk)' = before
      BY <1>1, <1>2, <2>1, Algebra
    <3> QED BY <1>1, <2>1, <3>1 DEF WriteProgress, Filling
  <2>3. call.kind = "restore" => RestoreProgress'
    <3> HAVE call.kind = "restore"
    <3>1. View(Disk)' = Bare
      BY <1>1, <1>2, <1>3, <2>1, Algebra
    <3> QED BY <1>1, <2>1, <3>1 DEF RestoreProgress, Filling, Bare
  <2>4. call.kind = "snapshot" => SnapshotProgress'
    <3> HAVE call.kind = "snapshot"
    <3>1. View(Disk)' \in {Bare, Copied}
      BY <1>1, <1>2, <1>3, <2>1
    <3> QED BY <1>1, <2>1, <3>1 DEF SnapshotProgress, Filling, Bare, Copied
  <2>5. call.kind = "discard" => DiscardProgress'
    BY <1>1, <1>2, <2>1 DEF DiscardProgress
  <2>6. Progress'
    BY <1>1, <2>1, <2>2, <2>3, <2>4, <2>5 DEF Progress
  <2> QED BY <2>1, <2>6 DEF SInv
<1>9. \/ Disk.staging[entry] = None /\ call.kind = "discard" /\ Pass(Return)
      \/ Disk.staging[entry] = None /\ call.kind # "discard" /\ Pass(Go("undoSync"))
      \/ Fail
      \/ dirs' = Append(dirs, Unnamed(Disk, entry)) /\ Go("undoSync") /\ UNCHANGED faults
  BY DEF Undo, Change
<1> QED BY <1>5, <1>6, <1>7, <1>8, <1>9

\* The system call UndoSync keeps the invariant of the store.
LEMMA UndoSyncStep ==
  ASSUME SInv, UndoSync
  PROVE  SInv'
<1>1. /\ pc = "undoSync" /\ UNCHANGED <<fs, data, call, before>> /\ faults \in 0..MaxFaults
      /\ call.kind = "discard" => call.entry = "config"
  BY CallForms DEF UndoSync, Barrier, SInv, TypeOK
<1>2. CASE Fail
  BY <1>1, <1>2, FailStep
<1>3. CASE call.kind = "discard" /\ dirs' = <<Disk>> /\ Return /\ UNCHANGED faults
  <2>1. View(Disk) = Completed(call, before)
    BY <1>1, <1>3 DEF SInv, Progress, DiscardProgress, Completed
  <2> QED BY <1>1, <1>3, <2>1, ReturnStep
<1>4. CASE call.kind # "discard" /\ dirs' = <<Disk>> /\ End("failed") /\ UNCHANGED faults
  BY <1>1, <1>4, EndStep
<1> QED BY <1>2, <1>3, <1>4 DEF UndoSync, Barrier

\* The system call Unlink keeps the invariant of the store.
LEMMA UnlinkStep ==
  ASSUME SInv, Unlink
  PROVE  SInv'
<1> DEFINE entry == call.entry
           d == [Disk EXCEPT !.name[entry] = None]
<1>1. /\ pc = "unlink" /\ call.kind = "unlink" /\ entry \in Pair
      /\ UNCHANGED <<fs, data, call, before>> /\ before \in ViewType
  BY Reached, CallForms DEF Unlink, Pass, Change, SInv, TypeOK, Recorded
<1>2. /\ TypeOK /\ Recorded /\ NamesWhole /\ OneInode
      /\ Disk \in Past /\ Disk \in Dirs
  BY DiskIsPast DEF SInv, Recorded
<1>3. View(Disk) = Cleaned(before, entry) /\ None \in awaited[entry]
  BY <1>1 DEF SInv, Progress, UnlinkProgress, Awaiting
<1>4. CASE Disk.name[entry] = None /\ Pass(Return)
  <2>1. View(Disk)[entry] = None
    BY <1>1, <1>4, NamesSeen
  <2>2. View(Disk) = Completed(call, before)
    BY <1>1, <1>3, <2>1, RemovedForm DEF Completed
  <2>3. Len(dirs) = 1 \/ View(Disk) = before
    BY <1>1 DEF SInv, Finished
  <2> QED BY <1>1, <1>4, <2>2, <2>3, ReturnStep DEF Pass
<1>5. CASE Fail
  BY <1>1, <1>5, FailStep
<1>6. CASE dirs' = Append(dirs, d) /\ Go("unlinkSync") /\ UNCHANGED faults
  <2>1. /\ d \in Dirs /\ d.staging = Disk.staging
        /\ \A e \in Pair : d.name[e] = (IF e = entry THEN None ELSE Disk.name[e])
    BY <1>1, <1>2 DEF Dirs, Names
  <2>2. Disk' = d
    BY <1>2, <1>6, <2>1, Appended DEF Recorded
  <2>3. View(Disk)' = Removed(before, entry)
    <3>1. Read(None) = None
      BY DEF Read
    <3>2. View(Disk)' = Written(View(Disk), entry, None)
      BY <1>1, <1>2, <2>2, <3>1, NamedView
    <3> QED BY <1>1, <1>3, <3>2, RemovedForm
  <2>4. fs = "ordered" /\ d.staging[Copy] # None /\ d.name[Copy] # None
          => d.staging[Copy] = d.name[Copy]
    BY <1>2, <2>1 DEF OneInode, Pair, Copy
  <2>5. Durable(None) = None
    BY DEF Durable
  <2> HIDE DEF d
  <2>6. /\ Awaiting' /\ Finished' /\ pc' = "unlinkSync"
        /\ outcome' \in Outcomes /\ awaited' = awaited
    BY <1>1, <1>6, GoesOn DEF Steps, Filling
  <2>7. faults' \in 0..MaxFaults
    BY <1>2, <1>6 DEF TypeOK
  <2>8. \A e \in Pair :
           \/ d.name[e] = Disk.name[e]
           \/ Durable(d.name[e]) \in awaited[e] /\ d.name[e] = None
    BY <1>3, <2>1, <2>5
  <2>9. TypeOK' /\ Recorded' /\ NamesWhole' /\ StagingPrivate' /\ OneInode'
    BY <1>1, <1>6, <2>1, <2>4, <2>6, <2>7, <2>8, KeepsChange DEF Steps, Filling
  <2>10. UnlinkProgress'
    BY <1>1, <2>3, <2>6 DEF UnlinkProgress
  <2>11. Progress'
    BY <1>1, <2>6, <2>10 DEF Progress
  <2> QED BY <2>6, <2>9, <2>11 DEF SInv
<1>7. \/ Disk.name[entry] = None /\ Pass(Return)
      \/ Fail
      \/ dirs' = Append(dirs, d) /\ Go("unlinkSync") /\ UNCHANGED faults
  BY DEF Unlink, Change
<1> HIDE DEF d
<1> QED BY <1>4, <1>5, <1>6, <1>7

\* The system call UnlinkSync keeps the invariant of the store.
LEMMA UnlinkSyncStep ==
  ASSUME SInv, UnlinkSync
  PROVE  SInv'
<1>1. pc = "unlinkSync" /\ call.kind = "unlink" /\ UNCHANGED <<fs, data, call, before>>
  BY Reached DEF UnlinkSync, Barrier
<1>2. CASE Fail
  BY <1>1, <1>2, FailStep
<1>3. CASE dirs' = <<Disk>> /\ Return /\ UNCHANGED faults
  <2>1. View(Disk) = Completed(call, before)
    BY <1>1 DEF SInv, Progress, UnlinkProgress, Completed
  <2> QED BY <1>1, <1>3, <2>1, ReturnStep
<1> QED BY <1>2, <1>3 DEF UnlinkSync, Barrier

\* A kill keeps the invariant.
LEMMA KillStep ==
  ASSUME SInv, Kill
  PROVE  SInv'
<1>1. /\ pc # "idle" /\ faults' \in 0..MaxFaults /\ End("killed")
      /\ UNCHANGED <<fs, dirs, data, call, before>>
  BY StoreAssumption DEF Kill, SInv, TypeOK
<1> QED BY <1>1, EndStep

\* A power loss keeps it.
LEMMA PowerLossStep ==
  ASSUME SInv, PowerLoss
  PROVE  SInv'
<1>1. PICK d \in Images : dirs' = <<d>>
  BY DEF PowerLoss
<1>2. /\ faults' \in 0..MaxFaults /\ UNCHANGED <<fs, call>>
      /\ data' = [i \in Inodes |-> [value |-> Durable(i), durable |-> TRUE]]
      /\ pc' = "idle" /\ outcome' = "killed"
      /\ awaited' = Held(Disk)' /\ before' = View(Disk)'
  BY StoreAssumption DEF PowerLoss, SInv, TypeOK
<1>3. TypeOK /\ Recorded /\ NamesWhole /\ OneInode
  BY DEF SInv
<1>4. /\ d \in Dirs
      /\ \A e \in Pair : \E p \in Past : d.name[e] = p.name[e]
      /\ fs = "ordered" => d \in Past
  BY <1>3, ImageParts DEF Recorded, TypeOK
<1>5. /\ dirs' \in Seq(Dirs) /\ dirs' # << >> /\ Len(dirs') = 1
      /\ Disk' = d /\ Past' = {d}
  BY <1>1, <1>4, Single
<1>6. \A i \in Inodes : data'[i].value = Durable(i) /\ data'[i].durable
  BY <1>2
<1>7. data' \in [Inodes -> [value : Values \cup {Torn}, durable : BOOLEAN]]
  <2>1. ASSUME NEW i \in Inodes
        PROVE  Durable(i) \in Values \cup {Torn}
    <3>1. i # None /\ data[i].value \in Values \cup {Torn}
      BY <1>3, StoreAssumption DEF TypeOK
    <3> QED BY <3>1 DEF Durable
  <2> QED BY <1>2, <2>1
<1>8. ASSUME NEW e \in Pair
      PROVE  /\ Read(d.name[e])' = Durable(d.name[e]) /\ Durable(d.name[e])' = Durable(d.name[e])
             /\ Durable(d.name[e]) \in Values \cup {None}
             /\ d.name[e] # None => data'[d.name[e]].durable
  <2>1. PICK p \in Past : d.name[e] = p.name[e]
    BY <1>4
  <2>2. Durable(p.name[e]) \in Values \cup {None} /\ p.name[e] \in Inodes \cup {None}
    BY <1>3, NamedReads
  <2>3. CASE d.name[e] = None
    BY <2>1, <2>2, <2>3 DEF Read, Durable
  <2>4. CASE d.name[e] # None
    <3>1. d.name[e] \in Inodes
      BY <2>1, <2>2, <2>4
    <3>2. data'[d.name[e]].value = Durable(d.name[e]) /\ data'[d.name[e]].durable
      BY <1>6, <3>1
    <3>3. Read(d.name[e])' = data'[d.name[e]].value /\ Durable(d.name[e])' = data'[d.name[e]].value
      BY <2>4, <3>2 DEF Read, Durable
    <3> QED BY <2>1, <2>2, <3>2, <3>3
  <2> QED BY <2>3, <2>4
<1>9. awaited' = [e \in Pair |-> {Read(d.name[e])'}]
  BY <1>2, <1>5 DEF Held
<1>10. awaited' \in [Pair -> SUBSET (Values \cup {None})]
  BY <1>8, <1>9
<1>11. \A k \in 1..Len(dirs') : dirs'[k] \in Dirs
  BY <1>5
<1>12. TypeOK'
  BY <1>2, <1>3, <1>7, <1>10, <1>11 DEF TypeOK, Steps
<1>13. before' \in ViewType
  <2>1. /\ Read(d.name["config"])' \in Values \cup {None}
        /\ Read(d.name["configPrevious"])' \in Values \cup {None}
    BY <1>8 DEF Pair
  <2> QED BY <1>2, <1>5, <2>1 DEF View, ViewType
<1>14. Recorded'
  BY <1>5, <1>13 DEF Recorded
<1>15. NamesWhole'
  BY <1>5, <1>8, <1>9 DEF NamesWhole
<1>16. StagingPrivate'
  BY <1>2 DEF StagingPrivate, Filling
<1>17. OneInode'
  BY <1>2, <1>3, <1>4, <1>5 DEF OneInode
<1>18. View(Disk)' \in Leaves(call, before)'
  <2>1. \A x : x \in Leaves(call, x)
    BY CallForms, <1>3 DEF Leaves, WriteLeaves, SnapshotLeaves, RestoreLeaves, RemoveLeaves, TypeOK
  <2> QED BY <1>2, <2>1 DEF Leaves
<1>19. Foreseen'
  BY <1>2, <1>18 DEF Foreseen
<1>20. Awaiting' /\ Finished' /\ Progress'
  BY <1>2, <1>19, AtRest
<1> QED BY <1>12, <1>14, <1>15, <1>16, <1>17, <1>20 DEF SInv

\* So does a call that begins.
LEMMA BeginStep ==
  ASSUME SInv, NEW c \in Calls, Begin(c)
  PROVE  SInv'
<1>1. /\ call' = c /\ before' = View(Disk) /\ outcome' = "none"
      /\ UNCHANGED <<fs, dirs, faults>>
      /\ data' = [i \in Inodes |-> IF i \in Free THEN [value |-> Torn, durable |-> TRUE]
                                                 ELSE data[i]]
  BY DEF Begin
<1>2. /\ TypeOK /\ Recorded /\ NamesWhole /\ OneInode /\ Disk \in Past
      /\ View(Disk) \in ViewType
  BY DiskIsPast, ViewTypes DEF SInv, Recorded
<1>3. Disk' = Disk /\ Past' = Past
  BY <1>1 DEF Disk, Past
<1>4. ASSUME NEW p \in Past, NEW e \in Pair, p.name[e] # None
      PROVE  data'[p.name[e]] = data[p.name[e]]
  <2>1. p.name[e] \in Inodes
    BY <1>2, <1>4, NamedReads
  <2>2. p.name[e] \notin Free
    BY DEF Past, Free
  <2> QED BY <1>1, <2>1, <2>2
<1>5. View(Disk)' = View(Disk)
  BY <1>2, <1>3, <1>4, SameView
<1>6. /\ c.kind \in {"write", "restore", "snapshot", "unlink", "discard"} /\ c.entry \in Pair
      /\ c.kind \in {"write", "restore", "discard"} => c.entry = "config"
      /\ c.kind = "snapshot" => c.entry = Copy
      /\ c.kind = "write" => c.value \in Values
  BY DEF Calls, Pair, Copy
<1>7. pc' = CASE c.kind = "write" -> "create"
              [] c.kind = "snapshot" -> "clear"
              [] c.kind \in {"restore", "unlink"} -> "clean"
              [] c.kind = "discard" -> "undo"
  BY DEF Begin
<1>8. /\ c.kind = "write" => pc' = "create"
      /\ c.kind = "snapshot" => pc' = "clear"
      /\ c.kind \in {"restore", "unlink"} => pc' = "clean"
      /\ c.kind = "discard" => pc' = "undo"
  BY <1>7
<1> DEFINE more == CASE c.kind = "write" -> {c.value}
                     [] c.kind = "restore" -> {Read(Disk.name["configPrevious"])}
                     [] c.kind = "snapshot" -> {Read(Disk.name["config"])}
                     [] c.kind = "unlink" -> {None}
                     [] c.kind = "discard" -> {}
<1>9. awaited' = [awaited EXCEPT ![c.entry] = @ \cup more]
  BY DEF Begin
<1>10. /\ Read(Disk.name["configPrevious"]) = View(Disk).configPrevious
       /\ Read(Disk.name["config"]) = View(Disk).config
  BY NamesSeen DEF Pair
<1>11. /\ c.kind = "write" => more = {c.value}
       /\ c.kind = "restore" => more = {View(Disk).configPrevious}
       /\ c.kind = "snapshot" => more = {View(Disk).config}
       /\ c.kind = "unlink" => more = {None}
       /\ c.kind = "discard" => more = {}
  BY <1>10
<1> HIDE DEF more
<1>12. more \subseteq Values \cup {None}
  BY <1>2, <1>6, <1>11 DEF ViewType
<1>13. /\ awaited' \in [Pair -> SUBSET (Values \cup {None})]
       /\ \A e \in Pair : awaited[e] \subseteq awaited'[e]
       /\ more \subseteq awaited'[c.entry]
  BY <1>2, <1>6, <1>9, <1>12 DEF TypeOK
<1>14. data' \in [Inodes -> [value : Values \cup {Torn}, durable : BOOLEAN]]
  BY <1>1, <1>2 DEF TypeOK
<1>15. \A k \in 1..Len(dirs') : dirs'[k] \in Dirs
  BY <1>1, <1>2 DEF TypeOK
<1>16. TypeOK'
  BY <1>1, <1>2, <1>6, <1>8, <1>13, <1>14, <1>15 DEF TypeOK, Steps
<1>17. Recorded'
  BY <1>1, <1>2 DEF Recorded
<1>18. NamesWhole'
  <2> SUFFICES ASSUME NEW p \in Past, NEW e \in Pair
               PROVE  /\ Durable(p.name[e])' \in awaited'[e]
                      /\ p.name[e] # None => data'[p.name[e]].durable
    BY <1>3 DEF NamesWhole
  <2>1. /\ Durable(p.name[e]) \in awaited[e]
        /\ p.name[e] # None => data[p.name[e]].durable
    BY <1>2 DEF NamesWhole
  <2> QED BY <1>4, <1>13, <2>1, ReadsAlike
<1>19. StagingPrivate'
  BY <1>6, <1>8 DEF StagingPrivate, Filling
<1>20. OneInode'
  BY <1>1, <1>2, <1>3 DEF OneInode
<1>21. Awaiting'
  <2>1. /\ c.kind = "write" => Goal' = c.value
        /\ c.kind = "restore" => Goal' = View(Disk).configPrevious
        /\ c.kind = "snapshot" => Goal' = View(Disk).config
    BY <1>1 DEF Goal
  <2>2. c.kind \in Giving => Goal' \in awaited'[c.entry]
    BY <1>11, <1>13, <2>1 DEF Giving
  <2>3. c.kind = "unlink" => None \in awaited'[c.entry]
    BY <1>11, <1>13
  <2>4. pc' \in {"clearSync", "create"} \cup Filling => c.kind = "write"
    BY <1>6, <1>8 DEF Filling
  <2> QED BY <1>1, <1>6, <2>1, <2>2, <2>3, <2>4 DEF Awaiting, Giving
<1>22. Finished'
  BY <1>1, <1>6, <1>8 DEF Finished
<1>23. Progress'
  <2>1. c.kind = "write" => WriteProgress'
    BY <1>1, <1>5, <1>8 DEF WriteProgress, Filling
  <2>2. c.kind = "restore" => RestoreProgress'
    BY <1>1, <1>5, <1>8 DEF RestoreProgress, Filling
  <2>3. c.kind = "snapshot" => SnapshotProgress'
    BY <1>1, <1>5, <1>8 DEF SnapshotProgress, Filling
  <2>4. c.kind = "unlink" => UnlinkProgress'
    BY <1>1, <1>5, <1>8 DEF UnlinkProgress
  <2>5. c.kind = "discard" => DiscardProgress'
    BY <1>1, <1>5, <1>8 DEF DiscardProgress
  <2> QED BY <1>1, <1>6, <1>8, <2>1, <2>2, <2>3, <2>4, <2>5 DEF Progress
<1> QED BY <1>16, <1>17, <1>18, <1>19, <1>20, <1>21, <1>22, <1>23 DEF SInv

\* Nothing changes when nothing does.
LEMMA StutterStep ==
  ASSUME SInv, UNCHANGED vars
  PROVE  SInv'
<1>1. UNCHANGED <<fs, dirs, data, pc, call, outcome, before, awaited, faults>>
  BY DEF vars
<1>2. Disk' = Disk /\ Past' = Past /\ Goal' = Goal
  BY <1>1 DEF Disk, Past, Goal
<1>3. View(Disk)' = View(Disk)
  BY <1>1, <1>2, SameView
<1>4. TypeOK' /\ Recorded' /\ Awaiting' /\ OneInode' /\ StagingPrivate' /\ Finished'
  BY <1>1, <1>2, <1>3
     DEF SInv, TypeOK, Recorded, Awaiting, OneInode, StagingPrivate, Finished
<1>5. NamesWhole'
  BY <1>1, <1>2, ReadsAlike DEF SInv, NamesWhole
<1>6. Foreseen' <=> Foreseen
  BY <1>1, <1>3 DEF Foreseen, Leaves, Completed, Refuses
<1>7. Progress'
  BY <1>1, <1>3, <1>6
     DEF SInv, Progress, WriteProgress, RestoreProgress, SnapshotProgress, UnlinkProgress,
         DiscardProgress, Bare, Copied
<1> QED BY <1>4, <1>5, <1>7 DEF SInv

(* ------------------------------ theorems ------------------------------- *)

\* The store starts with a whole configuration, and perhaps an abandoned copy.
LEMMA SInit ==
  ASSUME Init
  PROVE  SInv
<1> DEFINE file == CHOOSE i \in Inodes : TRUE
           copy == CHOOSE i \in Inodes : i # file
<1>1. file \in Inodes /\ copy \in Inodes
  BY StoreAssumption
<1> HIDE DEF file, copy
<1>2. PICK v \in Values, abandoned \in BOOLEAN :
        /\ dirs = <<[name |-> [e \in Pair |-> IF e = "config" THEN file ELSE None],
                     staging |-> [e \in Pair |-> IF abandoned /\ e = "configPrevious"
                                                   THEN copy ELSE None]]>>
        /\ data = [i \in Inodes |-> [value |-> IF i = file THEN v ELSE Torn, durable |-> TRUE]]
  BY DEF Init, file, copy
<1>3. /\ fs \in {"ordered", "reordered"} /\ pc = "idle" /\ outcome = "ok" /\ faults = 0
      /\ call = [kind |-> "discard", entry |-> "config", value |-> None]
      /\ before = View(Disk) /\ awaited = Held(Disk)
  BY DEF Init
<1> DEFINE d == [name |-> [e \in Pair |-> IF e = "config" THEN file ELSE None],
                 staging |-> [e \in Pair |-> IF abandoned /\ e = "configPrevious"
                                               THEN copy ELSE None]]
<1>4. /\ d \in Dirs
      /\ \A e \in Pair : d.name[e] = (IF e = "config" THEN file ELSE None)
      /\ d.name["configPrevious"] = None /\ d.name["config"] = file
      /\ d.staging["config"] = None
  BY <1>1 DEF Dirs, Names, Pair
<1>5. dirs = <<d>>
  BY <1>2
<1> HIDE DEF d
<1>6. dirs \in Seq(Dirs) /\ dirs # << >> /\ Len(dirs) = 1 /\ Disk = d /\ Past = {d}
  BY <1>4, <1>5 DEF Disk, Past
<1>7. data[file].value = v /\ data[file].durable /\ file # None
  BY <1>1, <1>2, StoreAssumption
<1>8. /\ Read(file) = v /\ Durable(file) = v
      /\ Read(None) = None /\ Durable(None) = None
  BY <1>7 DEF Read, Durable
<1>9. \A e \in Pair : /\ Read(d.name[e]) = Durable(d.name[e])
                      /\ Read(d.name[e]) \in Values \cup {None}
                      /\ d.name[e] # None => data[d.name[e]].durable
  BY <1>4, <1>7, <1>8
<1>10. awaited = [e \in Pair |-> {Read(d.name[e])}]
  BY <1>3, <1>6 DEF Held
<1>11. TypeOK
  <2>1. awaited \in [Pair -> SUBSET (Values \cup {None})]
    BY <1>9, <1>10
  <2>2. data \in [Inodes -> [value : Values \cup {Torn}, durable : BOOLEAN]]
    BY <1>2
  <2>3. call \in Calls
    BY <1>3 DEF Calls
  <2>4. \A k \in 1..Len(dirs) : dirs[k] \in Dirs
    BY <1>6
  <2> QED BY <1>3, <2>1, <2>2, <2>3, <2>4, StoreAssumption DEF TypeOK, Steps
<1>12. NamesWhole
  BY <1>6, <1>9, <1>10 DEF NamesWhole
<1>13. before \in ViewType
  <2>1. Read(d.name["config"]) \in Values \cup {None}
        /\ Read(d.name["configPrevious"]) \in Values \cup {None}
    BY <1>9 DEF Pair
  <2> QED BY <1>3, <1>6, <2>1 DEF View, ViewType
<1>14. Recorded
  BY <1>6, <1>13 DEF Recorded
<1>15. StagingPrivate /\ Awaiting
  BY <1>3 DEF StagingPrivate, Awaiting, Filling
<1>16. OneInode
  BY <1>4, <1>6 DEF OneInode, Copy
<1>17. Finished
  BY <1>3, <1>6 DEF Finished
<1>18. Foreseen
  <2>1. "config" \notin before.staging
    BY <1>3, <1>4, <1>6 DEF View
  <2>2. Unstaged(before, "config") = before
    BY <1>13, <2>1, Algebra
  <2> QED BY <1>3, <2>2 DEF Foreseen, Leaves, Completed
<1>19. Progress
  BY <1>3, <1>18 DEF Progress, DiscardProgress
<1> QED BY <1>11, <1>12, <1>14, <1>15, <1>16, <1>17, <1>19 DEF SInv

\* Every step of the store, of a fault and of a caller keeps the invariant.
LEMMA SNext ==
  ASSUME SInv, [Next]_vars
  PROVE  SInv'
<1>1. ASSUME Store
      PROVE  SInv'
  BY <1>1, CleanStep, CleanSyncStep, ReadSnapshotStep, ClearStep, ClearSyncStep, CreateStep,
     FillStep, SyncDataStep, PublishStep, SyncFileStep, SyncDirStep, DropStep, DropSyncStep,
     UndoStep, UndoSyncStep, UnlinkStep, UnlinkSyncStep DEF Store
<1> QED BY <1>1, KillStep, PowerLossStep, BeginStep, StutterStep DEF Next

\* The invariant of the store holds in every reachable state, for any inodes,
\* settings and faults (store.py atomic_write, snapshot_file, restore_snapshot,
\* durable_unlink).
THEOREM StoreInvariance == Spec => []SInv
<1>1. Init => SInv
  BY SInit
<1>2. SInv /\ [Next]_vars => SInv'
  BY SNext
<1> QED BY <1>1, <1>2, PTL DEF Spec

\* Every variable of the store has a value of its type.
THEOREM StoreTypes == Spec => []TypeOK
<1>1. SInv => TypeOK
  BY DEF SInv
<1> QED BY <1>1, StoreInvariance, PTL

\* Whatever a power loss leaves, a configuration and its snapshot hold a whole
\* value, one they held or were being given since the last completed call.
THEOREM FilesStayWhole == Spec => []EntriesWhole
<1>1. SInv => EntriesWhole
  <2> SUFFICES ASSUME SInv, NEW d \in Images, NEW e \in Pair
               PROVE  Durable(d.name[e]) \in awaited[e]
    BY DEF EntriesWhole
  <2>1. PICK p \in Past : d.name[e] = p.name[e]
    BY ImageParts DEF SInv, TypeOK, Recorded
  <2> QED BY <2>1 DEF SInv, NamesWhole
<1> QED BY <1>1, StoreInvariance, PTL

\* What a call that returned has changed, no power loss takes back.
THEOREM SuccessIsDurable == Spec => []SuccessDurable
<1>1. SInv => SuccessDurable
  <2> SUFFICES ASSUME SInv, outcome = "ok",
                      call.kind \in {"write", "snapshot", "restore"} \/ View(Disk) # before
               PROVE  Images = {Disk}
    BY DEF SuccessDurable
  <2>1. Len(dirs) = 1
    BY DEF SInv, Finished
  <2> QED BY <2>1, OneImage DEF SInv, Recorded
<1> QED BY <1>1, StoreInvariance, PTL

\* At no system call, failed, cut or refused, is the directory one that the
\* recovery of SetupApply does not count on.
THEOREM OutcomesForeseen == Spec => []Foreseen
<1>1. SInv => Foreseen
  <2> SUFFICES ASSUME SInv PROVE Foreseen
    OBVIOUS
  <2>1. CASE pc = "idle"
    BY <2>1 DEF SInv, Progress
  <2>2. CASE pc # "idle"
    <3>1. outcome = "none"
      BY <2>2 DEF SInv, Finished
    <3> QED BY <3>1, Leaving DEF Foreseen
  <2> QED BY <2>1, <2>2
<1> QED BY <1>1, StoreInvariance, PTL
=============================================================================
