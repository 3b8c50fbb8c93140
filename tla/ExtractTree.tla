----------------------------- MODULE ExtractTree ------------------------------
(***************************************************************************)
(* What copy-in makes of directories, their modes, and symbolic links      *)
(* (copyin.rs, util.rs), for a process that the modes of directories bind. *)
(* The mode of a directory that its owner may not write is set when the    *)
(* extraction ends, so that its files can be made first.  With             *)
(* --no-absolute-filenames a symbolic link is an empty file until the      *)
(* extraction ends, and then is replaced when the file is still the same.  *)
(*                                                                         *)
(* Names form a tree.  A mode is the set of what the owner may do with a   *)
(* directory: "w", to make and remove names in it, and "x", to reach them. *)
(* CopyIn models how the entries of the archive are found.                 *)
(***************************************************************************)
EXTENDS Integers, Sequences, FiniteSets

CONSTANTS
  Names,
  Above,      \* the directories that lead to a name
  Short,      \* directories of which the path is one character
  Kinds,      \* among AllKinds
  DirModes,   \* modes of the directories in the archive
  MaxEntries

AllKinds == {"dir", "reg", "lnk", "dev", "other", "late"}
AllModes == SUBSET {"w", "x"}

ASSUME ExtractTreeAssumption ==
  /\ Above \in [Names -> SUBSET Names]
  /\ \A n \in Names : n \notin Above[n]
  /\ \A n \in Names : \A a \in Above[n] : Above[a] \subseteq Above[n]
  /\ \A n \in Names : Above[n] # {} =>
       \E p \in Above[n] : \A a \in Above[n] : a = p \/ a \in Above[p]
  /\ \A S \in SUBSET Names : S # {} => \E a \in S : Above[a] \cap S = {}
  /\ Short \subseteq {n \in Names : Above[n] = {}}
  /\ Kinds \subseteq AllKinds
  /\ DirModes \subseteq AllModes
  /\ MaxEntries \in Nat

VARIABLES
  archive,      \* the entries, without contents; "late" is a link of newc
                \* of which the entry with the contents never comes, "other"
                \* a FIFO or a socket
  createDir, unconditional, noAbsPaths,   \* -d, -u, --no-absolute-filenames
  at,           \* the next entry
  disk,
  delayed,      \* DELAYED_SET_STAT_HEAD, the last record first
  delayedLinks, \* GLOBAL_DELAYED_LINK, from inodes to placeholders
  deferments,   \* COPYIN_DEFERMENTS
  kept,         \* the entries of placeholders that unlink did not find
  phase

options == <<archive, createDir, unconditional, noAbsPaths>>
vars == <<options, at, disk, delayed, delayedLinks, deferments, kept, phase>>

Entry == [name : Names, kind : {"dir"} \cap Kinds, mode : DirModes]
         \cup [name : Names, kind : Kinds \ {"dir"}, mode : {{"w"}}]

(* What a name is: made by entry "of", or with 0 as a leading directory.   *)
(* The inode of a placeholder has the number of its entry; 0 stands for    *)
(* the inodes of all other files.                                          *)
Nothing == [type |-> "none", mode |-> {}, of |-> 0, ino |-> 0]
Made(type, mode, k, i) == [type |-> type, mode |-> mode, of |-> k, ino |-> i]

Init ==
  /\ archive \in UNION {[1 .. k -> Entry] : k \in 0 .. MaxEntries}
  /\ createDir \in BOOLEAN
  /\ unconditional \in BOOLEAN
  /\ noAbsPaths \in BOOLEAN
  /\ at = 1
  /\ disk = [n \in Names |-> Nothing]
  /\ delayed = << >>
  /\ delayedLinks = << >>
  /\ deferments = << >>
  /\ kept = {}
  /\ phase = "entries"

-------------------------------------------------------------------------------
(* The file system, d being what is on the disk                            *)
IsDir(d, n) == d[n].type = "dir"

Parent(n) ==
  CHOOSE p \in Above[n] : \A a \in Above[n] : a = p \/ a \in Above[p]

Reached(d, n) == \A a \in Above[n] : IsDir(d, a) /\ "x" \in d[a].mode
Writable(d, n) ==
  /\ Reached(d, n)
  /\ Above[n] # {} => "w" \in d[Parent(n)].mode

Free(d, n) == d[n].type = "none" /\ Writable(d, n)
IsEmpty(d, n) == \A m \in Names : n \in Above[m] => d[m].type = "none"
Removable(d, n) == Writable(d, n) /\ (IsDir(d, n) => IsEmpty(d, n))

(* open for writing with O_CREAT; a link or a device may be opened or not. *)
Special(d, n) == d[n].type \in {"lnk", "dev"}
CanOpen(d, n) ==
  \/ Free(d, n)
  \/ d[n].type = "reg" /\ Reached(d, n) /\ "w" \in d[n].mode
  \/ Special(d, n) /\ Reached(d, n)

(* The inode of a new file may be that of a removed one.                   *)
NewInodes(d) == {0} \cup {i \in DOMAIN delayedLinks : \A n \in Names : d[n].ino # i}

(* create_dir_all makes the missing directories of a path from the top.    *)
MakeLast(d, p) ==  \* Mistake: create_dir makes one directory
  IF Free(d, p) THEN [d EXCEPT ![p] = Made("dir", {"w", "x"}, 0, 0)] ELSE d

MakePath(d, p) ==
  LET missing == {a \in Above[p] \cup {p} : d[a].type = "none"}
  IN  IF \E a \in missing : Above[a] \cap missing = {} /\ Writable(d, a)
      THEN [n \in Names |-> IF n \in missing THEN Made("dir", {"w", "x"}, 0, 0)
                            ELSE d[n]]
      ELSE d

(* create_all_directories: dir_name of a name without a slash is the name, *)
(* and a path of one character is taken for nothing.                       *)
DirName(n) == IF Above[n] = {} THEN n ELSE Parent(n)
CreateAllDirectories(d, n) ==
  IF DirName(n) \in Short THEN d ELSE MakePath(d, DirName(n))

(* With -d what failed is tried again after the directories were made.     *)
Retried(can, d, n) ==
  IF ~can /\ createDir THEN CreateAllDirectories(d, n) ELSE d

(* set_perms, by name                                                      *)
Chmod(d, n, mode) ==
  IF Reached(d, n) /\ d[n].type \in {"dir", "reg", "dev"}
  THEN [d EXCEPT ![n].mode = mode]
  ELSE d

-------------------------------------------------------------------------------
(* try_existing_file.  metadata goes through a link, which may lead to any *)
(* file.  What is older than the entry is removed; when it cannot be, as   *)
(* remove_dir does not remove a link, the extraction goes on.              *)
Extracting == phase = "entries" /\ at <= Len(archive)
Cur == archive[at]
Name == Cur.name

Found ==
  CASE ~Reached(disk, Name) -> {"none"}
    [] disk[Name].type = "lnk" -> {"none", "reg", "dir"}
    [] OTHER -> {disk[Name].type}
BothDirs(found) == found = "dir" /\ Cur.kind = "dir"
InTheWay(found) == found # "none" /\ ~BothDirs(found)

NotCreated ==
  /\ Extracting
  /\ ~unconditional
  /\ \E found \in Found : InTheWay(found)
  /\ at' = at + 1
  /\ UNCHANGED <<options, disk, delayed, delayedLinks, deferments, kept, phase>>

Cleared(found) ==
  IF /\ InTheWay(found) /\ Removable(disk, Name)
     /\ ~(disk[Name].type = "lnk" /\ found = "dir")
  THEN [disk EXCEPT ![Name] = Nothing]
  ELSE disk

Handle(kind) ==
  /\ Extracting
  /\ Cur.kind = kind
  /\ at' = at + 1
  /\ UNCHANGED <<options, kept, phase>>

HasRecord(n) == \E k \in 1 .. Len(delayed) : delayed[k].name = n
Repaired(n, mode) ==
  LET first == CHOOSE k \in 1 .. Len(delayed) :
                 /\ delayed[k].name = n
                 /\ \A j \in 1 .. k - 1 : delayed[j].name # n
  IN  [delayed EXCEPT ![first].mode = mode]

(* cpio_mkdir makes a directory with all permissions, and delays a mode    *)
(* without "w"; cpio_create_dir sets the mode of any other, also of one    *)
(* that was there, or is behind a link.                                    *)
DelayNever(mode) == FALSE  \* Mistake: every mode is set at once
Delayed(mode) == "w" \notin mode

CreateDir ==
  /\ Handle("dir")
  /\ \E found \in Found :
     LET c == Cleared(found)
         tried == Retried(Free(c, Name), c, Name)
         made == Free(tried, Name)
         d == IF made THEN [tried EXCEPT ![Name] = Made("dir", {"w", "x"}, at, 0)]
              ELSE tried
         there == BothDirs(found) \/ (IsDir(d, Name) /\ Reached(d, Name))
     IN  \/ /\ there
            /\ made /\ Delayed(Cur.mode)
            /\ disk' = d
            /\ delayed' = <<[name |-> Name, mode |-> Cur.mode]>> \o delayed
         \/ /\ there
            /\ ~(made /\ Delayed(Cur.mode))
            /\ IF HasRecord(Name)
               THEN delayed' = Repaired(Name, Cur.mode) /\ disk' = d
               ELSE delayed' = delayed /\ disk' = Chmod(d, Name, Cur.mode)
         \/ /\ ~there
            /\ disk' = d
            /\ UNCHANGED delayed
  /\ UNCHANGED <<delayedLinks, deferments>>

(* The file that open makes or finds, and its mode from the entry          *)
Opened(d, n, k, i) ==
  IF Special(d, n) THEN d
  ELSE [d EXCEPT ![n] = Made("reg", {"w"}, k, IF @.type = "none" THEN i ELSE @.ino)]

(* copyin_regular_file                                                     *)
CopyinRegular ==
  /\ Handle("reg")
  /\ \E found \in Found :
     LET c == Cleared(found)
         d == Retried(CanOpen(c, Name), c, Name)
     IN  IF CanOpen(d, Name)
         THEN \E i \in NewInodes(d) : disk' = Opened(d, Name, at, i)
         ELSE disk' = d
  /\ UNCHANGED <<delayed, delayedLinks, deferments>>

(* copyin_link.  That the name exists, or cannot be reached, is not told;  *)
(* any other error ends the process: that a part of the path is a file, or *)
(* that a link leads to one or to itself (ENOTDIR, ELOOP).                 *)
LinkTree(found) ==
  LET c == Cleared(found) IN Retried(Free(c, Name), c, Name)

MayExit(d) == \E a \in Above[Name] :
                Reached(d, a) /\ d[a].type \notin {"none", "dir"}
MustExit(d) == \E a \in Above[Name] :
                 Reached(d, a) /\ d[a].type \in {"reg", "dev"}

CopyinLink ==
  /\ Handle("lnk")
  /\ ~noAbsPaths
  /\ \E found \in Found :
     LET d == LinkTree(found)
     IN  /\ ~MustExit(d)
         /\ disk' = IF Free(d, Name)
                    THEN [d EXCEPT ![Name] = Made("lnk", {}, at, 0)] ELSE d
  /\ UNCHANGED <<delayed, delayedLinks, deferments>>

CopyinLinkExits ==
  /\ Extracting
  /\ Cur.kind = "lnk"
  /\ ~noAbsPaths
  /\ \E found \in Found :
       /\ MayExit(LinkTree(found))
       /\ disk' = LinkTree(found)
  /\ phase' = "exited"
  /\ UNCHANGED <<options, at, delayed, delayedLinks, deferments, kept>>

(* symlink_placeholder insists on a new file, but with -d its second try   *)
(* takes what is there.                                                    *)
InodeOfPlaceholder(d) ==
  IF d[Name].type = "none" THEN {at} \cup (NewInodes(d) \ {0})
  ELSE {IF d[Name].ino = 0 THEN at ELSE d[Name].ino}

SymlinkPlaceholder ==
  /\ Handle("lnk")
  /\ noAbsPaths
  /\ \E found \in Found :
     LET c == Cleared(found)
         d == Retried(Free(c, Name), c, Name)
         opened == Free(d, Name) \/ (createDir /\ CanOpen(d, Name))
     IN  \/ /\ opened
            /\ \E i \in InodeOfPlaceholder(d) :
                 /\ disk' = CASE d[Name].type = "lnk" -> d
                             [] d[Name].type = "dev" -> [d EXCEPT ![Name].ino = i]
                             [] OTHER -> [d EXCEPT ![Name] = Made("reg", {"w"}, at, i)]
                 /\ delayedLinks' =
                      [j \in DOMAIN delayedLinks \cup {i} |->
                         IF j = i THEN at ELSE delayedLinks[j]]
         \/ /\ ~opened \/ Special(d, Name)
            /\ disk' = d
            /\ UNCHANGED delayedLinks
  /\ UNCHANGED <<delayed, deferments>>

(* copyin_device.  mknod is allowed or not.  It is given a name without    *)
(* its terminator: what it makes may have another name.  With -d it is     *)
(* tried again, and what is made then counts as an error all the same.     *)
CopyinDevice ==
  /\ Handle("dev")
  /\ \E found \in Found :
     LET c == Cleared(found)
         node(d) == [d EXCEPT ![Name] = Made("dev", {"w"}, at, 0)]
         again == CreateAllDirectories(c, Name)
     IN  \/ Free(c, Name) /\ disk' = node(c)
         \/ disk' = c
         \/ createDir /\ Free(again, Name) /\ disk' = node(again)
         \/ createDir /\ disk' = again
  /\ UNCHANGED <<delayed, delayedLinks, deferments>>

(* Other types are unknown to copyin_file; what was there is removed.      *)
CopyinUnknown ==
  /\ Handle("other")
  /\ \E found \in Found : disk' = Cleared(found)
  /\ UNCHANGED <<delayed, delayedLinks, deferments>>

(* defer_copyin                                                            *)
DeferCopyin ==
  /\ Handle("late")
  /\ \E found \in Found : disk' = Cleared(found)
  /\ deferments' = <<at>> \o deferments
  /\ UNCHANGED <<delayed, delayedLinks>>

-------------------------------------------------------------------------------
(* The end of the extraction                                               *)
EndOfArchive ==
  /\ phase = "entries"
  /\ at > Len(archive)
  /\ phase' = "replace"
  /\ UNCHANGED <<options, at, disk, delayed, delayedLinks, deferments, kept>>

(* replace_symlink_placeholders goes through a map in any order.  unlink   *)
(* is given a name without its terminator, and may not find it: the file   *)
(* stays.                                                                  *)
IsPlaceholder(i) ==
  LET n == archive[delayedLinks[i]].name
  IN  disk[n].type # "none" /\ Reached(disk, n) /\ disk[n].ino = i

Without(i) == [j \in DOMAIN delayedLinks \ {i} |-> delayedLinks[j]]

ReplacePlaceholder ==
  /\ phase = "replace"
  /\ \E i \in DOMAIN delayedLinks :
       LET k == delayedLinks[i]
           n == archive[k].name
           replaceable == IsPlaceholder(i) /\ ~IsDir(disk, n) /\ Writable(disk, n)
       IN  /\ \/ /\ replaceable
                 /\ disk' = [disk EXCEPT ![n] = Made("lnk", {}, k, 0)]
                 /\ UNCHANGED kept
              \/ /\ replaceable
                 /\ kept' = kept \cup {k}
                 /\ UNCHANGED disk
              \/ /\ ~replaceable
                 /\ UNCHANGED <<disk, kept>>
           /\ delayedLinks' = Without(i)
  /\ UNCHANGED <<options, at, delayed, deferments, phase>>

AllReplaced ==
  /\ phase = "replace"
  /\ DOMAIN delayedLinks = {}
  /\ phase' = "apply"
  /\ UNCHANGED <<options, at, disk, delayed, delayedLinks, deferments, kept>>

(* apply_delayed_set_stat                                                  *)
NextRecord == 1

ApplyDelayed ==
  /\ phase = "apply"
  /\ delayed # << >>
  /\ LET r == delayed[NextRecord]
     IN  disk' = Chmod(disk, r.name, r.mode)
  /\ delayed' = SubSeq(delayed, 1, NextRecord - 1)
                \o SubSeq(delayed, NextRecord + 1, Len(delayed))
  /\ UNCHANGED <<options, at, delayedLinks, deferments, kept, phase>>

AllApplied ==
  /\ phase = "apply"
  /\ delayed = << >>
  /\ phase' = "finals"
  /\ UNCHANGED <<options, at, disk, delayed, delayedLinks, deferments, kept>>

(* create_final_defers                                                     *)
CreateFinalDefer ==
  /\ phase = "finals"
  /\ deferments # << >>
  /\ LET k == Head(deferments)
         n == archive[k].name
         d == Retried(CanOpen(disk, n), disk, n)
     IN  disk' = IF CanOpen(d, n) THEN Opened(d, n, k, 0) ELSE d
  /\ deferments' = Tail(deferments)
  /\ UNCHANGED <<options, at, delayed, delayedLinks, kept, phase>>

Finish ==
  /\ phase = "finals"
  /\ deferments = << >>
  /\ phase' = "done"
  /\ UNCHANGED <<options, at, disk, delayed, delayedLinks, deferments, kept>>

Next == \/ NotCreated
        \/ CreateDir
        \/ CopyinRegular
        \/ CopyinLink
        \/ CopyinLinkExits
        \/ SymlinkPlaceholder
        \/ CopyinDevice
        \/ CopyinUnknown
        \/ DeferCopyin
        \/ EndOfArchive
        \/ ReplacePlaceholder
        \/ AllReplaced
        \/ ApplyDelayed
        \/ AllApplied
        \/ CreateFinalDefer
        \/ Finish

Spec == Init /\ [][Next]_vars

-------------------------------------------------------------------------------
TypeOK ==
  /\ archive \in Seq(Entry)
  /\ at \in 1 .. Len(archive) + 1
  /\ disk \in [Names -> [type : {"none", "dir", "reg", "lnk", "dev"}, mode : AllModes,
                         of : 0 .. Len(archive), ino : 0 .. Len(archive)]]
  /\ delayed \in Seq([name : Names, mode : DirModes])
  /\ DOMAIN delayedLinks \subseteq 1 .. Len(archive)
  /\ delayedLinks \in [DOMAIN delayedLinks -> 1 .. Len(archive)]
  /\ deferments \in Seq(1 .. Len(archive))
  /\ kept \subseteq 1 .. Len(archive)
  /\ phase \in {"entries", "replace", "apply", "finals", "done", "exited"}

(* An archive of distinct names, every directory before what it holds, and *)
(* none that its owner may write but not search: such a mode is set at     *)
(* once, and what the directory holds cannot be reached any more.          *)
Orderly ==
  \A k \in 1 .. Len(archive) :
    /\ archive[k].kind = "dir" => archive[k].mode # {"w"}
    /\ \A j \in 1 .. k - 1 : archive[j].name # archive[k].name
    /\ \A a \in Above[archive[k].name] :
         \E j \in 1 .. k - 1 : archive[j].name = a /\ archive[j].kind = "dir"

ReadOnly(n) == \E j \in 1 .. Len(archive) :
                 archive[j].name = n /\ archive[j].mode # {"w", "x"}

(* Nothing is lost to the modes of the directories: every directory, file  *)
(* and symbolic link is made, below read-only directories too, and ends    *)
(* with its type and mode.  A link under --no-absolute-filenames is one    *)
(* in the end, unless unlink did not find its placeholder, which then is   *)
(* left as an empty file.  The links that newc defers are made last of     *)
(* all, after the modes are set: none is promised below a directory of     *)
(* which the archive takes away a right.  Of devices, FIFOs and sockets    *)
(* nothing is said.                                                        *)
Restored(k) ==
  LET o == disk[archive[k].name] IN
  CASE archive[k].kind \in {"dir", "reg"} ->
         o = Made(archive[k].kind, archive[k].mode, k, 0)
    [] archive[k].kind = "lnk" ->
         o.of = k /\ (o.type = "lnk" \/ (k \in kept /\ o.type = "reg"))
    [] archive[k].kind = "late" ->
         (\A a \in Above[archive[k].name] : ~ReadOnly(a)) => o.of = k
    [] OTHER -> TRUE

AllRestored ==
  phase = "done" /\ Orderly => \A k \in 1 .. Len(archive) : Restored(k)

(* doc/cpio.md: '-d', leading directories are made where they are needed.  *)
(* (Those with a path of more than one character are.)                     *)
OnlyFiles ==
  \A k \in 1 .. Len(archive) :
    /\ archive[k].kind = "reg"
    /\ \A j \in 1 .. Len(archive) : archive[j].name \notin Above[archive[k].name]

LeadingDirectoriesMade ==
  phase = "done" /\ createDir /\ OnlyFiles =>
    \A k \in 1 .. Len(archive) :
      \/ disk[archive[k].name].type = "reg"
      \/ Above[archive[k].name] # {} /\ Parent(archive[k].name) \in Short

(* A directory may be an entry many times.  It ends with the mode of the   *)
(* last, whether its mode was delayed, given to the record of an earlier   *)
(* one, or set at once.  (When the name is a directory in every entry, and *)
(* its owner may search the directories above it.)                         *)
Entries(n) == {k \in 1 .. Len(archive) : archive[k].name = n}
LastOf(n) == CHOOSE k \in Entries(n) : \A j \in Entries(n) : j <= k

Searchable(n) ==
  \A k \in 1 .. Len(archive) :
    archive[k].name \in Above[n] /\ archive[k].kind = "dir" => "x" \in archive[k].mode

===============================================================================
