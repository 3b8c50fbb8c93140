-------------------------------- MODULE CopyIn --------------------------------
(***************************************************************************)
(* process_copy_in (copyin.rs): the entries of an archive are read one     *)
(* after the other; each is extracted, listed, verified or skipped, and    *)
(* the bytes that follow its header are consumed, so that the next header  *)
(* is found.  With the newc format the links of a file come without        *)
(* contents and are deferred until the entry with the contents comes.      *)
(*                                                                         *)
(* Entry k of the archive has the name k: names are not repeated.  A name  *)
(* on disk is Absent, Old when it was there before, or the number of the   *)
(* entry that created the file it names, so that equal numbers are links   *)
(* of one file.  InputTape models how the bytes are read, DiskOutput how   *)
(* they are written.  The sizes need no padding.                           *)
(***************************************************************************)
EXTENDS Casts, Sequences

CONSTANTS
  N,          \* number of entries before the trailer
  Inodes,
  Kinds,      \* among "reg", "dir", "dev", "fifo" and "lnk"
  Modes,      \* among AllModes, what the options ask for
  OldNames,   \* entries whose name may be there before
  Sizes,      \* of contents
  LinkMax,    \* MAX_LINK_NAME_SIZE
  Faults      \* the choices of faults

Entries == 1 .. N
Absent == 0
Old == -1
AllKinds == {"reg", "dir", "dev", "fifo", "lnk"}
AllModes == {"extract", "rename", "stdout", "list", "verify", "append"}

ASSUME CopyInAssumption ==
  /\ N \in Nat \ {0}
  /\ Kinds \subseteq AllKinds
  /\ Modes \subseteq AllModes
  /\ OldNames \subseteq Entries
  /\ Sizes \subseteq Nat \ {0}
  /\ LinkMax \in Nat
  /\ LinkMax < Half
  /\ Faults \subseteq BOOLEAN

VARIABLES
  kind, ino, size, linked,  \* c_mode, c_ino, c_filesize, c_nlink > 1
  newc,         \* the format is newc or crc
  mode, verbose, unconditional,  \* the options
  unwanted,     \* entries that the patterns of the command line exclude
  newer,        \* names of which the old file is not older than the entry
  oldDir,       \* names of which the old file is a directory
  faults,       \* removing or opening a file, making a node may fail
  disk,         \* what the names are on disk
  next,         \* the next header of the archive
  cur,          \* the entry that is handled
  consumed,     \* bytes of its contents taken from the tape
  target,       \* c_name, under which it is extracted
  deferments,   \* COPYIN_DEFERMENTS
  locked,       \* create_defered_links_to_skipped holds its mutex
  lost,         \* entries that were never seen
  phase, status

archive == <<kind, ino, size, linked, newc>>
options == <<mode, verbose, unconditional, unwanted, newer, oldDir, faults>>
vars == <<archive, options, disk, next, cur, consumed, target, deferments,
          locked, lost, phase, status>>

Running == status = "running"

(* Only files and symbolic links have contents, and the entries of one     *)
(* inode are of one kind.  The links of a file may come with or without    *)
(* its contents, in any order.                                             *)
Init ==
  /\ kind \in [Entries -> Kinds]
  /\ ino \in [Entries -> Inodes]
  /\ size \in [Entries -> Sizes \cup {0}]
  /\ \A k \in Entries : (kind[k] \in {"dir", "dev", "fifo"} => size[k] = 0)
                        /\ (kind[k] = "lnk" => size[k] > 0)
  /\ linked \in [Inodes -> BOOLEAN]
  /\ \A j, k \in Entries :
       j # k /\ ino[j] = ino[k] => kind[j] = kind[k] /\ linked[ino[j]]
  /\ newc \in BOOLEAN
  /\ mode \in Modes
  /\ verbose \in BOOLEAN
  /\ verbose => mode = "list"
  /\ unconditional \in BOOLEAN
  /\ unwanted \in SUBSET Entries
  /\ disk \in [Entries -> {Absent, Old}]
  /\ \A k \in Entries : disk[k] = Old => k \in OldNames
  /\ newer \in SUBSET {k \in Entries : disk[k] = Old}
  /\ oldDir \in SUBSET {k \in Entries : disk[k] = Old}
  /\ faults \in Faults
  /\ next = 1
  /\ cur = 0
  /\ consumed = 0
  /\ target = 0
  /\ deferments = << >>
  /\ locked = FALSE
  /\ lost = {}
  /\ phase = "header"
  /\ status = "running"

-------------------------------------------------------------------------------
(* read_in_header.  When more than the contents of the last entry was      *)
(* taken, the next header was taken with it; the search for a magic number *)
(* goes on to the one after it, and ends the process when that was the     *)
(* trailer.  When less was taken, the search goes over what is left of the *)
(* contents, which hold no magic number (see Headers).                     *)
Overrun == cur # 0 /\ consumed > size[cur]
Found == IF Overrun THEN next + 1 ELSE next

ReadInHeader ==
  /\ Running
  /\ phase = "header"
  /\ Found <= N
  /\ lost' = IF Overrun THEN lost \cup {next} ELSE lost
  /\ cur' = Found
  /\ target' = Found
  /\ next' = Found + 1
  /\ consumed' = 0
  /\ phase' = "dispatch"
  /\ UNCHANGED <<archive, options, disk, deferments, locked, status>>

Premature ==
  /\ Running
  /\ phase = "header"
  /\ Found > N + 1
  /\ status' = "exit"
  /\ UNCHANGED <<archive, options, disk, next, cur, consumed, target,
                 deferments, locked, lost, phase>>

ReadTrailer ==
  /\ Running
  /\ phase = "header"
  /\ Found = N + 1
  /\ phase' = "final"
  /\ lost' = IF Overrun THEN lost \cup {next} ELSE lost
  /\ UNCHANGED <<archive, options, disk, next, cur, consumed, target,
                 deferments, locked, status>>

(* tape_toss_input over the contents, and back to the loop.  It is told    *)
(* the size as a signed word, and takes nothing when that is negative.     *)
Told == AsI32(size[cur])
Tossed == IF Told > 0 THEN Told ELSE 0
TossNothing == consumed' = consumed /\ phase' = "header"  \* Mistake

Toss ==
  /\ consumed' = consumed + Tossed
  /\ phase' = "header"

IsLinked(k) == newc /\ linked[ino[k]]

Dispatch == Running /\ phase = "dispatch"

LinkOfAny(d) == linked[ino[d]]  \* Mistake: any file with links will do
IsLinkOfCur(d) == ino[d] = ino[cur]
Last == Len(deferments)
IsDeferred(d) == \E k \in 1 .. Last : deferments[k] = d

(* create_defered_links_to_skipped: the links at the head of the           *)
(* deferments are removed and forgotten; the first one that comes behind   *)
(* the link of another file takes over the contents of the skipped entry.  *)
HeadLinks(p) ==
  /\ \A k \in 1 .. p : IsLinkOfCur(deferments[k])
  /\ p < Last => ~IsLinkOfCur(deferments[p + 1])

Heir(p, h) ==
  /\ IsLinkOfCur(deferments[h])
  /\ \A k \in p + 1 .. h - 1 : ~IsLinkOfCur(deferments[k])

(* what is left without the p links at the head and the link at h          *)
WithoutThoseBefore(p, h) == SubSeq(deferments, h + 1, Last)  \* Mistake
Without(p, h) ==
  SubSeq(deferments, p + 1, h - 1) \o SubSeq(deferments, h + 1, Last)

SkipEntry ==
  /\ Dispatch
  /\ cur \in unwanted
  /\ ~IsLinked(cur) \/ size[cur] = 0
  /\ Toss
  /\ UNCHANGED <<archive, options, disk, next, cur, target, deferments,
                 locked, lost, status>>

SkipLinked ==
  /\ Dispatch
  /\ cur \in unwanted
  /\ IsLinked(cur) /\ size[cur] > 0
  /\ \E p \in 0 .. Last :
       /\ HeadLinks(p)
       /\ \/ /\ \A h \in p + 1 .. Last : ~IsLinkOfCur(deferments[h])
             /\ deferments' = SubSeq(deferments, p + 1, Last)
             /\ Toss
             /\ UNCHANGED <<target, locked>>
          \/ \E h \in p + 1 .. Last :
               /\ Heir(p, h)
               /\ target' = deferments[h]
               /\ deferments' = Without(p, h)
               /\ locked' = TRUE
               /\ phase' = "regular"
               /\ UNCHANGED consumed
  /\ UNCHANGED <<archive, options, disk, next, cur, lost, status>>

(* get_link_name reads the name a symbolic link points to, unless it is    *)
(* too long.  list_file does so to show it, and then skips the contents.   *)
LongName == size[cur] > LinkMax
LinkName == IF LongName THEN 0 ELSE size[cur]

ListFile ==
  /\ Dispatch
  /\ cur \notin unwanted
  /\ mode = "list"
  /\ consumed' = Tossed + IF verbose /\ kind[cur] = "lnk" THEN LinkName ELSE 0
  /\ phase' = "header"
  /\ UNCHANGED <<archive, options, disk, next, cur, target, deferments,
                 locked, lost, status>>

(* --append and --only-verify-crc read over the entry.                     *)
PassOver ==
  /\ Dispatch
  /\ cur \notin unwanted
  /\ mode \in {"verify", "append"}
  /\ Toss
  /\ UNCHANGED <<archive, options, disk, next, cur, target, deferments,
                 locked, lost, status>>

(* --rename opens the terminal and --rename-batch-file a file: the call of *)
(* query_rename unwraps all of them, of which some were not opened.        *)
QueryRename ==
  /\ Dispatch
  /\ cur \notin unwanted
  /\ mode = "rename"
  /\ status' = "panic"
  /\ UNCHANGED <<archive, options, disk, next, cur, consumed, target,
                 deferments, locked, lost, phase>>

-------------------------------------------------------------------------------
(* try_existing_file                                                       *)
Extracting == Dispatch /\ cur \notin unwanted /\ mode \in {"extract", "stdout"}
Exists == mode = "extract" /\ disk[cur] # Absent
SameDir == cur \in oldDir /\ kind[cur] = "dir"

ProtectedOlder ==  \* Mistake: the times are compared the wrong way
  Exists /\ ~SameDir /\ ~unconditional /\ cur \notin newer

Protected == Exists /\ ~SameDir /\ ~unconditional /\ cur \in newer

KeepOld ==
  /\ Extracting
  /\ Protected
  /\ Toss
  /\ UNCHANGED <<archive, options, disk, next, cur, target, deferments,
                 locked, lost, status>>

(* The old file is removed.  When a directory cannot be removed nothing is *)
(* said; for a file the entry is skipped, and then extracted all the same. *)
TryExisting ==
  /\ Extracting
  /\ ~Protected
  /\ phase' = "create"
  /\ \/ /\ ~Exists \/ SameDir
        /\ UNCHANGED <<disk, consumed>>
     \/ /\ Exists /\ ~SameDir
        /\ disk' = [disk EXCEPT ![cur] = Absent]
        /\ UNCHANGED consumed
     \/ /\ Exists /\ ~SameDir /\ faults
        /\ consumed' = IF cur \in oldDir THEN consumed ELSE consumed + Tossed
        /\ UNCHANGED disk
  /\ UNCHANGED <<archive, options, next, cur, target, deferments, locked,
                 lost, status>>

(* copyin_file, by the type of the entry                                   *)
Creating(k) == Running /\ phase = "create" /\ kind[cur] = k

Deferred == IsLinked(cur) /\ mode = "extract" /\ size[cur] = 0

DeferCopyin ==
  /\ Creating("reg")
  /\ Deferred
  /\ deferments' = <<cur>> \o deferments
  /\ Toss
  /\ UNCHANGED <<archive, options, disk, next, cur, target, locked, lost, status>>

BeginRegularLocked ==  \* Mistake: the guard of the deferments is kept
  /\ Creating("reg")
  /\ ~Deferred
  /\ phase' = "regular"
  /\ locked' = TRUE
  /\ UNCHANGED <<archive, options, disk, next, cur, consumed, target,
                 deferments, lost, status>>

BeginRegular ==
  /\ Creating("reg")
  /\ ~Deferred
  /\ phase' = "regular"
  /\ UNCHANGED <<archive, options, disk, next, cur, consumed, target,
                 deferments, locked, lost, status>>

(* cpio_create_dir and copyin_device, which consume nothing; a fifo or a   *)
(* socket is an unknown file type.  mknod is given the address of a name   *)
(* that is freed already, and may make the node, or make none of that name.*)
CreateNode ==
  /\ \E k \in {"dir", "dev", "fifo"} : Creating(k)
  /\ \/ /\ kind[cur] # "fifo" /\ mode = "extract" /\ disk[cur] = Absent
        /\ disk' = [disk EXCEPT ![cur] = cur]
     \/ /\ faults \/ kind[cur] # "dir" \/ mode = "stdout" \/ disk[cur] # Absent
        /\ UNCHANGED disk
  /\ phase' = "header"
  /\ UNCHANGED <<archive, options, next, cur, consumed, target, deferments,
                 locked, lost, status>>

(* copyin_link, also with --to-stdout: the contents are the target.  Some  *)
(* errors of symlink are ignored, the others end the process.              *)
CopyinLink ==
  /\ Creating("lnk")
  /\ consumed' = consumed + LinkName
  /\ phase' = "header"
  /\ \/ /\ ~LongName /\ disk[cur] = Absent
        /\ disk' = [disk EXCEPT ![cur] = cur]
        /\ UNCHANGED status
     \/ /\ LongName \/ faults \/ disk[cur] # Absent
        /\ UNCHANGED <<disk, status>>
     \/ /\ ~LongName /\ faults
        /\ status' = "failed"
        /\ UNCHANGED disk
  /\ UNCHANGED <<archive, options, next, cur, target, deferments, locked, lost>>

-------------------------------------------------------------------------------
(* copyin_regular_file.  The descriptor is opened without O_EXCL.          *)
Regular == Running /\ phase = "regular"

OpenError ==
  /\ Regular
  /\ mode = "extract"
  /\ faults \/ (disk[target] = Old /\ target \in oldDir)
  /\ Toss
  /\ locked' = FALSE
  /\ UNCHANGED <<archive, options, disk, next, cur, target, deferments, lost, status>>

CopyinRegular ==
  /\ Regular
  /\ ~(mode = "extract" /\ disk[target] = Old /\ target \in oldDir)
  /\ Told >= 0
  /\ consumed' = consumed + Told
  /\ disk' = IF mode = "extract" THEN [disk EXCEPT ![target] = cur] ELSE disk
  /\ IF IsLinked(cur) /\ mode = "extract"
     THEN phase' = "links" /\ UNCHANGED locked
     ELSE phase' = "header" /\ locked' = FALSE
  /\ UNCHANGED <<archive, options, next, cur, target, deferments, lost, status>>

(* A negative size is cast to more than any archive holds: the file gets   *)
(* the rest of it, and the process ends.                                   *)
CopyTheRest ==
  /\ Regular
  /\ ~(mode = "extract" /\ disk[target] = Old /\ target \in oldDir)
  /\ Told < 0
  /\ disk' = IF mode = "extract" THEN [disk EXCEPT ![target] = cur] ELSE disk
  /\ status' = "exit"
  /\ UNCHANGED <<archive, options, next, cur, consumed, target, deferments,
                 locked, lost, phase>>

(* A write or a seek fails, and the process ends; with --to-stdout the     *)
(* first file has closed the output.                                       *)
WriteFails ==
  /\ Regular
  /\ faults \/ mode = "stdout"
  /\ status' = "failed"
  /\ UNCHANGED <<archive, options, disk, next, cur, consumed, target,
                 deferments, locked, lost, phase>>

(* create_defered_links takes the mutex of the deferments, and makes every *)
(* deferred link of the file, from the head on.                            *)
Linking == Running /\ phase = "links" /\ ~locked

LinkDeferred ==
  /\ Linking
  /\ \E h \in 1 .. Last :
       LET d == deferments[h]
       IN  /\ Heir(0, h)
           /\ deferments' = Without(0, h)
           /\ \/ /\ disk[d] = Absent
                 /\ disk' = [disk EXCEPT ![d] = disk[target]]
              \/ /\ faults \/ disk[d] # Absent
                 /\ UNCHANGED disk
  /\ UNCHANGED <<archive, options, next, cur, consumed, target, locked, lost,
                 phase, status>>

AllLinked ==
  /\ Linking
  /\ \A h \in 1 .. Last : ~IsLinkOfCur(deferments[h])
  /\ phase' = "header"
  /\ UNCHANGED <<archive, options, disk, next, cur, consumed, target,
                 deferments, locked, lost, status>>

(* create_final_defers: the names that are left become empty files.        *)
CreateFinalDefers ==
  /\ Running
  /\ phase = "final"
  /\ disk' = IF newc /\ mode # "append"
             THEN [d \in Entries |->
                     IF IsDeferred(d) /\ disk[d] = Absent THEN d ELSE disk[d]]
             ELSE disk
  /\ phase' = "done"
  /\ UNCHANGED <<archive, options, next, cur, consumed, target, deferments,
                 locked, lost, status>>

Next == \/ ReadInHeader
        \/ Premature
        \/ ReadTrailer
        \/ SkipEntry
        \/ SkipLinked
        \/ ListFile
        \/ PassOver
        \/ QueryRename
        \/ KeepOld
        \/ TryExisting
        \/ DeferCopyin
        \/ BeginRegular
        \/ CreateNode
        \/ CopyinLink
        \/ OpenError
        \/ CopyinRegular
        \/ CopyTheRest
        \/ WriteFails
        \/ LinkDeferred
        \/ AllLinked
        \/ CreateFinalDefers

Spec == Init /\ [][Next]_vars

(* The program runs until it ends.                                         *)
FairSpec == Spec /\ WF_vars(Next)

-------------------------------------------------------------------------------
TypeOK ==
  /\ kind \in [Entries -> Kinds]
  /\ ino \in [Entries -> Inodes]
  /\ size \in [Entries -> Sizes \cup {0}]
  /\ linked \in [Inodes -> BOOLEAN]
  /\ newc \in BOOLEAN
  /\ mode \in Modes
  /\ verbose \in BOOLEAN
  /\ unconditional \in BOOLEAN
  /\ unwanted \subseteq Entries
  /\ newer \subseteq Entries
  /\ oldDir \subseteq Entries
  /\ faults \in BOOLEAN
  /\ disk \in [Entries -> {Absent, Old} \cup Entries]
  /\ next \in 1 .. N + 2
  /\ cur \in 0 .. N
  /\ consumed \in Nat
  /\ target \in 0 .. N
  /\ deferments \in Seq(Entries)
  /\ locked \in BOOLEAN
  /\ lost \subseteq Entries
  /\ phase \in {"header", "dispatch", "create", "regular", "links", "final", "done"}
  /\ status \in {"running", "exit", "panic", "failed"}

(* When the next header is read the contents of the entry before it have   *)
(* been taken, neither more nor less.                                      *)
InStep == phase = "header" /\ cur # 0 => consumed = size[cur]

(* doc/cpio.md:14, 49 and 188: the contents of the archive are listed, and *)
(* extracted.  No entry of it is missed.                                   *)
EveryEntrySeen == lost = {} /\ status # "exit"

(* Sizes of 2 GiB and more, and names of links over 1 MiB.                 *)
Oversized(k) == size[k] >= Half \/ (kind[k] = "lnk" /\ size[k] > LinkMax)

AllFit == \A k \in Entries : ~Oversized(k)

(* Along every way through the code the reader keeps its place, so long as *)
(* no entry is oversized, no verbose listing is asked for and the system   *)
(* refuses nothing.                                                        *)
KeepsItsPlace == ~faults /\ ~verbose /\ AllFit => InStep /\ EveryEntrySeen

(* A name gets the contents of its own file: links are made only between   *)
(* entries of one inode, whatever was deferred in between.                 *)
LinksOfOneFile ==
  \A k \in Entries : disk[k] \in Entries => ino[disk[k]] = ino[k]

(* A deferred link ends as a link of the file with the contents.           *)
LinksResolved ==
  phase = "done" /\ mode = "extract" /\ newc /\ ~faults /\ unwanted = {} =>
    \A j, k \in Entries :
      /\ j < k /\ ino[j] = ino[k] /\ kind[j] = "reg"
      /\ size[j] = 0 /\ size[k] > 0
      /\ disk[j] # Old /\ disk[k] # Old
      => \E h \in j .. k : disk[j] = h /\ size[h] > 0

(* doc/cpio.md:188-190: an old file not older than the entry is left       *)
(* alone, by the deferred links too.                                       *)
OldKept ==
  [][\A k \in Entries :
       disk[k] = Old /\ k \in newer /\ ~unconditional => disk'[k] = Old]_vars

(* doc/cpio.md:303: the files whose names match a pattern are copied from  *)
(* the archive.  A wanted link of a file has the contents, though the      *)
(* entry with them is skipped.                                             *)
WantedLinksHaveContents ==
  phase = "done" /\ mode = "extract" /\ newc /\ ~faults =>
    \A j, k \in Entries :
      /\ j < k /\ ino[j] = ino[k] /\ kind[j] = "reg"
      /\ size[j] = 0 /\ size[k] > 0
      /\ j \notin unwanted /\ disk[j] # Old
      => disk[j] \in Entries /\ size[disk[j]] > 0

(* The extraction ends; when no entry is excluded by a pattern, the        *)
(* deferments are never waited for.                                        *)
Terminates == <>(phase = "done" \/ ~Running)
TerminatesUnfiltered == unwanted = {} => Terminates
===============================================================================
