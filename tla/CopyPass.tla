------------------------------- MODULE CopyPass -------------------------------
(***************************************************************************)
(* process_copy_pass (copypass.rs): each file of the list of names is      *)
(* linked or copied below the output directory.  The file is looked at     *)
(* with stat first; its size then says how much is copied, while another   *)
(* process may shorten it.  An old file of the output name is kept or      *)
(* removed first.                                                          *)
(*                                                                         *)
(* The size of a file is counted in reads of the copy loop.  It is cast to *)
(* a signed word and back.  ExtractTree models the modes of directories.   *)
(***************************************************************************)
EXTENDS Casts, Sequences, InodeTable

CONSTANTS
  Names,      \* file names
  Inodes,     \* of the files that are copied, numbers greater than zero
  Kinds,      \* among "reg", "dir" and "node"
  Sizes,      \* of regular files
  MaxList,    \* longest list of names
  Faults      \* the choices of faults

ASSUME CopyPassAssumption ==
  /\ Inodes \subseteq Nat \ {0}
  /\ NoName \notin Names
  /\ Kinds \subseteq {"reg", "dir", "node"}
  /\ Sizes \subseteq Nat
  /\ MaxList \in Nat
  /\ Faults \subseteq BOOLEAN

VARIABLES
  inode, kind, size,    \* the files, size as it is now
  linked,               \* inodes with st_nlink > 1
  list,                 \* the names on the standard input
  link, unconditional, createDir,  \* --link, -u, -d
  same,                 \* the output directory is the one of the input
  orphan,               \* names of which the output has no directory yet
  newer,                \* names of which an output is not older than the file
  faults,               \* calls may fail
  at,                   \* the line that is read next
  stated,               \* in_file_stat.len() of the file in hand
  dst,                  \* what is below the output directory
  data,                 \* what was written: bytes of the file, and zeros
  left,                 \* num_bytes of the copy that runs
  table,                \* HASH_TABLE
  failed,               \* names given up with a message
  phase, status

given == <<inode, kind, linked, list, link, unconditional, createDir, same,
           newer, faults>>
vars == <<given, size, orphan, at, stated, dst, data, left, table, failed,
          phase, status>>

States == {"absent", "oldFile", "oldDir", "dir", "node", "link", "copy"}
NoData == [bytes |-> 0, zeros |-> 0]

(* When the output directory is the one of the input, the output of a name *)
(* is its input.                                                           *)
Own(n) == IF kind[inode[n]] = "dir" THEN "oldDir" ELSE "oldFile"

Init ==
  /\ inode \in [Names -> Inodes]
  /\ kind \in [Inodes -> Kinds]
  /\ size \in [Inodes -> Sizes]
  /\ \A i \in Inodes : kind[i] # "reg" => \A s \in Sizes : size[i] <= s
  /\ linked = {i \in Inodes : \E m, n \in Names : m # n /\ inode[m] = i /\ inode[n] = i}
  /\ \A i \in linked : kind[i] # "dir"
  /\ list \in UNION {[1 .. k -> Names] : k \in 0 .. MaxList}
  /\ link \in BOOLEAN
  /\ unconditional \in BOOLEAN
  /\ createDir \in BOOLEAN
  /\ same \in BOOLEAN
  /\ dst \in [Names -> {"absent", "oldFile", "oldDir"}]
  /\ same => \A n \in Names : dst[n] = Own(n)
  /\ orphan \in {{}} \cup {{n} : n \in {n \in Names : dst[n] = "absent"}}
  /\ newer \in SUBSET Names
  /\ same => newer = Names
  /\ faults \in Faults
  /\ at = 1
  /\ stated = 0
  /\ data = [n \in Names |-> NoData]
  /\ left = 0
  /\ table = {}
  /\ failed = {}
  /\ phase = "list"
  /\ status = "running"

-------------------------------------------------------------------------------
Running == status = "running"
Cur == list[at]
KindOfCur == kind[inode[Cur]]
Exists == dst[Cur] # "absent"
IsDir == dst[Cur] \in {"oldDir", "dir"}
BothDirs == IsDir /\ KindOfCur = "dir"

(* The file itself was removed, as the old output of its name.             *)
Gone(n) == same /\ dst[n] = "absent"

NextName == phase' = "list" /\ at' = at + 1
GiveUpSilently == UNCHANGED failed /\ NextName  \* Mistake: no message
GiveUp == failed' = failed \cup {Cur} /\ NextName

(* ds_fgetstr finds the end of the list; the program ends.                 *)
EndOfNames ==
  /\ Running
  /\ phase = "list"
  /\ at > Len(list)
  /\ phase' = "done"
  /\ UNCHANGED <<given, size, orphan, at, stated, dst, data, left, table,
                 failed, status>>

HasName == Running /\ phase = "list" /\ at <= Len(list)

(* stat_error                                                              *)
StatFails ==
  /\ HasName
  /\ faults \/ Gone(Cur)
  /\ GiveUp
  /\ UNCHANGED <<given, size, orphan, stated, dst, data, left, table, status>>

ProtectedOlder ==  \* Mistake: the times are compared the wrong way
  Exists /\ ~BothDirs /\ ~unconditional /\ Cur \notin newer

(* A link is as old as the file it is a link of.                           *)
Protected == /\ Exists
             /\ ~BothDirs
             /\ ~unconditional
             /\ Cur \in newer \/ dst[Cur] = "link"

NotCreated ==
  /\ HasName
  /\ ~Gone(Cur)
  /\ Protected
  /\ GiveUp
  /\ UNCHANGED <<given, size, orphan, stated, dst, data, left, table, status>>

InTheWay == Exists /\ ~BothDirs /\ ~Protected

(* remove_dir removes only an empty directory.                             *)
CannotRemove ==
  /\ HasName
  /\ ~Gone(Cur)
  /\ InTheWay
  /\ IsDir \/ faults
  /\ GiveUp
  /\ UNCHANGED <<given, size, orphan, stated, dst, data, left, table, status>>

(* What is in the way is removed.                                          *)
Begin ==
  /\ HasName
  /\ ~Gone(Cur)
  /\ ~Protected
  /\ phase' = "make"
  /\ stated' = size[inode[Cur]]
  /\ IF InTheWay
     THEN /\ dst' = [dst EXCEPT ![Cur] = "absent"]
          /\ data' = [data EXCEPT ![Cur] = NoData]
     ELSE UNCHANGED <<dst, data>>
  /\ UNCHANGED <<given, size, orphan, at, left, table, failed, status>>

-------------------------------------------------------------------------------
Making(k) == Running /\ phase = "make" /\ KindOfCur = k

(* create_all_directories, for -d                                          *)
ParentMissing == Cur \in orphan
MakeParents == orphan' = IF createDir THEN orphan \ {Cur} ELSE orphan
NoParent == ParentMissing /\ ~createDir

(* link_to_name: the system may refuse the link, so to another device.     *)
LinkToName ==
  /\ \E k \in {"reg", "node"} : Making(k)
  /\ link
  /\ ~Gone(Cur) /\ ~NoParent
  /\ dst' = [dst EXCEPT ![Cur] = "link"]
  /\ MakeParents
  /\ NextName
  /\ UNCHANGED <<given, size, stated, data, left, table, failed, status>>

(* link_to_maj_min_ino, which finds nothing and enters the name            *)
MayCopyLinked == TRUE  \* Mistake: the result of the link is not looked at
MayCopy == ~link \/ Gone(Cur) \/ NoParent \/ faults
LinkToMajMinIno ==
  IF inode[Cur] \in linked
  THEN /\ FindInodeFile(table, inode[Cur]) = {}
       /\ table' = AddInode(table, inode[Cur], Cur, FALSE, 0)
  ELSE UNCHANGED table

(* The parents were made for the link already.                             *)
ParentsAfterLink == IF link THEN MakeParents ELSE UNCHANGED orphan

CannotOpenInput ==
  /\ Making("reg")
  /\ MayCopy
  /\ faults \/ Gone(Cur)
  /\ LinkToMajMinIno
  /\ ParentsAfterLink
  /\ GiveUp
  /\ UNCHANGED <<given, size, stated, dst, data, left, status>>

(* Without -d a missing directory is a message and the next name.  With    *)
(* -d the error of the second try is returned, and ends the program.       *)
CannotCreate ==
  /\ Making("reg")
  /\ MayCopy
  /\ ~Gone(Cur)
  /\ ParentMissing \/ faults
  /\ LinkToMajMinIno
  /\ IF createDir
     THEN /\ faults
          /\ status' = "aborted"
          /\ UNCHANGED <<failed, phase, at>>
     ELSE GiveUp /\ UNCHANGED status
  /\ UNCHANGED <<given, size, orphan, stated, dst, data, left>>

OpenBoth ==
  /\ Making("reg")
  /\ MayCopy
  /\ ~Gone(Cur) /\ ~NoParent
  /\ LinkToMajMinIno
  /\ MakeParents
  /\ dst' = [dst EXCEPT ![Cur] = "copy"]
  /\ data' = [data EXCEPT ![Cur] = NoData]
  /\ left' = AsUsize(AsI32(stated))
  /\ phase' = "copy"
  /\ UNCHANGED <<given, size, at, stated, failed, status>>

-------------------------------------------------------------------------------
(* copy_files_disk_to_disk                                                 *)
Copying == Running /\ phase = "copy"
Written == data[Cur].bytes
Available == size[inode[Cur]] - Written

Least(S) == CHOOSE x \in S : \A y \in S : x <= y

CopyChunk ==
  /\ Copying
  /\ left > 0
  /\ Available > 0
  /\ \E r \in 1 .. Least({left, Available}) :
       /\ data' = [data EXCEPT ![Cur].bytes = Written + r]
       /\ left' = left - r
  /\ UNCHANGED <<given, size, orphan, at, stated, dst, table, failed, phase, status>>

(* The file was shortened, or cannot be read: zeros take the place of what *)
(* is missing.                                                             *)
PadAll == stated  \* Mistake: as many zeros as the file was long
Pad == left

PadWithZeros ==
  /\ Copying
  /\ left > 0
  /\ Available <= 0 \/ faults
  /\ data' = [data EXCEPT ![Cur].zeros = Pad]
  /\ left' = 0
  /\ UNCHANGED <<given, size, orphan, at, stated, dst, table, failed, phase, status>>

(* set_copypass_perms and the times                                        *)
Copied ==
  /\ Copying
  /\ left = 0
  /\ NextName
  /\ UNCHANGED <<given, size, orphan, stated, dst, data, left, table, failed, status>>

(* cpio_create_dir                                                         *)
MakeDir ==
  /\ Making("dir")
  /\ \/ /\ Exists \/ ~NoParent
        /\ dst' = IF Exists THEN dst ELSE [dst EXCEPT ![Cur] = "dir"]
        /\ IF Exists THEN UNCHANGED orphan ELSE MakeParents
        /\ NextName
        /\ UNCHANGED failed
     \/ /\ ~Exists
        /\ NoParent \/ faults
        /\ GiveUp
        /\ UNCHANGED <<dst, orphan>>
  /\ UNCHANGED <<given, size, stated, data, left, table, status>>

(* mknod is given a name without its terminator, and may make the node, or *)
(* none of that name.                                                      *)
MakeNode ==
  /\ Making("node")
  /\ MayCopy
  /\ LinkToMajMinIno
  /\ \/ /\ ~NoParent
        /\ dst' = [dst EXCEPT ![Cur] = "node"]
        /\ MakeParents
        /\ NextName
        /\ UNCHANGED failed
     \/ /\ GiveUp
        /\ MakeParents
        /\ UNCHANGED dst
  /\ UNCHANGED <<given, size, stated, data, left, status>>

(* Another process shortens or extends the file that is copied.            *)
OtherWrites ==
  /\ Running
  /\ phase \in {"make", "copy"}
  /\ KindOfCur = "reg"
  /\ \E s \in Sizes \ {size[inode[Cur]]} : size' = [size EXCEPT ![inode[Cur]] = s]
  /\ UNCHANGED <<given, orphan, at, stated, dst, data, left, table, failed,
                 phase, status>>

(* The program's own steps                                                 *)
Step == \/ EndOfNames
        \/ StatFails
        \/ NotCreated
        \/ CannotRemove
        \/ Begin
        \/ LinkToName
        \/ CannotOpenInput
        \/ CannotCreate
        \/ OpenBoth
        \/ CopyChunk
        \/ PadWithZeros
        \/ Copied
        \/ MakeDir
        \/ MakeNode

Next == Step \/ OtherWrites

Spec == Init /\ [][Next]_vars

-------------------------------------------------------------------------------
TypeOK ==
  /\ inode \in [Names -> Inodes]
  /\ kind \in [Inodes -> Kinds]
  /\ size \in [Inodes -> Sizes]
  /\ linked \subseteq Inodes
  /\ list \in Seq(Names)
  /\ <<link, unconditional, createDir, same, faults>>
       \in BOOLEAN \X BOOLEAN \X BOOLEAN \X BOOLEAN \X BOOLEAN
  /\ orphan \subseteq Names
  /\ newer \subseteq Names
  /\ at \in 1 .. Len(list) + 1
  /\ stated \in Nat
  /\ dst \in [Names -> States]
  /\ data \in [Names -> [bytes : Nat, zeros : Nat]]
  /\ left \in Nat
  /\ failed \subseteq Names
  /\ phase \in {"list", "make", "copy", "done"}
  /\ status \in {"running", "aborted"}
  /\ phase \in {"make", "copy"} => at <= Len(list)

(* The copy is as long as the file was when stat saw it, whatever happens  *)
(* to the file meanwhile: what is copied, padded and still to come add up. *)
(* (Below the size that the signed word of copypass.rs:220 takes for       *)
(* negative.)                                                              *)
SizeAsStated ==
  Copying /\ stated < Half =>
    data[Cur].bytes + data[Cur].zeros + left = stated

(* doc/cpio.md: files are copied from one directory tree to another.  A    *)
(* copy that is finished has the size of the file, however large it is.    *)
WholeCopy ==
  Copying /\ left = 0 => data[Cur].bytes + data[Cur].zeros = stated

(* Copying never costs a file of the input, not even when the output is    *)
(* the same directory, unless -u says that all may be replaced.            *)
SourcesKept == ~(same /\ unconditional) => \A n \in Names : ~Gone(n)

(* With --link nothing is copied so long as the system refuses no link.    *)
LinkedNotCopied ==
  link /\ ~faults /\ ~same => \A n \in Names : dst[n] \notin {"copy", "node"}

(* When the program ends, a name of the list has an output or was given up *)
(* with a message.                                                         *)
NoNameForgotten ==
  phase = "done" =>
    \A k \in 1 .. Len(list) : list[k] \in failed \/ dst[list[k]] # "absent"

(* doc/cpio.md: an old output that is not older than the file is left as   *)
(* it is, if -u was not given.                                             *)
NewerKept ==
  [][\A n \in newer :
       dst[n] \in {"oldFile", "oldDir"} /\ ~unconditional => dst'[n] = dst[n]]_vars
===============================================================================
