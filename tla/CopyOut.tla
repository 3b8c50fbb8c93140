-------------------------------- MODULE CopyOut --------------------------------
(***************************************************************************)
(* process_copy_out (copyout.rs): for each name of the list on the         *)
(* standard input, a header and the contents of the file are written.      *)
(* With -c (the newc format) a file with several links is written once:    *)
(* its names are deferred until the last of its links comes, which gets    *)
(* the contents; what is still deferred when the list ends is written      *)
(* after it.                                                               *)
(*                                                                         *)
(* The archive is the sequence of its entries; OutputTape models how their *)
(* bytes reach the file, and what a write that fails does.  An entry has   *)
(* the size its header announces and the number of bytes that follow the   *)
(* header.                                                                 *)
(***************************************************************************)
EXTENDS Casts, Sequences, FiniteSets

CONSTANTS
  Names,      \* file names
  Blank,      \* an empty line of the list
  Inodes,     \* files
  Number,     \* their st_ino, which files on two devices may share
  Kinds,      \* among "reg", "lnk" and "node"
  MaxLinks,   \* largest st_nlink
  MaxSize,    \* largest file, in reads of the copy loop
  MaxList,    \* longest list of names
  Faults      \* files vanish, shrink, cannot be opened, do not fit a header

ASSUME CopyOutAssumption ==
  /\ Blank \notin Names
  /\ Kinds \subseteq {"reg", "lnk", "node"}
  /\ MaxLinks \in Nat \ {0}
  /\ MaxSize \in Nat
  /\ Number \in [Inodes -> Nat]
  /\ MaxList \in Nat
  /\ Faults \in BOOLEAN

VARIABLES
  inode, nlink, size, kind,  \* the files, as stat shows them
  deferring,    \* the format is newc or crc
  renumber, ignoreDevno,     \* options, both set by --device-independent
  list,         \* the lines of the standard input
  at,           \* the line ds_fgetstr reads next
  deferments,   \* GLOBAL_DEFERMENTS
  final,        \* the index of writeout_final_defers
  archive,      \* the entries written
  left,         \* num_bytes of the copy that runs
  counted,      \* NEXT_INODE is above 0
  zero,         \* the file that got the number 0, if it has other links
  dropped,      \* names given up with a message, or silently
  phase, status

files == <<inode, nlink, size, kind, deferring, renumber, ignoreDevno, list>>
numbers == <<counted, zero>>
vars == <<files, at, deferments, final, archive, left, numbers, dropped, phase, status>>

Running == status = "running"

Init ==
  /\ inode \in [Names -> Inodes]
  /\ nlink \in [Inodes -> 1 .. MaxLinks]
  /\ \A i \in Inodes : nlink[i] >= Cardinality({n \in Names : inode[n] = i})
  /\ size \in [Inodes -> 0 .. MaxSize]
  /\ kind \in [Inodes -> Kinds]
  /\ \A i \in Inodes : kind[i] # "reg" => size[i] = 0
  /\ deferring \in BOOLEAN
  /\ renumber \in BOOLEAN
  /\ ignoreDevno \in BOOLEAN
  /\ list \in UNION {[1 .. k -> Names \cup {Blank}] : k \in 0 .. MaxList}
  /\ at = 1
  /\ deferments = << >>
  /\ final = 1
  /\ archive = << >>
  /\ left = 0
  /\ counted = FALSE
  /\ zero = {}
  /\ dropped = << >>
  /\ phase = "list"
  /\ status = "running"

-------------------------------------------------------------------------------
(* write_out_header writes the whole header or, when a value does not fit  *)
(* its field, nothing.  It is called with size zero for a deferred link.   *)
Entry(n, s) == [name |-> n, size |-> s, body |-> 0]

(* get_inode_and_dev.  With --renumber-inodes each header gets the next    *)
(* number, unless find_inode_val finds the record of its file.  It finds   *)
(* only the one with the number 0 (InodeTable): that of a linked file      *)
(* whose name was the first of all.                                        *)
CountInode(n) ==
  IF renumber /\ ~counted
  THEN /\ counted' = TRUE
       /\ zero' = IF nlink[inode[n]] > 1 THEN {inode[n]} ELSE {}
  ELSE UNCHANGED numbers

(* The headers of two names have one number and one device.                *)
SameInode(i, j) ==
  IF renumber THEN i = j /\ i \in zero
  ELSE i = j \/ (ignoreDevno /\ Number[i] = Number[j])

DeferredTo(i) == {k \in 1 .. Len(deferments) : SameInode(inode[deferments[k]], i)}

(* c_nlink == count_defered_links_to_dev_ino() + 1                         *)
LastLinkLate(n) ==  \* Mistake: the link in hand is not counted
  nlink[inode[n]] = Cardinality(DeferredTo(inode[n]))

LastLink(n) == nlink[inode[n]] = Cardinality(DeferredTo(inode[n])) + 1

IsLinked(n) == deferring /\ nlink[inode[n]] > 1

(* writeout_other_defers walks the deferments from the first to the last,  *)
(* and writes and removes the links of a file.                             *)
LinksTo(i) == {n \in Names : SameInode(inode[n], i)}
Among(s, some) ==
  LET walked[k \in 0 .. Len(s)] ==
        IF k = 0 THEN << >>
        ELSE IF s[k] \in some THEN Append(walked[k - 1], s[k])
        ELSE walked[k - 1]
  IN  walked[Len(s)]

OtherNames(n) ==  \* Mistake: a name that is listed twice is not another link
  Among(deferments, LinksTo(inode[n]) \ {n})

OtherDefers(n) == Among(deferments, LinksTo(inode[n]))
Remaining(n) == Among(deferments, Names \ LinksTo(inode[n]))
HeadersOf(names) == [k \in 1 .. Len(names) |-> Entry(names[k], 0)]

(* ds_fgetstr returns None at the end of the list and for an empty line.   *)
EndOfNames ==
  /\ Running
  /\ phase = "list"
  /\ at > Len(list) \/ (at <= Len(list) /\ list[at] = Blank)
  /\ phase' = "final"
  /\ UNCHANGED <<files, at, deferments, final, archive, left, numbers, dropped, status>>

HasName(n) == /\ Running
              /\ phase = "list"
              /\ at <= Len(list)
              /\ list[at] # Blank
              /\ n = list[at]

(* stat fails: stat_error and on to the next name.                         *)
NoSuchFile(n) ==
  /\ HasName(n)
  /\ Faults
  /\ at' = at + 1
  /\ dropped' = Append(dropped, n)
  /\ UNCHANGED <<files, deferments, final, archive, left, numbers, phase, status>>

(* Directories and special files have a header and no contents.  A header  *)
(* that does not fit is not written, and the file is left out.             *)
WriteNode(n) ==
  /\ HasName(n)
  /\ kind[inode[n]] = "node"
  /\ CountInode(n)
  /\ at' = at + 1
  /\ \/ archive' = Append(archive, Entry(n, 0)) /\ UNCHANGED dropped
     \/ Faults /\ dropped' = Append(dropped, n) /\ UNCHANGED archive
  /\ UNCHANGED <<files, deferments, final, left, phase, status>>

(* The contents of a symbolic link are its target, written in one call.    *)
(* When --no-absolute-filenames has shortened the target after its length  *)
(* was taken, the call panics.                                             *)
WriteLink(n) ==
  /\ HasName(n)
  /\ kind[inode[n]] = "lnk"
  /\ CountInode(n)
  /\ \/ /\ archive' = Append(archive, [Entry(n, 1) EXCEPT !.body = 1])
        /\ at' = at + 1
        /\ UNCHANGED <<dropped, status>>
     \/ /\ Faults
        /\ at' = at + 1
        /\ dropped' = Append(dropped, n)
        /\ UNCHANGED <<archive, status>>
     \/ /\ Faults
        /\ archive' = Append(archive, Entry(n, 1))
        /\ status' = "panic"
        /\ UNCHANGED <<at, dropped>>
  /\ UNCHANGED <<files, deferments, final, left, phase>>

(* add_link_defer inserts at the front.                                    *)
DeferLink(n) ==
  /\ HasName(n)
  /\ kind[inode[n]] = "reg"
  /\ IsLinked(n)
  /\ ~LastLink(n)
  /\ CountInode(n)
  /\ at' = at + 1
  /\ deferments' = <<n>> \o deferments
  /\ UNCHANGED <<files, final, archive, left, dropped, phase, status>>

(* A file that is written now.  The other links of its group are written   *)
(* before it is opened; when that fails, or the header does, it is left    *)
(* out.  The size is passed on as a signed word.                           *)
KeptAll(n) == deferments     \* Mistake: they are written and not removed
Preceding(n) == IF IsLinked(n) THEN HeadersOf(OtherDefers(n)) ELSE << >>
Kept(n) == IF IsLinked(n) THEN Remaining(n) ELSE deferments

StartFile(n) ==
  /\ HasName(n)
  /\ kind[inode[n]] = "reg"
  /\ IsLinked(n) => LastLink(n)
  /\ CountInode(n)
  /\ deferments' = Kept(n)
  /\ \/ /\ archive' = archive \o Preceding(n) \o <<Entry(n, size[inode[n]])>>
        /\ left' = AsUsize(AsI32(size[inode[n]]))
        /\ phase' = "copy"
        /\ UNCHANGED <<at, dropped>>
     \/ /\ Faults
        /\ archive' = archive \o Preceding(n)
        /\ at' = at + 1
        /\ dropped' = Append(dropped, n)
        /\ UNCHANGED <<left, phase>>
  /\ UNCHANGED <<files, final, status>>

-------------------------------------------------------------------------------
(* copy_files_disk_to_tape: each iteration copies what was read; a file    *)
(* that ends, or cannot be read, is filled up with nuls.  A file ends      *)
(* early or late when it shrinks or grows.                                 *)
Copying == Running /\ phase \in {"copy", "copyfinal"}
Last == archive[Len(archive)]
GrownByNone(n) == archive  \* Mistake: a short read is not filled up

Grown(n) == [archive EXCEPT ![Len(archive)].body = @ + n]

CopyPiece ==
  /\ Copying
  /\ left > 0
  /\ Last.body < Last.size \/ Faults
  /\ archive' = Grown(1)
  /\ left' = left - 1
  /\ UNCHANGED <<files, at, deferments, final, numbers, dropped, phase, status>>

PadWithNuls ==
  /\ Copying
  /\ left > 0
  /\ Last.body >= Last.size \/ Faults
  /\ archive' = Grown(left)
  /\ left' = 0
  /\ UNCHANGED <<files, at, deferments, final, numbers, dropped, phase, status>>

Copied ==
  /\ Copying
  /\ left = 0
  /\ IF phase = "copy"
     THEN phase' = "list" /\ at' = at + 1 /\ UNCHANGED final
     ELSE phase' = "final" /\ final' = final + 1 /\ UNCHANGED at
  /\ UNCHANGED <<files, deferments, archive, left, numbers, dropped, status>>

-------------------------------------------------------------------------------
(* writeout_final_defers: the deferments are counted and not removed.      *)
HasFinal(n) == /\ Running
               /\ phase = "final"
               /\ final <= Len(deferments)
               /\ n = deferments[final]

AloneDeferred(n) == Cardinality(DeferredTo(inode[n]) \cup {final}) = 1

FinalLink(n) ==
  /\ HasFinal(n)
  /\ ~AloneDeferred(n)
  /\ archive' = Append(archive, Entry(n, 0))
  /\ final' = final + 1
  /\ UNCHANGED <<files, at, deferments, left, numbers, dropped, phase, status>>

(* writeout_defered_file: open(..).unwrap() panics when the file is gone.  *)
FinalFile(n) ==
  /\ HasFinal(n)
  /\ AloneDeferred(n)
  /\ \/ /\ archive' = Append(archive, Entry(n, size[inode[n]]))
        /\ left' = AsUsize(AsI32(size[inode[n]]))
        /\ phase' = "copyfinal"
        /\ UNCHANGED <<final, dropped, status>>
     \/ /\ Faults
        /\ final' = final + 1
        /\ dropped' = Append(dropped, n)
        /\ UNCHANGED <<archive, left, phase, status>>
     \/ /\ Faults
        /\ status' = "panic"
        /\ UNCHANGED <<archive, final, left, dropped, phase>>
  /\ UNCHANGED <<files, at, deferments, numbers>>

Trailer ==
  /\ Running
  /\ phase = "final"
  /\ final > Len(deferments)
  /\ phase' = "done"
  /\ UNCHANGED <<files, at, deferments, final, archive, left, numbers, dropped, status>>

ForName(n) == \/ NoSuchFile(n)
              \/ WriteNode(n)
              \/ WriteLink(n)
              \/ DeferLink(n)
              \/ StartFile(n)
              \/ FinalLink(n)
              \/ FinalFile(n)

Next == \/ EndOfNames
        \/ \E n \in Names : ForName(n)
        \/ CopyPiece
        \/ PadWithNuls
        \/ Copied
        \/ Trailer

Spec == Init /\ [][Next]_vars

-------------------------------------------------------------------------------
TypeOK ==
  /\ inode \in [Names -> Inodes]
  /\ nlink \in [Inodes -> 1 .. MaxLinks]
  /\ size \in [Inodes -> 0 .. MaxSize]
  /\ kind \in [Inodes -> Kinds]
  /\ deferring \in BOOLEAN
  /\ renumber \in BOOLEAN
  /\ ignoreDevno \in BOOLEAN
  /\ list \in Seq(Names \cup {Blank})
  /\ at \in Nat \ {0}
  /\ deferments \in Seq(Names)
  /\ final \in Nat \ {0}
  /\ archive \in Seq([name : Names, size : Nat, body : Nat])
  /\ left \in Nat
  /\ counted \in BOOLEAN
  /\ zero \in SUBSET Inodes
  /\ dropped \in Seq(Names)
  /\ phase \in {"list", "copy", "final", "copyfinal", "done"}
  /\ status \in {"running", "panic"}

MatchesHeader(k) ==
  archive[k].body = archive[k].size - (IF Copying /\ k = Len(archive) THEN left ELSE 0)

(* Every header is followed by as many bytes as it announces, whatever     *)
(* happens to the file while it is copied: the reader of the archive finds *)
(* the next header where it looks for it.  Files of a size that the signed *)
(* word takes for negative, 2 GiB and more, are excepted.                  *)
EntriesMatchHeaders ==
  Running => \A k \in 1 .. Len(archive) : archive[k].size < Half => MatchesHeader(k)

Times(n, s) == Cardinality({k \in 1 .. Len(s) : s[k] = n})
Archived(n) == Cardinality({k \in 1 .. Len(archive) : archive[k].name = n})
Waiting(n) == Cardinality({k \in final .. Len(deferments) : deferments[k] = n})
Read(n) == Times(n, SubSeq(list, 1, at - 1))
           + (IF phase = "copy" /\ list[at] = n THEN 1 ELSE 0)

(* A name that was read is in the archive, waits for the last link of its  *)
(* file, or was given up: moving names between the list, the deferments    *)
(* and the archive neither loses nor repeats one.                          *)
EveryNameAccounted ==
  Running => \A n \in Names :
    Read(n) = Archived(n) + Times(n, dropped)
              + (IF phase = "copyfinal" /\ deferments[final] = n
                 THEN Waiting(n) - 1 ELSE Waiting(n))

(* The headers tell the file from the others.  With --renumber-inodes they *)
(* tell each link from the others, and with --ignore-devno two files with  *)
(* one inode number on two devices are one: what follows excepts both.     *)
Identified(i) ==
  /\ ~renumber
  /\ ignoreDevno => \A j \in Inodes \ {i} : Number[j] # Number[i]

(* The deferred links of a file are fewer than its links, so that the last *)
(* one is recognised when it comes.                                        *)
DeferredBelowLinks ==
  \A i \in Inodes : Identified(i) => Cardinality(DeferredTo(i)) < nlink[i]

(* The contents of a linked file, and the links without contents.          *)
WithData(i) ==
  {k \in 1 .. Len(archive) : inode[archive[k].name] = i /\ archive[k].size > 0}
Listed(i) == Cardinality({k \in 1 .. Len(list) : list[k] # Blank /\ inode[list[k]] = i})

(* Deferring serves to store the contents of a file once.                  *)
ContentsOnce ==
  deferring => \A i \in Inodes :
    Identified(i) /\ kind[i] = "reg" /\ 1 < nlink[i] /\ Listed(i) <= nlink[i] => Cardinality(WithData(i)) <= 1

(* In the archive each link without contents is followed by the contents   *)
(* of the file: the reader links it when they come.                        *)
ContentsFollow(i) ==
  \A k \in 1 .. Len(archive) :
    inode[archive[k].name] = i /\ size[i] > 0 =>
      \E j \in WithData(i) : j >= k

(* A file is archived with its contents when all its links are listed,     *)
(* when one link is, and whenever links are not deferred.                  *)
CompleteGroupsHaveContents ==
  phase = "done" /\ dropped = << >> /\ at > Len(list) =>
    \A i \in Inodes :
      ~deferring \/ (Identified(i) /\ Listed(i) % nlink[i] <= 1) => ContentsFollow(i)

(* doc/cpio.md:222: copy-out archives files.  Of a file of which some      *)
(* links are listed the contents are archived too.                         *)
ContentsArchived ==
  phase = "done" => \A i \in Inodes : ContentsFollow(i)

(* doc/cpio.md:222 knows no limit of size either: as many bytes should     *)
(* follow the header of a file of 2 GiB.  About 2^64 do.                   *)
LargeFilesArchived ==
  Running => \A k \in 1 .. Len(archive) : MatchesHeader(k)
================================================================================
