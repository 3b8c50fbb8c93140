--------------------------- MODULE ExtractTreeProofs ---------------------------
(***************************************************************************)
(* What holds of every extraction, whatever the tree of names, the archive *)
(* and the modes of its directories: an orderly archive is restored, and   *)
(* the leading directories of files are made.                              *)
(***************************************************************************)
EXTENDS ExtractTree, SequenceTheorems, TLAPS

(* The parts of TypeOK                                                     *)
Thing == [type : {"none", "dir", "reg", "lnk", "dev"}, mode : AllModes,
          of : 0 .. Len(archive), ino : 0 .. Len(archive)]
Disks == [Names -> Thing]

ArchiveOK == archive \in Seq(Entry)
PlaceOK == /\ at \in 1 .. Len(archive) + 1
           /\ phase \in {"entries", "replace", "apply", "finals", "done", "exited"}
           /\ kept \subseteq 1 .. Len(archive)
DiskOK == disk \in Disks
DelayedOK == delayed \in Seq([name : Names, mode : DirModes])
LinksOK == /\ DOMAIN delayedLinks \subseteq 1 .. Len(archive)
           /\ delayedLinks \in [DOMAIN delayedLinks -> 1 .. Len(archive)]
DefermentsOK == deferments \in Seq(1 .. Len(archive))

LEMMA TypeParts ==
  TypeOK <=> ArchiveOK /\ PlaceOK /\ DiskOK /\ DelayedOK /\ LinksOK /\ DefermentsOK
BY DEF TypeOK, ArchiveOK, PlaceOK, DiskOK, Disks, Thing, DelayedOK, LinksOK, DefermentsOK

-------------------------------------------------------------------------------
(* The tree                                                                *)
LEMMA ParentIsAbove ==
  ASSUME NEW n \in Names, Above[n] # {}
  PROVE  Parent(n) \in Above[n] /\ Parent(n) \in Names
<1>1. \E p \in Above[n] : \A a \in Above[n] : a = p \/ a \in Above[p]
  BY ExtractTreeAssumption
<1>2. Parent(n) \in Above[n]
  BY <1>1 DEF Parent
<1>3. QED
  BY <1>2, ExtractTreeAssumption

LEMMA AboveIsNames ==
  ASSUME NEW n \in Names
  PROVE  /\ Above[n] \subseteq Names /\ n \notin Above[n]
         /\ \A a \in Above[n] : Above[a] \subseteq Above[n] /\ n \notin Above[a]
BY ExtractTreeAssumption

(* What an entry of the archive is                                         *)
LEMMA EntryFields ==
  ASSUME ArchiveOK, NEW k \in 1 .. Len(archive)
  PROVE  /\ archive[k].name \in Names /\ archive[k].kind \in Kinds
         /\ archive[k].mode \in AllModes
         /\ archive[k].kind = "dir" => archive[k].mode \in DirModes
         /\ archive[k].kind # "dir" => archive[k].mode = {"w"}
<1>1. archive[k] \in Entry
  BY ElementOfSeq DEF ArchiveOK
<1>2. CASE archive[k] \in [name : Names, kind : {"dir"} \cap Kinds, mode : DirModes]
  BY <1>2, ExtractTreeAssumption
<1>3. CASE archive[k] \in [name : Names, kind : Kinds \ {"dir"}, mode : {{"w"}}]
  BY <1>3 DEF AllModes
<1>4. QED
  BY <1>1, <1>2, <1>3 DEF Entry

LEMMA LengthOfArchive == ArchiveOK => Len(archive) \in Nat
BY LenProperties DEF ArchiveOK

-------------------------------------------------------------------------------
(* The operators on the disk                                               *)
LEMMA MadeIsThing ==
  ASSUME ArchiveOK, NEW t \in {"none", "dir", "reg", "lnk", "dev"}, NEW m \in AllModes,
         NEW k \in 0 .. Len(archive), NEW i \in 0 .. Len(archive)
  PROVE  Made(t, m, k, i) \in Thing
BY DEF Made, Thing

LEMMA ConstantThings ==
  ASSUME ArchiveOK
  PROVE  /\ Nothing \in Thing
         /\ Made("dir", {"w", "x"}, 0, 0) \in Thing
         /\ {"w"} \in AllModes /\ {} \in AllModes /\ {"w", "x"} \in AllModes
<1>1. {"w"} \in AllModes /\ {} \in AllModes /\ {"w", "x"} \in AllModes
  BY DEF AllModes
<1>2. 0 \in 0 .. Len(archive)
  BY LengthOfArchive
<1>3. Nothing \in Thing
  BY <1>1, <1>2 DEF Nothing, Thing
<1>4. QED
  BY <1>1, <1>2, <1>3, MadeIsThing

LEMMA MakePathType ==
  ASSUME ArchiveOK, NEW d \in Disks, NEW p \in Names
  PROVE  MakePath(d, p) \in Disks
BY ConstantThings DEF MakePath, Disks

LEMMA RetriedType ==
  ASSUME ArchiveOK, NEW d \in Disks, NEW n \in Names, NEW can \in BOOLEAN
  PROVE  Retried(can, d, n) \in Disks /\ CreateAllDirectories(d, n) \in Disks
<1>1. DirName(n) \in Names
  BY ParentIsAbove DEF DirName
<1>2. QED
  BY <1>1, MakePathType DEF Retried, CreateAllDirectories

LEMMA ClearedType ==
  ASSUME ArchiveOK, DiskOK, NEW found
  PROVE  Cleared(found) \in Disks
BY ConstantThings DEF Cleared, DiskOK, Disks

LEMMA ChmodType ==
  ASSUME NEW d \in Disks, NEW n \in Names, NEW m \in AllModes
  PROVE  Chmod(d, n, m) \in Disks
BY DEF Chmod, Disks, Thing

LEMMA OpenedType ==
  ASSUME ArchiveOK, NEW d \in Disks, NEW n \in Names,
         NEW k \in 0 .. Len(archive), NEW i \in 0 .. Len(archive)
  PROVE  Opened(d, n, k, i) \in Disks
<1>1. d[n] \in Thing
  BY DEF Disks
<1>2. d[n].ino \in 0 .. Len(archive)
  BY <1>1 DEF Thing
<1>3. Made("reg", {"w"}, k, IF d[n].type = "none" THEN i ELSE d[n].ino) \in Thing
  BY <1>2, MadeIsThing, ConstantThings
<1>4. QED
  BY <1>3 DEF Opened, Disks

-------------------------------------------------------------------------------
(* Every variable keeps its type.                                          *)
LEMMA CurFacts ==
  ASSUME ArchiveOK, PlaceOK, Extracting
  PROVE  /\ at \in 1 .. Len(archive) /\ at + 1 \in 1 .. Len(archive) + 1
         /\ Len(archive) \in Nat
         /\ Name \in Names /\ Cur = archive[at] /\ Cur.mode \in AllModes
         /\ Cur.kind = "dir" => Cur.mode \in DirModes
<1>1. at \in 1 .. Len(archive) /\ at + 1 \in 1 .. Len(archive) + 1 /\ Len(archive) \in Nat
  BY LengthOfArchive DEF PlaceOK, Extracting
<1>2. QED
  BY <1>1, EntryFields DEF Name, Cur

LEMMA NewInodesType ==
  ASSUME ArchiveOK, LinksOK, NEW d
  PROVE  NewInodes(d) \subseteq 0 .. Len(archive)
BY LengthOfArchive DEF NewInodes, LinksOK

LEMMA RepairedType ==
  ASSUME DelayedOK, NEW n \in Names, HasRecord(n), NEW m \in DirModes
  PROVE  /\ Repaired(n, m) \in Seq([name : Names, mode : DirModes])
         /\ Len(Repaired(n, m)) = Len(delayed)
<1> DEFINE Record == [name : Names, mode : DirModes]
<1>1. delayed \in Seq(Record)
  BY DEF DelayedOK
<1>2. PICK e \in Seq(Record) : e = delayed
  BY <1>1
<1>3. Len(e) \in Nat /\ e \in [1 .. Len(e) -> Record]
  BY <1>2, LenProperties
<1>4. PICK f : f = CHOOSE k \in 1 .. Len(delayed) :
                 /\ delayed[k].name = n
                 /\ \A j \in 1 .. k - 1 : delayed[j].name # n
  OBVIOUS
<1>5. [e EXCEPT ![f].mode = m] \in [1 .. Len(e) -> Record]
  <2>1. ASSUME NEW k \in 1 .. Len(e) PROVE [e[k] EXCEPT !.mode = m] \in Record
    BY <1>3
  <2>2. QED
    BY <1>3, <2>1
<1>6. Repaired(n, m) = [e EXCEPT ![f].mode = m]
  BY <1>2, <1>4 DEF Repaired
<1>7. Repaired(n, m) \in Seq(Record)
  BY <1>3, <1>5, <1>6, IsASeq
<1>8. Len(Repaired(n, m)) = Len(delayed)
  BY <1>2, <1>3, <1>5, <1>6, <1>7, LenProperties
<1>9. QED
  BY <1>7, <1>8

LEMMA InitTypeOK == Init => TypeOK
<1> SUFFICES ASSUME Init PROVE TypeOK
  OBVIOUS
<1>1. ArchiveOK /\ Len(archive) \in Nat
  <2>1. PICK k \in 0 .. MaxEntries : archive \in [1 .. k -> Entry]
    BY DEF Init
  <2>2. k \in Nat
    BY ExtractTreeAssumption
  <2>3. archive \in Seq(Entry)
    BY <2>1, <2>2, IsASeq
  <2>4. QED
    BY <2>3, LenProperties DEF ArchiveOK
<1>2. PlaceOK
  BY <1>1 DEF Init, PlaceOK
<1>3. DiskOK
  BY <1>1, ConstantThings DEF Init, DiskOK, Disks
<1>4. DelayedOK /\ DefermentsOK
  BY EmptySeq DEF Init, DelayedOK, DefermentsOK
<1>5. LinksOK
  BY DEF Init, LinksOK
<1>6. QED
  BY <1>1, <1>2, <1>3, <1>4, <1>5, TypeParts

Handlers == CreateDir \/ CopyinRegular \/ CopyinLink \/ SymlinkPlaceholder
            \/ CopyinDevice \/ CopyinUnknown \/ DeferCopyin

LEMMA HandlersMoveOn ==
  ASSUME Handlers
  PROVE  Extracting /\ at' = at + 1 /\ UNCHANGED <<options, kept, phase>>
BY DEF Handlers, CreateDir, CopyinRegular, CopyinLink, SymlinkPlaceholder, CopyinDevice,
       CopyinUnknown, DeferCopyin, Handle

LEMMA OptionsStay == [Next]_vars => UNCHANGED options
<1> SUFFICES ASSUME [Next]_vars PROVE UNCHANGED options
  OBVIOUS
<1>1. CASE Handlers
  BY <1>1, HandlersMoveOn
<1>2. CASE ~Handlers
  BY <1>2 DEF Next, Handlers, vars, NotCreated, CopyinLinkExits, EndOfArchive,
              ReplacePlaceholder, AllReplaced, ApplyDelayed, AllApplied, CreateFinalDefer, Finish
<1>3. QED
  BY <1>1, <1>2

LEMMA StepPlace ==
  ASSUME TypeOK, [Next]_vars
  PROVE  ArchiveOK' /\ PlaceOK'
<1>1. ArchiveOK /\ PlaceOK
  BY TypeParts
<1>2. archive' = archive
  BY OptionsStay DEF options
<1>3. ArchiveOK'
  BY <1>1, <1>2 DEF ArchiveOK
<1>4. CASE Handlers \/ NotCreated
  <2>1. Extracting /\ at' = at + 1 /\ phase' = phase /\ kept' = kept
    BY <1>4, HandlersMoveOn DEF NotCreated
  <2>2. at + 1 \in 1 .. Len(archive) + 1
    BY <1>1, <2>1, CurFacts
  <2>3. QED
    BY <1>1, <1>2, <1>3, <2>1, <2>2 DEF PlaceOK
<1>5. CASE ReplacePlaceholder
  <2>1. PICK i \in DOMAIN delayedLinks :
          kept' = kept \/ kept' = kept \cup {delayedLinks[i]}
    BY <1>5 DEF ReplacePlaceholder
  <2>2. delayedLinks[i] \in 1 .. Len(archive)
    BY TypeParts DEF LinksOK
  <2>3. at' = at /\ phase' = phase
    BY <1>5 DEF ReplacePlaceholder
  <2>4. QED
    BY <1>1, <1>2, <1>3, <2>1, <2>2, <2>3 DEF PlaceOK
<1>6. CASE ~(Handlers \/ NotCreated \/ ReplacePlaceholder)
  <2>1. at' = at /\ kept' = kept
    BY <1>6 DEF Next, Handlers, vars, CopyinLinkExits, EndOfArchive, AllReplaced,
                ApplyDelayed, AllApplied, CreateFinalDefer, Finish
  <2>2. phase' \in {"entries", "replace", "apply", "finals", "done", "exited"}
    BY <1>1, <1>6 DEF Next, Handlers, vars, CopyinLinkExits, EndOfArchive, AllReplaced,
                      ApplyDelayed, AllApplied, CreateFinalDefer, Finish, PlaceOK
  <2>3. QED
    BY <1>1, <1>2, <1>3, <2>1, <2>2 DEF PlaceOK
<1>7. QED
  BY <1>4, <1>5, <1>6

LEMMA StepDisk ==
  ASSUME TypeOK, [Next]_vars
  PROVE  DiskOK'
<1>1. ArchiveOK /\ PlaceOK /\ DiskOK /\ DelayedOK /\ LinksOK /\ DefermentsOK
  BY TypeParts
<1>2. archive' = archive
  BY OptionsStay DEF options
<1>3. Disks' = Disks
  BY <1>2 DEF Disks, Thing
<1> SUFFICES disk' \in Disks
  BY <1>3 DEF DiskOK
<1>4. disk \in Disks /\ \A found : Cleared(found) \in Disks
  BY <1>1, ClearedType DEF DiskOK
<1>5. CASE CreateDir
  <2>1. /\ at \in 0 .. Len(archive) /\ Name \in Names /\ Cur.mode \in AllModes
        /\ 0 \in 0 .. Len(archive)
    BY <1>1, <1>5, CurFacts DEF CreateDir, Handle
  <2>2. PICK c \in Disks : LET tried == Retried(Free(c, Name), c, Name)
                               d == IF Free(tried, Name)
                                    THEN [tried EXCEPT ![Name] = Made("dir", {"w", "x"}, at, 0)]
                                    ELSE tried
                           IN  disk' = d \/ disk' = Chmod(d, Name, Cur.mode)
    <3>1. PICK found \in Found : LET c == Cleared(found)
                                     tried == Retried(Free(c, Name), c, Name)
                                     d == IF Free(tried, Name)
                                          THEN [tried EXCEPT ![Name] =
                                                  Made("dir", {"w", "x"}, at, 0)]
                                          ELSE tried
                                 IN  disk' = d \/ disk' = Chmod(d, Name, Cur.mode)
      BY <1>5 DEF CreateDir
    <3>2. QED
      BY <1>4, <3>1
  <2>3. PICK tried \in Disks : tried = Retried(Free(c, Name), c, Name)
    BY <1>1, <2>1, RetriedType DEF Free
  <2>4. Made("dir", {"w", "x"}, at, 0) \in Thing
    BY <1>1, <2>1, MadeIsThing, ConstantThings
  <2>5. [tried EXCEPT ![Name] = Made("dir", {"w", "x"}, at, 0)] \in Disks
    BY <2>4 DEF Disks
  <2>6. PICK d \in Disks : disk' = d \/ disk' = Chmod(d, Name, Cur.mode)
    BY <2>2, <2>3, <2>5
  <2>7. QED
    BY <2>1, <2>6, ChmodType
<1>6. CASE CopyinRegular
  <2>1. at \in 0 .. Len(archive) /\ Name \in Names
    BY <1>1, <1>6, CurFacts DEF CopyinRegular, Handle
  <2>2. PICK c \in Disks : LET d == Retried(CanOpen(c, Name), c, Name)
                           IN  disk' = d \/ \E i \in NewInodes(d) : disk' = Opened(d, Name, at, i)
    BY <1>4, <1>6 DEF CopyinRegular
  <2>3. PICK d \in Disks : d = Retried(CanOpen(c, Name), c, Name)
    BY <1>1, <2>1, RetriedType DEF CanOpen, Special
  <2>4. disk' = d \/ \E i \in 0 .. Len(archive) : disk' = Opened(d, Name, at, i)
    BY <1>1, <2>2, <2>3, NewInodesType
  <2>5. QED
    BY <1>1, <2>1, <2>4, OpenedType
<1>7. CASE CopyinLink \/ CopyinLinkExits
  <2>1. at \in 0 .. Len(archive) /\ 0 \in 0 .. Len(archive) /\ Name \in Names
    BY <1>1, <1>7, CurFacts DEF CopyinLink, CopyinLinkExits, Handle
  <2>2. \A found \in Found : LinkTree(found) \in Disks
    BY <1>1, <1>4, <2>1, RetriedType DEF LinkTree, Free
  <2>3. Made("lnk", {}, at, 0) \in Thing
    BY <1>1, <2>1, MadeIsThing, ConstantThings
  <2>4. PICK d \in Disks : disk' = d \/ disk' = [d EXCEPT ![Name] = Made("lnk", {}, at, 0)]
    BY <1>7, <2>2 DEF CopyinLink, CopyinLinkExits
  <2>5. QED
    BY <2>3, <2>4 DEF Disks
<1>8. CASE SymlinkPlaceholder
  <2>1. at \in 0 .. Len(archive) /\ Name \in Names
    BY <1>1, <1>8, CurFacts DEF SymlinkPlaceholder, Handle
  <2>2. PICK c \in Disks : LET d == Retried(Free(c, Name), c, Name)
                           IN  \/ disk' = d
                               \/ \E i \in InodeOfPlaceholder(d) :
                                    \/ disk' = [d EXCEPT ![Name].ino = i]
                                    \/ disk' = [d EXCEPT ![Name] = Made("reg", {"w"}, at, i)]
    <3>1. PICK found \in Found : LET c == Cleared(found)
                                     d == Retried(Free(c, Name), c, Name)
                                 IN  \/ disk' = d
                                     \/ \E i \in InodeOfPlaceholder(d) :
                                          \/ disk' = [d EXCEPT ![Name].ino = i]
                                          \/ disk' = [d EXCEPT ![Name] =
                                                        Made("reg", {"w"}, at, i)]
      BY <1>8 DEF SymlinkPlaceholder
    <3>2. QED
      BY <1>4, <3>1
  <2>3. PICK d \in Disks : d = Retried(Free(c, Name), c, Name)
    BY <1>1, <2>1, RetriedType DEF Free
  <2>4. InodeOfPlaceholder(d) \subseteq 0 .. Len(archive)
    <3>1. d[Name].ino \in 0 .. Len(archive)
      BY <2>1 DEF Disks, Thing
    <3>2. QED
      BY <1>1, <2>1, <3>1, NewInodesType DEF InodeOfPlaceholder
  <2>5. \A i \in 0 .. Len(archive) : Made("reg", {"w"}, at, i) \in Thing
    BY <1>1, <2>1, MadeIsThing, ConstantThings
  <2>6. \/ disk' = d
        \/ \E i \in 0 .. Len(archive) : \/ disk' = [d EXCEPT ![Name].ino = i]
                                       \/ disk' = [d EXCEPT ![Name] = Made("reg", {"w"}, at, i)]
    BY <2>2, <2>3, <2>4
  <2>7. CASE \E i \in 0 .. Len(archive) : disk' = [d EXCEPT ![Name].ino = i]
    BY <2>1, <2>7 DEF Disks, Thing
  <2>8. QED
    BY <2>5, <2>6, <2>7 DEF Disks
<1>9. CASE CopyinDevice
  <2>1. at \in 0 .. Len(archive) /\ 0 \in 0 .. Len(archive) /\ Name \in Names
    BY <1>1, <1>9, CurFacts DEF CopyinDevice, Handle
  <2>2. Made("dev", {"w"}, at, 0) \in Thing
    BY <1>1, <2>1, MadeIsThing, ConstantThings
  <2>3. PICK d \in Disks : disk' = d \/ disk' = [d EXCEPT ![Name] = Made("dev", {"w"}, at, 0)]
    BY <1>1, <1>4, <1>9, <2>1, RetriedType DEF CopyinDevice
  <2>4. QED
    BY <2>2, <2>3 DEF Disks
<1>10. CASE CopyinUnknown \/ DeferCopyin
  BY <1>4, <1>10 DEF CopyinUnknown, DeferCopyin
<1>11. CASE ReplacePlaceholder
  <2>1. PICK i \in DOMAIN delayedLinks :
          \/ disk' = [disk EXCEPT ![archive[delayedLinks[i]].name] =
                                   Made("lnk", {}, delayedLinks[i], 0)]
          \/ disk' = disk
    BY <1>11 DEF ReplacePlaceholder
  <2>2. delayedLinks[i] \in 0 .. Len(archive) /\ 0 \in 0 .. Len(archive)
    BY <1>1, LengthOfArchive DEF LinksOK
  <2>3. Made("lnk", {}, delayedLinks[i], 0) \in Thing
    BY <1>1, <2>2, MadeIsThing, ConstantThings
  <2>4. QED
    BY <1>4, <2>1, <2>3 DEF Disks
<1>12. CASE ApplyDelayed
  <2>1. delayed \in Seq([name : Names, mode : DirModes]) /\ delayed # << >>
    BY <1>1, <1>12 DEF ApplyDelayed, DelayedOK
  <2>2. delayed[1] \in [name : Names, mode : DirModes]
    <3>1. Len(delayed) \in Nat /\ Len(delayed) # 0
      BY <2>1, EmptySeq, LenProperties
    <3>2. 1 \in 1 .. Len(delayed)
      BY <3>1
    <3>3. QED
      BY <2>1, <3>2, ElementOfSeq
  <2>3. delayed[1].name \in Names /\ delayed[1].mode \in AllModes
    BY <2>2, ExtractTreeAssumption
  <2>4. QED
    BY <1>4, <1>12, <2>3, ChmodType DEF ApplyDelayed, NextRecord
<1>13. CASE CreateFinalDefer
  <2>1. Head(deferments) \in 1 .. Len(archive)
    BY <1>1, <1>13, HeadTailProperties DEF CreateFinalDefer, DefermentsOK
  <2>2. /\ Head(deferments) \in 0 .. Len(archive) /\ 0 \in 0 .. Len(archive)
        /\ archive[Head(deferments)].name \in Names
    BY <1>1, <2>1, EntryFields, LengthOfArchive
  <2>3. PICK n \in Names : n = archive[Head(deferments)].name
    BY <2>2
  <2>4. PICK d \in Disks : d = Retried(CanOpen(disk, n), disk, n)
    BY <1>1, <1>4, RetriedType DEF CanOpen, Special
  <2>5. disk' = d \/ disk' = Opened(d, n, Head(deferments), 0)
    BY <1>13, <2>3, <2>4 DEF CreateFinalDefer
  <2>6. QED
    BY <1>1, <2>2, <2>5, OpenedType
<1>14. CASE UNCHANGED disk
  BY <1>4, <1>14
<1>15. QED
  BY <1>5, <1>6, <1>7, <1>8, <1>9, <1>10, <1>11, <1>12, <1>13, <1>14
     DEF Next, vars, NotCreated, EndOfArchive, AllReplaced, AllApplied, Finish

(* A record is taken from the front of the list.                           *)
LEMMA RecordTaken ==
  ASSUME DelayedOK, ApplyDelayed
  PROVE  /\ delayed' \in Seq([name : Names, mode : DirModes])
         /\ Len(delayed) \in Nat /\ Len(delayed') = Len(delayed) - 1 /\ Len(delayed) >= 1
         /\ \A i \in 1 .. Len(delayed') : delayed'[i] = delayed[i + 1]
<1>1. PICK s \in Seq([name : Names, mode : DirModes]) : s = delayed /\ s # << >>
  BY DEF DelayedOK, ApplyDelayed
<1>2. delayed' = SubSeq(s, 1, 0) \o SubSeq(s, 2, Len(s))
  BY <1>1 DEF ApplyDelayed, NextRecord
<1>3. Len(s) \in Nat /\ Len(s) >= 1
  BY <1>1, EmptySeq, LenProperties
<1>4. SubSeq(s, 1, 0) = << >>
  BY SubSeqEmpty
<1>5. SubSeq(s, 2, Len(s)) = Tail(s)
  BY <1>1, TailIsSubSeq
<1>6. Tail(s) \in Seq([name : Names, mode : DirModes])
  BY <1>1, HeadTailProperties
<1>7. delayed' = Tail(s)
  BY <1>2, <1>4, <1>5, <1>6, ConcatEmptySeq
<1>8. QED
  BY <1>1, <1>3, <1>6, <1>7, HeadTailProperties

LEMMA StepDelayed ==
  ASSUME TypeOK, [Next]_vars
  PROVE  DelayedOK'
<1> DEFINE Records == Seq([name : Names, mode : DirModes])
<1>1. ArchiveOK /\ PlaceOK /\ delayed \in Records
  BY TypeParts DEF DelayedOK
<1> SUFFICES delayed' \in Records
  BY DEF DelayedOK
<1>2. CASE CreateDir
  <2>1. Name \in Names /\ Cur.mode \in DirModes
    BY <1>1, <1>2, CurFacts DEF CreateDir, Handle
  <2>2. <<[name |-> Name, mode |-> Cur.mode]>> \in Records
    BY <2>1
  <2>3. <<[name |-> Name, mode |-> Cur.mode]>> \o delayed \in Records
    BY <1>1, <2>2, ConcatProperties
  <2>4. HasRecord(Name) => Repaired(Name, Cur.mode) \in Records
    BY <1>1, <2>1, RepairedType DEF DelayedOK
  <2>5. \/ delayed' = <<[name |-> Name, mode |-> Cur.mode]>> \o delayed
        \/ HasRecord(Name) /\ delayed' = Repaired(Name, Cur.mode)
        \/ delayed' = delayed
    BY <1>2 DEF CreateDir
  <2>6. QED
    BY <1>1, <2>3, <2>4, <2>5
<1>3. CASE ApplyDelayed
  BY <1>1, <1>3, RecordTaken DEF DelayedOK
<1>4. CASE ~(CreateDir \/ ApplyDelayed)
  <2>1. UNCHANGED delayed
    BY <1>4 DEF Next, vars, NotCreated, CopyinRegular, CopyinLink, CopyinLinkExits,
                SymlinkPlaceholder, CopyinDevice, CopyinUnknown, DeferCopyin, EndOfArchive,
                ReplacePlaceholder, AllReplaced, AllApplied, CreateFinalDefer, Finish
  <2>2. QED
    BY <1>1, <2>1
<1>5. QED
  BY <1>2, <1>3, <1>4

LEMMA StepLinks ==
  ASSUME TypeOK, [Next]_vars
  PROVE  LinksOK'
<1>1. ArchiveOK /\ PlaceOK /\ DiskOK /\ LinksOK
  BY TypeParts
<1>2. archive' = archive
  BY OptionsStay DEF options
<1>3. CASE SymlinkPlaceholder
  <2>1. at \in 1 .. Len(archive) /\ Name \in Names
    BY <1>1, <1>3, CurFacts DEF SymlinkPlaceholder, Handle
  <2>2. \A found : Cleared(found) \in Disks
    BY <1>1, ClearedType
  <2>3. PICK d \in Disks :
          \/ delayedLinks' = delayedLinks
          \/ \E i \in InodeOfPlaceholder(d) :
               delayedLinks' = [j \in DOMAIN delayedLinks \cup {i} |->
                                  IF j = i THEN at ELSE delayedLinks[j]]
    <3>1. PICK found \in Found :
            LET c == Cleared(found)
                d == Retried(Free(c, Name), c, Name)
            IN  \/ delayedLinks' = delayedLinks
                \/ \E i \in InodeOfPlaceholder(d) :
                     delayedLinks' = [j \in DOMAIN delayedLinks \cup {i} |->
                                        IF j = i THEN at ELSE delayedLinks[j]]
      BY <1>3 DEF SymlinkPlaceholder
    <3>2. PICK c \in Disks : c = Cleared(found)
      BY <2>2
    <3>3. Retried(Free(c, Name), c, Name) \in Disks
      BY <1>1, <2>1, RetriedType DEF Free
    <3>4. QED
      BY <3>1, <3>2, <3>3
  <2>4. \A i \in InodeOfPlaceholder(d) : i \in 1 .. Len(archive)
    <3>1. d[Name].ino \in 0 .. Len(archive)
      BY <2>1 DEF Disks, Thing
    <3>2. NewInodes(d) \ {0} \subseteq 1 .. Len(archive)
      BY <1>1, LengthOfArchive DEF NewInodes, LinksOK
    <3>3. QED
      BY <2>1, <3>1, <3>2 DEF InodeOfPlaceholder
  <2>5. \/ delayedLinks' = delayedLinks
        \/ \E i \in 1 .. Len(archive) :
             delayedLinks' = [j \in DOMAIN delayedLinks \cup {i} |->
                                IF j = i THEN at ELSE delayedLinks[j]]
    BY <2>3, <2>4
  <2>6. QED
    BY <1>1, <1>2, <2>1, <2>5 DEF LinksOK
<1>4. CASE ReplacePlaceholder
  <2>1. PICK i \in DOMAIN delayedLinks : delayedLinks' = Without(i)
    BY <1>4 DEF ReplacePlaceholder
  <2>2. QED
    BY <1>1, <1>2, <2>1 DEF LinksOK, Without
<1>5. CASE ~(SymlinkPlaceholder \/ ReplacePlaceholder)
  <2>1. UNCHANGED delayedLinks
    BY <1>5 DEF Next, vars, NotCreated, CreateDir, CopyinRegular, CopyinLink,
                CopyinLinkExits, CopyinDevice, CopyinUnknown, DeferCopyin, EndOfArchive,
                AllReplaced, ApplyDelayed, AllApplied, CreateFinalDefer, Finish
  <2>2. QED
    BY <1>1, <1>2, <2>1 DEF LinksOK
<1>6. QED
  BY <1>3, <1>4, <1>5

LEMMA StepDeferments ==
  ASSUME TypeOK, [Next]_vars
  PROVE  DefermentsOK'
<1>1. ArchiveOK /\ PlaceOK /\ DefermentsOK
  BY TypeParts
<1>2. archive' = archive
  BY OptionsStay DEF options
<1> SUFFICES deferments' \in Seq(1 .. Len(archive))
  BY <1>2 DEF DefermentsOK
<1>3. CASE DeferCopyin
  <2>1. at \in 1 .. Len(archive)
    BY <1>1, <1>3, CurFacts DEF DeferCopyin, Handle
  <2>2. <<at>> \in Seq(1 .. Len(archive))
    BY <2>1
  <2>3. QED
    BY <1>1, <1>3, <2>2, ConcatProperties DEF DeferCopyin, DefermentsOK
<1>4. CASE CreateFinalDefer
  BY <1>1, <1>4, HeadTailProperties DEF CreateFinalDefer, DefermentsOK
<1>5. CASE ~(DeferCopyin \/ CreateFinalDefer)
  <2>1. UNCHANGED deferments
    BY <1>5 DEF Next, vars, NotCreated, CreateDir, CopyinRegular, CopyinLink,
                CopyinLinkExits, SymlinkPlaceholder, CopyinDevice, CopyinUnknown, EndOfArchive,
                ReplacePlaceholder, AllReplaced, ApplyDelayed, AllApplied, Finish
  <2>2. QED
    BY <1>1, <2>1 DEF DefermentsOK
<1>6. QED
  BY <1>3, <1>4, <1>5

LEMMA StepTypeOK == TypeOK /\ [Next]_vars => TypeOK'
<1> SUFFICES ASSUME TypeOK, [Next]_vars PROVE TypeOK'
  OBVIOUS
<1>1. ArchiveOK' /\ PlaceOK' /\ DiskOK' /\ DelayedOK' /\ LinksOK' /\ DefermentsOK'
  BY StepPlace, StepDisk, StepDelayed, StepLinks, StepDeferments
<1>2. QED
  BY <1>1 DEF TypeOK, ArchiveOK, PlaceOK, DiskOK, Disks, Thing, DelayedOK, LinksOK, DefermentsOK

(* Every variable keeps its type, for every tree and archive.              *)
THEOREM TypeCorrect == Spec => []TypeOK
<1>1. QED
  BY InitTypeOK, StepTypeOK, PTL DEF Spec

-------------------------------------------------------------------------------
(* The extraction of an orderly archive: what its entries are meanwhile.   *)
(* A directory has all permissions so long as it has a record.             *)
Seen(n) == \E k \in 1 .. at - 1 : archive[k].name = n
Pending(k) == \E i \in 1 .. Len(deferments) : deferments[i] = k
OpenAbove(n) == \A a \in Above[n] : ~ReadOnly(a)

(* A placeholder waits for its link, or was not found by unlink.           *)
Waits(k) == k \in DOMAIN delayedLinks \/ k \in kept

DirMeanwhile(k) ==
  Made("dir", IF HasRecord(archive[k].name) THEN {"w", "x"} ELSE archive[k].mode, k, 0)

Meanwhile(k) ==
  LET o == disk[archive[k].name]
  IN  /\ archive[k].kind = "dir" => o = DirMeanwhile(k)
      /\ archive[k].kind = "reg" => o = Made("reg", {"w"}, k, 0)
      /\ archive[k].kind = "lnk" => \/ o = Made("lnk", {}, k, 0)
                                    \/ o = Made("reg", {"w"}, k, k) /\ Waits(k)
      /\ archive[k].kind = "late" =>
           \/ Pending(k) /\ o = Nothing
           \/ ~Pending(k) /\ phase \in {"finals", "done"}
              /\ (OpenAbove(archive[k].name) => o.of = k)

EntriesMade == \A k \in 1 .. at - 1 : Meanwhile(k)
RestUntouched == \A n \in Names : ~Seen(n) => disk[n] = Nothing

(* The records are of directories, those of what a directory holds before  *)
(* its own, so that each finds its name within reach.                      *)
RecordsOfDirs ==
  \A i \in 1 .. Len(delayed) : \E k \in 1 .. at - 1 :
    /\ archive[k].kind = "dir"
    /\ delayed[i].name = archive[k].name
    /\ delayed[i].mode = archive[k].mode
RecordsInOrder ==
  \A i, j \in 1 .. Len(delayed) :
    i < j => /\ delayed[i].name # delayed[j].name
             /\ delayed[i].name \notin Above[delayed[j].name]
RecordsReached ==
  \A j \in 1 .. Len(delayed) : \A a \in Above[delayed[j].name] :
    HasRecord(a) \/ disk[a].mode = {"w", "x"}
ReadOnlyDelayed ==
  phase \in {"entries", "replace"} =>
    \A k \in 1 .. at - 1 :
      archive[k].kind = "dir" /\ "w" \notin archive[k].mode => HasRecord(archive[k].name)

PlaceholdersMade ==
  \A i \in DOMAIN delayedLinks :
    /\ i \in 1 .. at - 1 /\ delayedLinks[i] = i
    /\ archive[i].kind = "lnk" /\ noAbsPaths
    /\ disk[archive[i].name] = Made("reg", {"w"}, i, i)

DefermentsLate ==
  /\ \A i \in 1 .. Len(deferments) :
       deferments[i] \in 1 .. at - 1 /\ archive[deferments[i]].kind = "late"
  /\ \A i, j \in 1 .. Len(deferments) : deferments[i] = deferments[j] => i = j

Phases == /\ phase # "entries" => at = Len(archive) + 1
          /\ phase \in {"apply", "finals", "done"} => DOMAIN delayedLinks = {}
          /\ phase \in {"finals", "done"} => Len(delayed) = 0
          /\ phase = "done" => Len(deferments) = 0

DiskInv == EntriesMade /\ RestUntouched
RecordInv == RecordsOfDirs /\ RecordsInOrder /\ RecordsReached /\ ReadOnlyDelayed
TreeInv == DiskInv /\ RecordInv /\ PlaceholdersMade /\ DefermentsLate /\ Phases

LEMMA NamesDistinct ==
  ASSUME ArchiveOK, Orderly, NEW j \in 1 .. Len(archive), NEW k \in 1 .. Len(archive),
         archive[j].name = archive[k].name
  PROVE  j = k
<1>1. j < k \/ k < j \/ j = k
  BY LengthOfArchive
<1>2. ASSUME j < k PROVE FALSE
  <2>1. j \in 1 .. k - 1
    BY <1>2, LengthOfArchive
  <2>2. QED
    BY <2>1 DEF Orderly
<1>3. ASSUME k < j PROVE FALSE
  <2>1. k \in 1 .. j - 1
    BY <1>3, LengthOfArchive
  <2>2. QED
    BY <2>1 DEF Orderly
<1>4. QED
  BY <1>1, <1>2, <1>3

LEMMA AboveIsEntry ==
  ASSUME ArchiveOK, Orderly, NEW k \in 1 .. Len(archive), NEW a \in Above[archive[k].name]
  PROVE  \E j \in 1 .. k - 1 :
           /\ j \in 1 .. Len(archive) /\ archive[j].name = a /\ a \in Names
           /\ archive[j].kind = "dir"
           /\ archive[j].mode \in AllModes /\ archive[j].mode # {"w"}
<1>1. PICK j \in 1 .. k - 1 : archive[j].name = a /\ archive[j].kind = "dir"
  BY DEF Orderly
<1>2. j \in 1 .. Len(archive)
  BY <1>1, LengthOfArchive
<1>3. QED
  BY <1>1, <1>2, EntryFields DEF Orderly

(* While entries are extracted what leads to an entry is open.             *)
LEMMA WayIsOpen ==
  ASSUME ArchiveOK, PlaceOK, Orderly, TreeInv, phase \in {"entries", "replace"},
         NEW k \in 1 .. Len(archive), k <= at
  PROVE  \A a \in Above[archive[k].name] :
           a \in Names /\ disk[a].type = "dir" /\ disk[a].mode = {"w", "x"}
<1> SUFFICES ASSUME NEW a \in Above[archive[k].name]
             PROVE  a \in Names /\ disk[a].type = "dir" /\ disk[a].mode = {"w", "x"}
  OBVIOUS
<1>1. PICK j \in 1 .. k - 1 :
        /\ j \in 1 .. Len(archive) /\ archive[j].name = a /\ a \in Names
        /\ archive[j].kind = "dir"
        /\ archive[j].mode \in AllModes /\ archive[j].mode # {"w"}
  BY AboveIsEntry
<1>2. j \in 1 .. at - 1
  BY <1>1, LengthOfArchive DEF PlaceOK
<1>3. disk[a] = DirMeanwhile(j)
  BY <1>1, <1>2 DEF TreeInv, DiskInv, EntriesMade, Meanwhile
<1>4. "w" \in archive[j].mode \/ HasRecord(a)
  BY <1>1, <1>2 DEF TreeInv, RecordInv, ReadOnlyDelayed
<1>5. "w" \in archive[j].mode => archive[j].mode = {"w", "x"}
  BY <1>1 DEF AllModes
<1>6. QED
  BY <1>1, <1>3, <1>4, <1>5 DEF DirMeanwhile, Made

(* The name of the entry in hand is free.                                  *)
LEMMA NameIsFree ==
  ASSUME ArchiveOK, PlaceOK, Orderly, TreeInv, Extracting
  PROVE  /\ disk[Name] = Nothing /\ Found = {"none"} /\ Cleared("none") = disk
         /\ ~InTheWay("none") /\ ~BothDirs("none")
         /\ Free(disk, Name) /\ CanOpen(disk, Name)
         /\ Reached(disk, Name) /\ Writable(disk, Name)
<1>1. at \in 1 .. Len(archive) /\ Name = archive[at].name /\ Name \in Names /\ phase = "entries"
  BY CurFacts DEF Name, Cur, Extracting
<1>2. ~Seen(Name)
  BY <1>1, NamesDistinct, LengthOfArchive DEF Seen
<1>3. disk[Name] = Nothing
  BY <1>1, <1>2 DEF TreeInv, DiskInv, RestUntouched
<1>4. \A a \in Above[Name] : a \in Names /\ disk[a].type = "dir" /\ disk[a].mode = {"w", "x"}
  BY <1>1, WayIsOpen
<1>5. Reached(disk, Name)
  BY <1>4 DEF Reached, IsDir
<1>6. Writable(disk, Name)
  BY <1>1, <1>4, <1>5, ParentIsAbove DEF Writable
<1>7. Found = {"none"}
  BY <1>3, <1>5 DEF Found, Nothing
<1>8. ~InTheWay("none") /\ ~BothDirs("none") /\ Cleared("none") = disk
  BY DEF Cleared, InTheWay, BothDirs
<1>9. Free(disk, Name) /\ CanOpen(disk, Name)
  BY <1>3, <1>6 DEF Free, CanOpen, Nothing
<1>10. QED
  BY <1>3, <1>5, <1>6, <1>7, <1>8, <1>9

(* An entry leaves the names of the others, and what they are, alone.      *)
Before == ArchiveOK /\ PlaceOK /\ DelayedOK /\ DefermentsOK /\ Orderly /\ TreeInv
OthersAlone == \A n \in Names \ {Name} : disk'[n] = disk[n]
Advances == Extracting /\ at' = at + 1 /\ UNCHANGED <<options, kept, phase>>

LEMMA EarlierNames ==
  ASSUME Before, Extracting, NEW k \in 1 .. at - 1
  PROVE  /\ k \in 1 .. Len(archive) /\ archive[k].name \in Names \ {Name}
         /\ \A a \in Above[archive[k].name] : a \in Names \ {Name}
<1>1. at \in 1 .. Len(archive) /\ Name = archive[at].name
  BY CurFacts DEF Before, Name, Cur
<1>2. k \in 1 .. Len(archive) /\ k # at
  BY <1>1, LengthOfArchive DEF Before
<1>3. archive[k].name # Name
  BY <1>1, <1>2, NamesDistinct DEF Before
<1>4. ASSUME NEW a \in Above[archive[k].name] PROVE a \in Names \ {Name}
  <2>1. PICK j \in 1 .. k - 1 : j \in 1 .. Len(archive) /\ archive[j].name = a /\ a \in Names
    BY <1>2, AboveIsEntry DEF Before
  <2>2. j # at
    BY <1>1, <1>2, <2>1
  <2>3. QED
    BY <1>1, <2>1, <2>2, NamesDistinct DEF Before
<1>5. QED
  BY <1>2, <1>3, <1>4, EntryFields DEF Before

LEMMA AddedToDisk ==
  ASSUME Before, Advances, OthersAlone, NEW c, c = at, Meanwhile(c)',
         \A n \in Names \ {Name} : HasRecord(n)' <=> HasRecord(n),
         \A k \in 1 .. at - 1 : (Pending(k)' <=> Pending(k)) /\ (Waits(k) => Waits(k)')
  PROVE  DiskInv'
<1>1. archive' = archive /\ phase = "entries" /\ phase' = "entries"
  BY DEF Advances, Extracting, options
<1>2. at \in 1 .. Len(archive) /\ at' - 1 = at /\ Name = archive[at].name /\ at \in Int
  BY CurFacts, LengthOfArchive DEF Before, Advances, Name, Cur
<1>3. EntriesMade'
  <2>1. SUFFICES ASSUME NEW k \in 1 .. at PROVE Meanwhile(k)'
    BY <1>2 DEF EntriesMade
  <2>2. CASE k = at
    BY <2>2
  <2>3. CASE k # at
    <3>1. k \in 1 .. at - 1
      BY <1>2, <2>1, <2>3
    <3>2. PICK n \in Names \ {Name} : n = archive[k].name
      BY <3>1, EarlierNames DEF Advances
    <3>3. disk'[n] = disk[n]
      BY <3>2 DEF OthersAlone
    <3>4. HasRecord(n)' <=> HasRecord(n)
      BY <3>2
    <3>5. (Pending(k)' <=> Pending(k)) /\ (Waits(k) => Waits(k)')
      BY <3>1
    <3>6. Meanwhile(k)
      BY <3>1 DEF Before, TreeInv, DiskInv, EntriesMade
    <3>7. archive'[k].name = n /\ archive'[k].kind = archive[k].kind
          /\ archive'[k].mode = archive[k].mode
      BY <1>1, <3>2
    <3>8. ASSUME archive[k].kind = "dir" PROVE disk'[n] = DirMeanwhile(k)'
      <4>1. HasRecord(archive[k].name)' <=> HasRecord(n)
        BY <3>4, <3>7 DEF HasRecord
      <4>2. disk[n] = DirMeanwhile(k)
        BY <3>2, <3>6, <3>8 DEF Meanwhile
      <4>3. CASE HasRecord(n)
        <5>1. disk[n] = Made("dir", {"w", "x"}, k, 0)
          BY <3>2, <4>2, <4>3 DEF DirMeanwhile
        <5>2. DirMeanwhile(k)' = Made("dir", {"w", "x"}, k, 0)
          BY <4>1, <4>3 DEF DirMeanwhile, Made
        <5>3. QED
          BY <3>3, <5>1, <5>2
      <4>4. CASE ~HasRecord(n)
        <5>1. disk[n] = Made("dir", archive[k].mode, k, 0)
          BY <3>2, <4>2, <4>4 DEF DirMeanwhile
        <5>2. DirMeanwhile(k)' = Made("dir", archive[k].mode, k, 0)
          BY <3>7, <4>1, <4>4 DEF DirMeanwhile, Made
        <5>3. QED
          BY <3>3, <5>1, <5>2
      <4>5. QED
        BY <4>3, <4>4
    <3>9. archive[k].kind = "late" => Pending(k) /\ disk'[n] = Nothing
      BY <1>1, <3>2, <3>3, <3>6 DEF Meanwhile
    <3>10. QED
      BY <1>1, <3>2, <3>3, <3>5, <3>6, <3>7, <3>8, <3>9 DEF Meanwhile, Made, Nothing
  <2>4. QED
    BY <2>2, <2>3
<1>4. RestUntouched'
  <2>1. SUFFICES ASSUME NEW n \in Names, ~Seen(n)' PROVE disk'[n] = Nothing
    BY DEF RestUntouched, Nothing
  <2>2. \A k \in 1 .. at : archive[k].name # n
    BY <1>1, <1>2, <2>1 DEF Seen
  <2>3. n # Name /\ ~Seen(n)
    BY <1>2, <2>2 DEF Seen
  <2>4. QED
    BY <2>3 DEF OthersAlone, Before, TreeInv, DiskInv, RestUntouched
<1>5. QED
  BY <1>3, <1>4 DEF DiskInv

LEMMA AddedKeepsRecords ==
  ASSUME Before, Advances, OthersAlone, UNCHANGED delayed,
         Cur.kind = "dir" => "w" \in Cur.mode
  PROVE  RecordInv'
<1>1. archive' = archive /\ phase = "entries"
  BY DEF Advances, Extracting, options
<1>2. at \in 1 .. Len(archive) /\ at' - 1 = at /\ Cur = archive[at] /\ at \in Int
  BY CurFacts, LengthOfArchive DEF Before, Advances, Cur
<1>3. RecordsOfDirs'
  BY <1>1, <1>2 DEF Before, TreeInv, RecordInv, RecordsOfDirs
<1>4. RecordsInOrder'
  BY DEF Before, TreeInv, RecordInv, RecordsInOrder
<1>5. RecordsReached'
  <2>1. SUFFICES ASSUME NEW j \in 1 .. Len(delayed), NEW a \in Above[delayed[j].name]
                 PROVE  HasRecord(a) \/ disk'[a].mode = {"w", "x"}
    BY DEF RecordsReached, HasRecord
  <2>2. PICK k \in 1 .. at - 1 : delayed[j].name = archive[k].name
    BY DEF Before, TreeInv, RecordInv, RecordsOfDirs
  <2>3. a \in Names \ {Name}
    BY <2>1, <2>2, EarlierNames DEF Advances
  <2>4. QED
    BY <2>1, <2>3 DEF OthersAlone, Before, TreeInv, RecordInv, RecordsReached
<1>6. ReadOnlyDelayed'
  <2>1. SUFFICES ASSUME NEW k \in 1 .. at, archive[k].kind = "dir", "w" \notin archive[k].mode
                 PROVE  HasRecord(archive[k].name)
    BY <1>1, <1>2 DEF ReadOnlyDelayed, HasRecord
  <2>2. k \in 1 .. at - 1
    BY <1>2, <2>1
  <2>3. QED
    BY <1>1, <2>1, <2>2 DEF Before, TreeInv, RecordInv, ReadOnlyDelayed
<1>7. QED
  BY <1>3, <1>4, <1>5, <1>6 DEF RecordInv

LEMMA AddedKeepsLinks ==
  ASSUME Before, Advances, OthersAlone, UNCHANGED delayedLinks
  PROVE  PlaceholdersMade'
<1>1. archive' = archive /\ noAbsPaths' = noAbsPaths
  BY DEF Advances, options
<1>2. at \in Int
  BY CurFacts, LengthOfArchive DEF Before, Advances
<1> SUFFICES ASSUME NEW i \in DOMAIN delayedLinks
             PROVE  /\ i \in 1 .. at' - 1 /\ delayedLinks[i] = i
                    /\ archive[i].kind = "lnk" /\ noAbsPaths
                    /\ disk'[archive[i].name] = Made("reg", {"w"}, i, i)
  BY <1>1 DEF PlaceholdersMade, Made
<1>3. /\ i \in 1 .. at - 1 /\ delayedLinks[i] = i
      /\ archive[i].kind = "lnk" /\ noAbsPaths
      /\ disk[archive[i].name] = Made("reg", {"w"}, i, i)
  BY DEF Before, TreeInv, PlaceholdersMade
<1>4. archive[i].name \in Names \ {Name}
  BY <1>3, EarlierNames DEF Advances
<1>5. QED
  BY <1>2, <1>3, <1>4 DEF OthersAlone, Advances

LEMMA AddedKeepsDeferments ==
  ASSUME Before, Advances, UNCHANGED deferments
  PROVE  DefermentsLate'
<1>1. archive' = archive /\ at \in Int
  BY CurFacts, LengthOfArchive DEF Before, Advances, options
<1>2. QED
  BY <1>1 DEF Before, TreeInv, DefermentsLate, Advances

LEMMA AddedKeepsPhases ==
  ASSUME Advances
  PROVE  Phases'
BY DEF Advances, Extracting, Phases

(* What each operation does with the entry in hand                         *)
LEMMA CreateDirDoes ==
  ASSUME Before, CreateDir, DiskOK
  PROVE  /\ Advances /\ OthersAlone /\ UNCHANGED <<delayedLinks, deferments>>
         /\ Cur.kind = "dir" /\ \A k : (Pending(k)' <=> Pending(k)) /\ (Waits(k) => Waits(k)')
         /\ \/ /\ "w" \notin Cur.mode
               /\ disk'[Name] = Made("dir", {"w", "x"}, at, 0)
               /\ delayed' = <<[name |-> Name, mode |-> Cur.mode]>> \o delayed
            \/ /\ "w" \in Cur.mode
               /\ disk'[Name] = Made("dir", Cur.mode, at, 0)
               /\ delayed' = delayed
<1>1. /\ Advances /\ Cur.kind = "dir" /\ Name \in Names
      /\ UNCHANGED <<delayedLinks, deferments>>
      /\ \A k : (Pending(k)' <=> Pending(k)) /\ (Waits(k) => Waits(k)')
  BY CurFacts DEF CreateDir, Handle, Advances, Before, Pending, Waits
<1>2. /\ disk[Name] = Nothing /\ Found = {"none"} /\ Cleared("none") = disk
      /\ ~BothDirs("none") /\ Free(disk, Name) /\ Reached(disk, Name)
  BY <1>1, NameIsFree DEF Before, Advances
<1>3. Retried(Free(disk, Name), disk, Name) = disk
  BY <1>2 DEF Retried
<1>4. PICK d \in Disks : d = [disk EXCEPT ![Name] = Made("dir", {"w", "x"}, at, 0)]
  <2>1. at \in 0 .. Len(archive) /\ 0 \in 0 .. Len(archive)
    BY <1>1, CurFacts DEF Before, Advances
  <2>2. Made("dir", {"w", "x"}, at, 0) \in Thing
    BY <2>1, MadeIsThing, ConstantThings DEF Before
  <2>3. [disk EXCEPT ![Name] = Made("dir", {"w", "x"}, at, 0)] \in Disks
    BY <2>2 DEF DiskOK, Disks
  <2>4. QED
    BY <2>3
<1>5. /\ d[Name] = Made("dir", {"w", "x"}, at, 0)
      /\ \A n \in Names \ {Name} : d[n] = disk[n]
  BY <1>1, <1>4 DEF DiskOK, Disks
<1>6. IsDir(d, Name) /\ Reached(d, Name)
  <2>1. \A a \in Above[Name] : a \in Names \ {Name}
    BY <1>1, AboveIsNames
  <2>2. QED
    BY <1>2, <1>5, <2>1 DEF Reached, IsDir, Made
<1>7. ~HasRecord(Name)
  <2>1. SUFFICES ASSUME NEW i \in 1 .. Len(delayed), delayed[i].name = Name PROVE FALSE
    BY DEF HasRecord
  <2>2. PICK k \in 1 .. at - 1 : delayed[i].name = archive[k].name
    BY DEF Before, TreeInv, RecordInv, RecordsOfDirs
  <2>3. QED
    BY <1>1, <2>1, <2>2, EarlierNames DEF Advances
<1>8. CASE Delayed(Cur.mode)
  <2>1. /\ disk' = d
        /\ delayed' = <<[name |-> Name, mode |-> Cur.mode]>> \o delayed
    BY <1>2, <1>3, <1>4, <1>6, <1>8 DEF CreateDir
  <2>2. QED
    BY <1>1, <1>5, <1>8, <2>1 DEF OthersAlone, Delayed
<1>9. CASE ~Delayed(Cur.mode)
  <2>1. disk' = Chmod(d, Name, Cur.mode) /\ delayed' = delayed
    BY <1>2, <1>3, <1>4, <1>6, <1>7, <1>9 DEF CreateDir
  <2>2. Chmod(d, Name, Cur.mode) = [d EXCEPT ![Name].mode = Cur.mode]
    BY <1>6 DEF Chmod, IsDir
  <2>3. disk'[Name] = Made("dir", Cur.mode, at, 0)
    BY <1>1, <1>5, <2>1, <2>2 DEF Made, Disks
  <2>4. OthersAlone
    BY <1>1, <1>5, <2>1, <2>2 DEF OthersAlone, Disks
  <2>5. QED
    BY <1>1, <1>9, <2>1, <2>3, <2>4 DEF Delayed
<1>10. QED
  BY <1>8, <1>9

(* A record is put in front of the others.                                 *)
LEMMA RecordAdded ==
  ASSUME DelayedOK, NEW r \in [name : Names, mode : DirModes], delayed' = << r >> \o delayed
  PROVE  /\ Len(delayed) \in Nat /\ Len(delayed') = Len(delayed) + 1
         /\ delayed'[1] = r
         /\ \A i \in 1 .. Len(delayed) : delayed'[i + 1] = delayed[i]
         /\ \A i \in 2 .. Len(delayed') : i - 1 \in 1 .. Len(delayed) /\ delayed'[i] = delayed[i - 1]
<1>1. PICK s \in Seq([name : Names, mode : DirModes]) : s = delayed
  BY DEF DelayedOK
<1>2. << r >> \in Seq([name : Names, mode : DirModes]) /\ Len(<< r >>) = 1 /\ << r >>[1] = r
  OBVIOUS
<1>3. Len(s) \in Nat
  BY <1>1, LenProperties
<1>4. Len(<< r >> \o s) = Len(s) + 1
  BY <1>1, <1>2, <1>3, ConcatProperties
<1>5. \A i \in 1 .. Len(s) + 1 : (<< r >> \o s)[i] = IF i <= 1 THEN r ELSE s[i - 1]
  BY <1>1, <1>2, <1>3, ConcatProperties
<1>6. QED
  BY <1>1, <1>3, <1>4, <1>5

LEMMA RecordsAfterAdding ==
  ASSUME Before, Advances, OthersAlone, NEW m \in DirModes,
         delayed' = <<[name |-> Name, mode |-> m]>> \o delayed
  PROVE  \A n : HasRecord(n)' <=> HasRecord(n) \/ n = Name
<1>1. Name \in Names
  BY CurFacts DEF Before, Advances
<1>2. /\ Len(delayed) \in Nat /\ Len(delayed') = Len(delayed) + 1
      /\ delayed'[1] = [name |-> Name, mode |-> m]
      /\ \A i \in 1 .. Len(delayed) : delayed'[i + 1] = delayed[i]
      /\ \A i \in 2 .. Len(delayed') : i - 1 \in 1 .. Len(delayed) /\ delayed'[i] = delayed[i - 1]
  BY <1>1, RecordAdded DEF Before
<1>3. ASSUME NEW n PROVE HasRecord(n)' => HasRecord(n) \/ n = Name
  <2>1. SUFFICES ASSUME NEW i \in 1 .. Len(delayed'), delayed'[i].name = n
                 PROVE  HasRecord(n) \/ n = Name
    BY DEF HasRecord
  <2>2. CASE i = 1
    BY <1>2, <2>1, <2>2
  <2>3. CASE i # 1
    <3>1. i \in 2 .. Len(delayed')
      BY <1>2, <2>1, <2>3
    <3>2. QED
      BY <1>2, <2>1, <3>1 DEF HasRecord
  <2>4. QED
    BY <2>2, <2>3
<1>4. ASSUME NEW n, HasRecord(n) PROVE HasRecord(n)'
  <2>1. PICK i \in 1 .. Len(delayed) : delayed[i].name = n
    BY <1>4 DEF HasRecord
  <2>2. i + 1 \in 1 .. Len(delayed') /\ delayed'[i + 1].name = n
    BY <1>2, <2>1
  <2>3. QED
    BY <2>2 DEF HasRecord
<1>5. ASSUME NEW n, n = Name PROVE HasRecord(n)'
  <2>1. 1 \in 1 .. Len(delayed') /\ delayed'[1].name = n
    BY <1>2, <1>5
  <2>2. QED
    BY <2>1 DEF HasRecord
<1>6. QED
  BY <1>3, <1>4, <1>5

LEMMA AddedRecord ==
  ASSUME Before, Advances, OthersAlone, Cur.kind = "dir",
         delayed' = <<[name |-> Name, mode |-> Cur.mode]>> \o delayed
  PROVE  RecordInv'
<1>1. archive' = archive /\ phase = "entries"
  BY DEF Advances, Extracting, options
<1>2. /\ at \in 1 .. Len(archive) /\ at' - 1 = at /\ Cur = archive[at] /\ at \in Int
      /\ Name = archive[at].name /\ Name \in Names /\ Cur.mode \in DirModes
  BY CurFacts, LengthOfArchive DEF Before, Advances, Cur, Name
<1>3. /\ Len(delayed) \in Nat /\ Len(delayed') = Len(delayed) + 1
      /\ delayed'[1] = [name |-> Name, mode |-> Cur.mode]
      /\ \A i \in 2 .. Len(delayed') : i - 1 \in 1 .. Len(delayed) /\ delayed'[i] = delayed[i - 1]
  BY <1>2, RecordAdded DEF Before
<1>4. \A n : HasRecord(n)' <=> HasRecord(n) \/ n = Name
  BY <1>2, RecordsAfterAdding
<1>5. \A j \in 1 .. Len(delayed') : j = 1 \/ j \in 2 .. Len(delayed')
  BY <1>3
<1>6. RecordsOfDirs'
  <2>1. SUFFICES ASSUME NEW i \in 1 .. Len(delayed')
                 PROVE  \E k \in 1 .. at : /\ archive[k].kind = "dir"
                                           /\ delayed'[i].name = archive[k].name
                                           /\ delayed'[i].mode = archive[k].mode
    <3>1. archive' = archive /\ 1 .. at' - 1 = 1 .. at
      BY <1>1, <1>2
    <3>2. QED
      BY <2>1, <3>1, Zenon DEF RecordsOfDirs
  <2>2. CASE i = 1
    BY <1>2, <1>3, <2>2
  <2>3. CASE i \in 2 .. Len(delayed')
    <3>1. PICK k \in 1 .. at - 1 : /\ archive[k].kind = "dir"
                                   /\ delayed[i - 1].name = archive[k].name
                                   /\ delayed[i - 1].mode = archive[k].mode
      BY <1>3, <2>3 DEF Before, TreeInv, RecordInv, RecordsOfDirs
    <3>2. k \in 1 .. at
      BY <1>2, <3>1
    <3>3. QED
      BY <1>3, <2>3, <3>1, <3>2
  <2>4. QED
    BY <1>5, <2>1, <2>2, <2>3
<1>7. \A i \in 1 .. Len(delayed) :
        delayed[i].name # Name /\ Name \notin Above[delayed[i].name]
        /\ \A a \in Above[delayed[i].name] : a \in Names \ {Name}
  <2>1. SUFFICES ASSUME NEW i \in 1 .. Len(delayed)
                 PROVE  /\ delayed[i].name # Name
                        /\ \A a \in Above[delayed[i].name] : a \in Names \ {Name}
    OBVIOUS
  <2>2. PICK k \in 1 .. at - 1 : delayed[i].name = archive[k].name
    BY DEF Before, TreeInv, RecordInv, RecordsOfDirs
  <2>3. QED
    BY <2>2, EarlierNames DEF Advances
<1>8. RecordsInOrder'
  <2>1. SUFFICES ASSUME NEW i \in 1 .. Len(delayed'), NEW j \in 1 .. Len(delayed'), i < j
                 PROVE  /\ delayed'[i].name # delayed'[j].name
                        /\ delayed'[i].name \notin Above[delayed'[j].name]
    BY DEF RecordsInOrder
  <2>2. j \in 2 .. Len(delayed')
    BY <1>3, <2>1
  <2>3. CASE i = 1
    BY <1>3, <1>7, <2>2, <2>3
  <2>4. CASE i \in 2 .. Len(delayed')
    <3>1. i - 1 \in 1 .. Len(delayed) /\ j - 1 \in 1 .. Len(delayed) /\ i - 1 < j - 1
      BY <1>3, <2>1, <2>2, <2>4
    <3>2. /\ delayed[i - 1].name # delayed[j - 1].name
          /\ delayed[i - 1].name \notin Above[delayed[j - 1].name]
      BY <3>1 DEF Before, TreeInv, RecordInv, RecordsInOrder
    <3>3. QED
      BY <1>3, <2>2, <2>4, <3>2
  <2>5. QED
    BY <1>5, <2>1, <2>3, <2>4
<1>9. RecordsReached'
  <2>1. SUFFICES ASSUME NEW j \in 1 .. Len(delayed'), NEW a \in Above[delayed'[j].name]
                 PROVE  HasRecord(a)' \/ disk'[a].mode = {"w", "x"}
    BY DEF RecordsReached, HasRecord
  <2>2. CASE j = 1
    <3>1. a \in Above[Name]
      BY <1>3, <2>1, <2>2
    <3>2. a \in Names \ {Name}
      BY <1>2, <3>1, AboveIsNames
    <3>3. disk[a].mode = {"w", "x"}
      BY <1>1, <1>2, <3>1, WayIsOpen DEF Before
    <3>4. QED
      BY <3>2, <3>3 DEF OthersAlone
  <2>3. CASE j \in 2 .. Len(delayed')
    <3>1. j - 1 \in 1 .. Len(delayed) /\ a \in Above[delayed[j - 1].name]
      BY <1>3, <2>1, <2>3
    <3>2. HasRecord(a) \/ disk[a].mode = {"w", "x"}
      BY <3>1 DEF Before, TreeInv, RecordInv, RecordsReached
    <3>3. a \in Names \ {Name}
      BY <1>7, <3>1
    <3>4. QED
      BY <1>4, <3>2, <3>3 DEF OthersAlone
  <2>4. QED
    BY <1>5, <2>1, <2>2, <2>3
<1>10. ReadOnlyDelayed'
  <2>1. SUFFICES ASSUME NEW k \in 1 .. at, archive[k].kind = "dir", "w" \notin archive[k].mode
                 PROVE  HasRecord(archive[k].name)'
    BY <1>1, <1>2 DEF ReadOnlyDelayed, HasRecord
  <2>2. CASE k = at
    BY <1>1, <1>2, <1>4, <2>2 DEF HasRecord
  <2>3. CASE k # at
    <3>1. k \in 1 .. at - 1
      BY <1>2, <2>1, <2>3
    <3>2. PICK n : n = archive[k].name
      OBVIOUS
    <3>3. HasRecord(n)
      BY <1>1, <2>1, <3>1, <3>2 DEF Before, TreeInv, RecordInv, ReadOnlyDelayed
    <3>4. HasRecord(n)'
      BY <1>4, <3>3
    <3>5. QED
      BY <1>1, <3>2, <3>4 DEF HasRecord
  <2>4. QED
    BY <2>2, <2>3
<1>11. QED
  BY <1>6, <1>8, <1>9, <1>10 DEF RecordInv

LEMMA CreateDirKeeps ==
  ASSUME Before, DiskOK, CreateDir
  PROVE  TreeInv'
<1>1. /\ Advances /\ OthersAlone /\ UNCHANGED <<delayedLinks, deferments>>
      /\ Cur.kind = "dir"
  BY CreateDirDoes
<1>2. /\ archive' = archive /\ Cur = archive[at] /\ Name = archive[at].name /\ Name \in Names
      /\ Cur.mode \in DirModes
  BY <1>1, CurFacts DEF Advances, options, Cur, Name, Before
<1>3. PICK c : c = at
  OBVIOUS
<1>4. /\ archive'[c].kind = "dir" /\ archive'[c].name = Name /\ archive'[c].mode = Cur.mode
  BY <1>1, <1>2, <1>3
<1>5. \A k \in 1 .. at - 1 : (Pending(k)' <=> Pending(k)) /\ (Waits(k) => Waits(k)')
  BY CreateDirDoes
<1>6. RecordInv' /\ Meanwhile(c)' /\ \A n \in Names \ {Name} : HasRecord(n)' <=> HasRecord(n)
  <2>1. CASE "w" \notin Cur.mode
    <3>1. /\ disk'[Name] = Made("dir", {"w", "x"}, at, 0)
          /\ delayed' = <<[name |-> Name, mode |-> Cur.mode]>> \o delayed
      BY <2>1, CreateDirDoes
    <3>2. RecordInv'
      BY <1>1, <3>1, AddedRecord
    <3>3. \A n : HasRecord(n)' <=> HasRecord(n) \/ n = Name
      BY <1>1, <1>2, <3>1, RecordsAfterAdding
    <3>4. PICK n : n = Name
      OBVIOUS
    <3>5. HasRecord(archive[c].name)'
      BY <1>4, <3>3, <3>4 DEF HasRecord
    <3>6. DirMeanwhile(c)' = Made("dir", {"w", "x"}, c, 0)
      BY <3>5 DEF DirMeanwhile, Made
    <3>7. Meanwhile(c)'
      BY <1>3, <1>4, <3>1, <3>6 DEF Meanwhile
    <3>8. QED
      BY <3>2, <3>3, <3>7
  <2>2. CASE "w" \in Cur.mode
    <3>1. disk'[Name] = Made("dir", Cur.mode, at, 0) /\ delayed' = delayed
      BY <2>2, CreateDirDoes
    <3>2. RecordInv'
      BY <1>1, <2>2, <3>1, AddedKeepsRecords
    <3>3. \A n : HasRecord(n)' <=> HasRecord(n)
      BY <3>1 DEF HasRecord
    <3>4. \A i \in 1 .. Len(delayed) : delayed[i].name # Name
      <4>1. SUFFICES ASSUME NEW i \in 1 .. Len(delayed), delayed[i].name = Name PROVE FALSE
        OBVIOUS
      <4>2. PICK k \in 1 .. at - 1 : delayed[i].name = archive[k].name
        BY DEF Before, TreeInv, RecordInv, RecordsOfDirs
      <4>3. QED
        BY <1>1, <4>1, <4>2, EarlierNames DEF Advances
    <3>5. ~HasRecord(archive[c].name)'
      BY <1>4, <3>1, <3>4 DEF HasRecord
    <3>6. DirMeanwhile(c)' = Made("dir", Cur.mode, c, 0)
      BY <1>4, <3>5 DEF DirMeanwhile, Made
    <3>7. Meanwhile(c)'
      BY <1>3, <1>4, <3>1, <3>6 DEF Meanwhile
    <3>8. QED
      BY <3>2, <3>3, <3>7
  <2>3. QED
    BY <2>1, <2>2
<1>7. DiskInv'
  BY <1>1, <1>3, <1>5, <1>6, AddedToDisk
<1>8. PlaceholdersMade' /\ DefermentsLate' /\ Phases'
  BY <1>1, AddedKeepsLinks, AddedKeepsDeferments, AddedKeepsPhases
<1>9. QED
  BY <1>6, <1>7, <1>8 DEF TreeInv

(* While the placeholders are there none of their inodes is free.          *)
LEMMA NoInodeFree ==
  ASSUME ArchiveOK, PlaceOK, TreeInv
  PROVE  NewInodes(disk) = {0}
<1>1. SUFFICES ASSUME NEW i \in DOMAIN delayedLinks
               PROVE  \E n \in Names : disk[n].ino = i
  BY DEF NewInodes
<1>2. i \in 1 .. at - 1 /\ disk[archive[i].name] = Made("reg", {"w"}, i, i)
  BY DEF TreeInv, PlaceholdersMade
<1>3. i \in 1 .. Len(archive)
  BY <1>2, LengthOfArchive DEF PlaceOK
<1>4. archive[i].name \in Names
  BY <1>3, EntryFields
<1>5. QED
  BY <1>2, <1>4 DEF Made

(* An entry of another kind than a directory delays nothing.               *)
LEMMA OtherEntryKeeps ==
  ASSUME Before, Advances, OthersAlone, UNCHANGED delayed, Cur.kind # "dir",
         NEW c, c = at, Meanwhile(c)',
         \A k \in 1 .. at - 1 : (Pending(k)' <=> Pending(k)) /\ (Waits(k) => Waits(k)'),
         PlaceholdersMade', DefermentsLate'
  PROVE  TreeInv'
<1>1. \A n \in Names \ {Name} : HasRecord(n)' <=> HasRecord(n)
  BY DEF HasRecord
<1>2. DiskInv'
  BY <1>1, AddedToDisk
<1>3. RecordInv'
  BY AddedKeepsRecords
<1>4. Phases'
  BY AddedKeepsPhases
<1>5. QED
  BY <1>2, <1>3, <1>4 DEF TreeInv

LEMMA CopyinRegularKeeps ==
  ASSUME Before, DiskOK, CopyinRegular
  PROVE  TreeInv'
<1>1. /\ Advances /\ Cur.kind = "reg" /\ UNCHANGED <<delayed, delayedLinks, deferments>>
  BY DEF CopyinRegular, Handle, Advances
<1>2. /\ archive' = archive /\ Cur = archive[at] /\ Name = archive[at].name /\ Name \in Names
  BY <1>1, CurFacts DEF Advances, options, Cur, Name, Before
<1>3. /\ disk[Name] = Nothing /\ Found = {"none"} /\ Cleared("none") = disk
      /\ CanOpen(disk, Name)
  BY <1>1, NameIsFree DEF Before, Advances
<1>4. Retried(CanOpen(disk, Name), disk, Name) = disk
  BY <1>3 DEF Retried
<1>5. disk' = Opened(disk, Name, at, 0)
  BY <1>3, <1>4, NoInodeFree DEF CopyinRegular, Before
<1>6. disk' = [disk EXCEPT ![Name] = Made("reg", {"w"}, at, 0)]
  BY <1>2, <1>3, <1>5 DEF Opened, Special, Nothing, DiskOK, Disks
<1>7. disk'[Name] = Made("reg", {"w"}, at, 0) /\ OthersAlone
  BY <1>2, <1>6 DEF OthersAlone, DiskOK, Disks
<1>8. PICK c : c = at
  OBVIOUS
<1>9. Meanwhile(c)'
  BY <1>1, <1>2, <1>7, <1>8 DEF Meanwhile, Made
<1>10. \A k \in 1 .. at - 1 : (Pending(k)' <=> Pending(k)) /\ (Waits(k) => Waits(k)')
  BY <1>1 DEF Pending, Waits, Advances
<1>11. PlaceholdersMade' /\ DefermentsLate'
  BY <1>1, <1>7, AddedKeepsLinks, AddedKeepsDeferments
<1>12. QED
  BY <1>1, <1>7, <1>8, <1>9, <1>10, <1>11, OtherEntryKeeps

LEMMA CopyinLinkKeeps ==
  ASSUME Before, DiskOK, CopyinLink
  PROVE  TreeInv'
<1>1. /\ Advances /\ Cur.kind = "lnk" /\ UNCHANGED <<delayed, delayedLinks, deferments>>
  BY DEF CopyinLink, Handle, Advances
<1>2. /\ archive' = archive /\ Cur = archive[at] /\ Name = archive[at].name /\ Name \in Names
  BY <1>1, CurFacts DEF Advances, options, Cur, Name, Before
<1>3. Found = {"none"} /\ Cleared("none") = disk /\ Free(disk, Name)
  BY <1>1, NameIsFree DEF Before, Advances
<1>4. disk' = [disk EXCEPT ![Name] = Made("lnk", {}, at, 0)]
  <2>1. LinkTree("none") = disk
    BY <1>3 DEF LinkTree, Retried
  <2>2. QED
    BY <1>3, <2>1 DEF CopyinLink
<1>5. disk'[Name] = Made("lnk", {}, at, 0) /\ OthersAlone
  BY <1>2, <1>4 DEF OthersAlone, DiskOK, Disks
<1>6. PICK c : c = at
  OBVIOUS
<1>7. Meanwhile(c)'
  BY <1>1, <1>2, <1>5, <1>6 DEF Meanwhile, Made
<1>8. \A k \in 1 .. at - 1 : (Pending(k)' <=> Pending(k)) /\ (Waits(k) => Waits(k)')
  BY <1>1 DEF Pending, Waits, Advances
<1>9. PlaceholdersMade' /\ DefermentsLate'
  BY <1>1, <1>5, AddedKeepsLinks, AddedKeepsDeferments
<1>10. QED
  BY <1>1, <1>5, <1>6, <1>7, <1>8, <1>9, OtherEntryKeeps

(* What leads to a link is a directory: nothing ends the process.          *)
LEMMA NoLinkExits ==
  ASSUME Before, CopyinLinkExits
  PROVE  FALSE
<1>1. Extracting /\ at \in 1 .. Len(archive) /\ Name = archive[at].name /\ at \in Int
  BY CurFacts DEF CopyinLinkExits, Name, Cur, Before
<1>2. Found = {"none"} /\ Cleared("none") = disk /\ Free(disk, Name)
  BY <1>1, NameIsFree DEF Before
<1>3. LinkTree("none") = disk
  BY <1>2 DEF LinkTree, Retried
<1>4. \A a \in Above[Name] : disk[a].type = "dir"
  BY <1>1, WayIsOpen DEF Before, Extracting
<1>5. MayExit(disk)
  BY <1>2, <1>3 DEF CopyinLinkExits
<1>6. QED
  BY <1>4, <1>5 DEF MayExit

LEMMA SymlinkPlaceholderKeeps ==
  ASSUME Before, DiskOK, SymlinkPlaceholder
  PROVE  TreeInv'
<1>1. /\ Advances /\ Cur.kind = "lnk" /\ noAbsPaths /\ UNCHANGED <<delayed, deferments>>
  BY DEF SymlinkPlaceholder, Handle, Advances
<1>2. /\ archive' = archive /\ Cur = archive[at] /\ Name = archive[at].name /\ Name \in Names
      /\ noAbsPaths' = noAbsPaths /\ at \in 1 .. Len(archive) /\ Len(archive) \in Nat
  BY <1>1, CurFacts DEF Advances, options, Cur, Name, Before
<1>3. /\ disk[Name] = Nothing /\ Found = {"none"} /\ Cleared("none") = disk
      /\ Free(disk, Name)
  BY <1>1, NameIsFree DEF Before, Advances
<1>4. Retried(Free(disk, Name), disk, Name) = disk
  BY <1>3 DEF Retried
<1>5. InodeOfPlaceholder(disk) = {at}
  BY <1>3, NoInodeFree DEF InodeOfPlaceholder, Nothing, Before
<1>6. /\ disk' = [disk EXCEPT ![Name] = Made("reg", {"w"}, at, at)]
      /\ delayedLinks' = [j \in DOMAIN delayedLinks \cup {at} |->
                            IF j = at THEN at ELSE delayedLinks[j]]
  <2>1. disk[Name].type # "lnk" /\ disk[Name].type # "dev" /\ ~Special(disk, Name)
    BY <1>3 DEF Nothing, Special
  <2>2. PICK found \in Found :
          LET d == Retried(Free(Cleared(found), Name), Cleared(found), Name)
          IN  \/ \E i \in InodeOfPlaceholder(d) :
                   /\ disk' = CASE d[Name].type = "lnk" -> d
                               [] d[Name].type = "dev" -> [d EXCEPT ![Name].ino = i]
                               [] OTHER -> [d EXCEPT ![Name] = Made("reg", {"w"}, at, i)]
                   /\ delayedLinks' = [j \in DOMAIN delayedLinks \cup {i} |->
                                         IF j = i THEN at ELSE delayedLinks[j]]
              \/ ~(Free(d, Name) \/ (createDir /\ CanOpen(d, Name))) \/ Special(d, Name)
    BY Zenon DEF SymlinkPlaceholder
  <2>3. Retried(Free(Cleared(found), Name), Cleared(found), Name) = disk
    <3>1. found = "none"
      BY <1>3, <2>2
    <3>2. QED
      BY <1>3, <1>4, <3>1, Zenon
  <2>4. PICK i \in InodeOfPlaceholder(disk) :
          /\ disk' = CASE disk[Name].type = "lnk" -> disk
                      [] disk[Name].type = "dev" -> [disk EXCEPT ![Name].ino = i]
                      [] OTHER -> [disk EXCEPT ![Name] = Made("reg", {"w"}, at, i)]
          /\ delayedLinks' = [j \in DOMAIN delayedLinks \cup {i} |->
                                IF j = i THEN at ELSE delayedLinks[j]]
    BY <1>3, <2>1, <2>2, <2>3, Zenon
  <2>5. i = at
    BY <1>5, <2>4
  <2>6. QED
    BY <2>1, <2>4, <2>5
<1>7. disk'[Name] = Made("reg", {"w"}, at, at) /\ OthersAlone
  BY <1>2, <1>6 DEF OthersAlone, DiskOK, Disks
<1>8. PICK c : c = at
  OBVIOUS
<1>9. Meanwhile(c)'
  <2>1. Waits(c)'
    BY <1>6, <1>8 DEF Waits
  <2>2. QED
    BY <1>1, <1>2, <1>7, <1>8, <2>1 DEF Meanwhile, Made
<1>10. \A k \in 1 .. at - 1 : (Pending(k)' <=> Pending(k)) /\ (Waits(k) => Waits(k)')
  BY <1>1, <1>6 DEF Pending, Waits, Advances
<1>11. PlaceholdersMade'
  <2>1. SUFFICES ASSUME NEW i \in DOMAIN delayedLinks'
                 PROVE  /\ i \in 1 .. at /\ delayedLinks'[i] = i
                        /\ archive[i].kind = "lnk" /\ noAbsPaths
                        /\ disk'[archive[i].name] = Made("reg", {"w"}, i, i)
    <3>1. at' - 1 = at
      BY <1>1, <1>2 DEF Advances
    <3>2. QED
      BY <1>2, <3>1 DEF PlaceholdersMade, Made
  <2>2. CASE i = at
    BY <1>1, <1>2, <1>6, <1>7, <2>2
  <2>3. CASE i # at
    <3>1. i \in DOMAIN delayedLinks /\ delayedLinks'[i] = delayedLinks[i]
      BY <1>6, <2>1, <2>3
    <3>2. /\ i \in 1 .. at - 1 /\ delayedLinks[i] = i
          /\ archive[i].kind = "lnk" /\ noAbsPaths
          /\ disk[archive[i].name] = Made("reg", {"w"}, i, i)
      BY <3>1 DEF Before, TreeInv, PlaceholdersMade
    <3>3. archive[i].name \in Names \ {Name}
      BY <1>1, <3>2, EarlierNames DEF Advances
    <3>4. i \in 1 .. at
      BY <1>2, <3>2
    <3>5. QED
      BY <1>7, <3>1, <3>2, <3>3, <3>4 DEF OthersAlone
  <2>4. QED
    BY <2>2, <2>3
<1>12. DefermentsLate'
  BY <1>1, AddedKeepsDeferments
<1>13. QED
  BY <1>1, <1>7, <1>8, <1>9, <1>10, <1>11, <1>12, OtherEntryKeeps

(* With -d a second try for a device makes a directory of its own name     *)
(* when that has no slash; nothing else changes.                           *)
LEMMA CopyinDeviceKeeps ==
  ASSUME Before, DiskOK, CopyinDevice
  PROVE  TreeInv'
<1>1. /\ Advances /\ Cur.kind = "dev" /\ UNCHANGED <<delayed, delayedLinks, deferments>>
  BY DEF CopyinDevice, Handle, Advances
<1>2. /\ archive' = archive /\ Cur = archive[at] /\ Name = archive[at].name /\ Name \in Names
      /\ at \in 1 .. Len(archive) /\ Len(archive) \in Nat /\ phase = "entries"
  BY <1>1, CurFacts DEF Advances, Extracting, options, Cur, Name, Before
<1>3. Found = {"none"} /\ Cleared("none") = disk
  BY <1>1, NameIsFree DEF Before, Advances
<1>4. \A a \in Above[Name] : a \in Names /\ disk[a].type = "dir"
  BY <1>2, WayIsOpen DEF Before
<1>5. OthersAlone
  <2>1. PICK again \in Disks : again = CreateAllDirectories(disk, Name)
    BY <1>2, RetriedType DEF Before, DiskOK
  <2>2. \A n \in Names \ {Name} : again[n] = disk[n]
    <3>1. \A a \in Above[DirName(Name)] \cup {DirName(Name)} :
            a = Name \/ disk[a].type = "dir"
      <4>1. CASE Above[Name] = {}
        BY <4>1 DEF DirName
      <4>2. CASE Above[Name] # {}
        <5>1. DirName(Name) \in Above[Name]
          BY <1>2, <4>2, ParentIsAbove DEF DirName
        <5>2. Above[DirName(Name)] \subseteq Above[Name]
          BY <1>2, <5>1, AboveIsNames
        <5>3. QED
          BY <1>4, <5>1, <5>2
      <4>3. QED
        BY <4>1, <4>2
    <3>2. \A n \in Names \ {Name} :
            n \notin {a \in Above[DirName(Name)] \cup {DirName(Name)} : disk[a].type = "none"}
      BY <3>1
    <3>3. QED
      BY <2>1, <3>2 DEF CreateAllDirectories, MakePath
  <2>3. \/ disk' = disk
        \/ disk' = [disk EXCEPT ![Name] = Made("dev", {"w"}, at, 0)]
        \/ disk' = again
        \/ disk' = [again EXCEPT ![Name] = Made("dev", {"w"}, at, 0)]
    BY <1>3, <2>1 DEF CopyinDevice
  <2>4. QED
    BY <2>2, <2>3 DEF OthersAlone, DiskOK, Disks
<1>6. PICK c : c = at
  OBVIOUS
<1>7. Meanwhile(c)'
  BY <1>1, <1>2, <1>6 DEF Meanwhile
<1>8. \A k \in 1 .. at - 1 : (Pending(k)' <=> Pending(k)) /\ (Waits(k) => Waits(k)')
  BY <1>1 DEF Pending, Waits, Advances
<1>9. PlaceholdersMade' /\ DefermentsLate'
  BY <1>1, <1>5, AddedKeepsLinks, AddedKeepsDeferments
<1>10. QED
  BY <1>1, <1>5, <1>6, <1>7, <1>8, <1>9, OtherEntryKeeps

LEMMA CopyinUnknownKeeps ==
  ASSUME Before, DiskOK, CopyinUnknown
  PROVE  TreeInv'
<1>1. /\ Advances /\ Cur.kind = "other" /\ UNCHANGED <<delayed, delayedLinks, deferments>>
  BY DEF CopyinUnknown, Handle, Advances
<1>2. archive' = archive /\ Cur = archive[at]
  BY <1>1 DEF Advances, options, Cur
<1>3. OthersAlone
  BY <1>1, NameIsFree DEF CopyinUnknown, OthersAlone, Before, Advances
<1>4. PICK c : c = at
  OBVIOUS
<1>5. Meanwhile(c)'
  BY <1>1, <1>2, <1>4 DEF Meanwhile
<1>6. \A k \in 1 .. at - 1 : (Pending(k)' <=> Pending(k)) /\ (Waits(k) => Waits(k)')
  BY <1>1 DEF Pending, Waits, Advances
<1>7. PlaceholdersMade' /\ DefermentsLate'
  BY <1>1, <1>3, AddedKeepsLinks, AddedKeepsDeferments
<1>8. QED
  BY <1>1, <1>3, <1>4, <1>5, <1>6, <1>7, OtherEntryKeeps

LEMMA DeferCopyinKeeps ==
  ASSUME Before, DiskOK, DeferCopyin
  PROVE  TreeInv'
<1>1. /\ Advances /\ Cur.kind = "late" /\ UNCHANGED <<delayed, delayedLinks>>
  BY DEF DeferCopyin, Handle, Advances
<1>2. /\ archive' = archive /\ Cur = archive[at] /\ Name = archive[at].name /\ Name \in Names
      /\ at \in 1 .. Len(archive) /\ Len(archive) \in Nat
  BY <1>1, CurFacts DEF Advances, options, Cur, Name, Before
<1>3. disk[Name] = Nothing /\ disk' = disk
  BY <1>1, NameIsFree DEF Before, Advances, DeferCopyin
<1>4. OthersAlone
  BY <1>3 DEF OthersAlone
<1>5. /\ Len(deferments) \in Nat /\ Len(deferments') = Len(deferments) + 1
      /\ deferments'[1] = at
      /\ \A i \in 2 .. Len(deferments') :
           i - 1 \in 1 .. Len(deferments) /\ deferments'[i] = deferments[i - 1]
      /\ \A i \in 1 .. Len(deferments) : deferments'[i + 1] = deferments[i]
  <2>1. PICK s \in Seq(1 .. Len(archive)) : s = deferments
    BY DEF Before, DefermentsOK
  <2>2. PICK e \in 1 .. Len(archive) : e = at
    BY <1>2
  <2>3. << e >> \in Seq(1 .. Len(archive)) /\ Len(<< e >>) = 1 /\ << e >>[1] = e
    OBVIOUS
  <2>4. Len(s) \in Nat
    BY <2>1, LenProperties
  <2>5. Len(<< e >> \o s) = Len(s) + 1
    BY <2>1, <2>3, <2>4, ConcatProperties
  <2>6. \A i \in 1 .. Len(s) + 1 : (<< e >> \o s)[i] = IF i <= 1 THEN e ELSE s[i - 1]
    BY <2>1, <2>3, <2>4, ConcatProperties
  <2>7. deferments' = << e >> \o s
    BY <2>1, <2>2 DEF DeferCopyin
  <2>8. QED
    BY <2>1, <2>2, <2>4, <2>5, <2>6, <2>7
<1>6. \A j \in 1 .. Len(deferments') : j = 1 \/ j \in 2 .. Len(deferments')
  BY <1>5
<1>7. PICK c : c = at
  OBVIOUS
<1>8. Pending(c)'
  <2>1. 1 \in 1 .. Len(deferments') /\ deferments'[1] = c
    BY <1>5, <1>7
  <2>2. QED
    BY <2>1 DEF Pending
<1>9. Meanwhile(c)'
  BY <1>1, <1>2, <1>3, <1>7, <1>8 DEF Meanwhile, Nothing
<1>10. ASSUME NEW k \in 1 .. at - 1
       PROVE  (Pending(k)' <=> Pending(k)) /\ (Waits(k) => Waits(k)')
  <2>1. ASSUME NEW i \in 1 .. Len(deferments'), deferments'[i] = k PROVE Pending(k)
    <3>1. i # 1
      BY <1>2, <1>5, <1>10, <2>1
    <3>2. QED
      BY <1>5, <1>6, <2>1, <3>1 DEF Pending
  <2>2. ASSUME NEW i \in 1 .. Len(deferments), deferments[i] = k PROVE Pending(k)'
    <3>1. i + 1 \in 1 .. Len(deferments') /\ deferments'[i + 1] = k
      BY <1>5, <2>2
    <3>2. QED
      BY <3>1 DEF Pending
  <2>3. Waits(k) => Waits(k)'
    BY <1>1 DEF Waits, Advances
  <2>4. QED
    BY <2>1, <2>2, <2>3 DEF Pending
<1>11. DefermentsLate'
  <2>1. ASSUME NEW i \in 1 .. Len(deferments')
        PROVE  deferments'[i] \in 1 .. at /\ archive[deferments'[i]].kind = "late"
    <3>1. CASE i = 1
      BY <1>1, <1>2, <1>5, <3>1
    <3>2. CASE i \in 2 .. Len(deferments')
      <4>1. i - 1 \in 1 .. Len(deferments) /\ deferments'[i] = deferments[i - 1]
        BY <1>5, <3>2
      <4>2. deferments[i - 1] \in 1 .. at - 1 /\ archive[deferments[i - 1]].kind = "late"
        BY <4>1 DEF Before, TreeInv, DefermentsLate
      <4>3. QED
        BY <1>2, <4>1, <4>2
    <3>3. QED
      BY <1>6, <2>1, <3>1, <3>2
  <2>2. \A i \in 2 .. Len(deferments') : deferments'[i] # at
    <3>1. SUFFICES ASSUME NEW i \in 2 .. Len(deferments') PROVE deferments'[i] # at
      OBVIOUS
    <3>2. i - 1 \in 1 .. Len(deferments) /\ deferments'[i] = deferments[i - 1]
      BY <1>5
    <3>3. deferments[i - 1] \in 1 .. at - 1
      BY <3>2 DEF Before, TreeInv, DefermentsLate
    <3>4. QED
      BY <1>2, <3>2, <3>3
  <2>3. ASSUME NEW i \in 1 .. Len(deferments'), NEW j \in 1 .. Len(deferments'),
               deferments'[i] = deferments'[j]
        PROVE  i = j
    <3>1. CASE i = 1 \/ j = 1
      BY <1>5, <1>6, <2>2, <2>3, <3>1
    <3>2. CASE i # 1 /\ j # 1
      <4>1. /\ i - 1 \in 1 .. Len(deferments) /\ j - 1 \in 1 .. Len(deferments)
            /\ deferments[i - 1] = deferments[j - 1]
        BY <1>5, <1>6, <2>3, <3>2
      <4>2. i - 1 = j - 1
        BY <4>1 DEF Before, TreeInv, DefermentsLate
      <4>3. QED
        BY <1>5, <2>3, <4>2
    <3>3. QED
      BY <3>1, <3>2
  <2>4. at' - 1 = at
    BY <1>1, <1>2 DEF Advances
  <2>5. QED
    BY <1>2, <2>1, <2>3, <2>4 DEF DefermentsLate
<1>12. PlaceholdersMade'
  BY <1>1, <1>4, AddedKeepsLinks
<1>13. QED
  BY <1>1, <1>4, <1>7, <1>9, <1>10, <1>11, <1>12, OtherEntryKeeps

(* An entry of an orderly archive finds nothing in its way.                *)
LEMMA HandlersKeep ==
  ASSUME Before, DiskOK, Handlers \/ NotCreated
  PROVE  TreeInv'
<1>1. CASE Handlers
  BY <1>1, CreateDirKeeps, CopyinRegularKeeps, CopyinLinkKeeps, SymlinkPlaceholderKeeps,
     CopyinDeviceKeeps, CopyinUnknownKeeps, DeferCopyinKeeps DEF Handlers
<1>2. CASE NotCreated
  BY <1>2, NameIsFree DEF NotCreated, Before
<1>3. QED
  BY <1>1, <1>2

-------------------------------------------------------------------------------
(* The end of the extraction                                               *)
LEMMA OnlyPhaseChanges ==
  ASSUME TreeInv, UNCHANGED <<options, at, disk, delayed, delayedLinks, deferments, kept>>,
         phase \in {"finals", "done"} => phase' \in {"finals", "done"},
         phase' \in {"entries", "replace"} => phase \in {"entries", "replace"},
         Phases'
  PROVE  TreeInv'
<1>1. archive' = archive /\ noAbsPaths' = noAbsPaths
  BY DEF options
<1>2. EntriesMade'
  <2>1. SUFFICES ASSUME NEW k \in 1 .. at - 1 PROVE Meanwhile(k)'
    BY DEF EntriesMade
  <2>2. Meanwhile(k)
    BY DEF TreeInv, DiskInv, EntriesMade
  <2>3. DirMeanwhile(k)' = DirMeanwhile(k)
    BY <1>1 DEF DirMeanwhile, HasRecord
  <2>4. (Pending(k)' <=> Pending(k)) /\ (Waits(k)' <=> Waits(k))
    BY DEF Pending, Waits
  <2>5. OpenAbove(archive[k].name)' <=> OpenAbove(archive[k].name)
    BY <1>1 DEF OpenAbove, ReadOnly
  <2>6. QED
    BY <1>1, <2>2, <2>3, <2>4, <2>5 DEF Meanwhile
<1>3. RestUntouched'
  BY <1>1 DEF TreeInv, DiskInv, RestUntouched, Seen
<1>4. RecordInv'
  BY <1>1 DEF TreeInv, RecordInv, RecordsOfDirs, RecordsInOrder, RecordsReached,
              ReadOnlyDelayed, HasRecord
<1>5. PlaceholdersMade' /\ DefermentsLate'
  BY <1>1 DEF TreeInv, PlaceholdersMade, DefermentsLate
<1>6. QED
  BY <1>2, <1>3, <1>4, <1>5 DEF TreeInv, DiskInv

LEMMA PhasesKeep ==
  ASSUME Before, EndOfArchive \/ AllReplaced \/ AllApplied \/ Finish
  PROVE  TreeInv'
<1>1. UNCHANGED <<options, at, disk, delayed, delayedLinks, deferments, kept>>
  BY DEF EndOfArchive, AllReplaced, AllApplied, Finish
<1>2. CASE EndOfArchive
  <2>1. at = Len(archive) + 1
    BY <1>2, LengthOfArchive DEF Before, PlaceOK, EndOfArchive
  <2>2. QED
    BY <1>1, <1>2, <2>1, OnlyPhaseChanges DEF Before, EndOfArchive, Phases, options
<1>3. CASE AllReplaced
  BY <1>1, <1>3, OnlyPhaseChanges DEF Before, TreeInv, AllReplaced, Phases, options
<1>4. CASE AllApplied
  <2>1. Len(delayed) = 0
    BY <1>4 DEF AllApplied
  <2>2. QED
    BY <1>1, <1>4, <2>1, OnlyPhaseChanges DEF Before, TreeInv, AllApplied, Phases, options
<1>5. CASE Finish
  <2>1. Len(deferments) = 0
    BY <1>5 DEF Finish
  <2>2. QED
    BY <1>1, <1>5, <2>1, OnlyPhaseChanges DEF Before, TreeInv, Finish, Phases, options
<1>6. QED
  BY <1>2, <1>3, <1>4, <1>5

(* What was an entry before, when another entry changes                    *)
LEMMA OtherEntries ==
  ASSUME Before, NEW i \in 1 .. at - 1
  PROVE  /\ i \in 1 .. Len(archive) /\ archive[i].name \in Names /\ Seen(archive[i].name)
         /\ \A k \in 1 .. at - 1 :
              /\ k \in 1 .. Len(archive)
              /\ archive[k].name \in Names
              /\ k # i => archive[k].name # archive[i].name
<1>1. \A k \in 1 .. at - 1 : k \in 1 .. Len(archive)
  BY LengthOfArchive DEF Before, PlaceOK
<1>2. QED
  BY <1>1, EntryFields, NamesDistinct DEF Before, Seen

LEMMA ReplacePlaceholderKeeps ==
  ASSUME Before, DiskOK, ReplacePlaceholder
  PROVE  TreeInv'
<1>1. /\ archive' = archive /\ noAbsPaths' = noAbsPaths /\ phase = "replace" /\ phase' = phase
      /\ UNCHANGED <<options, at, delayed, deferments>>
  BY DEF ReplacePlaceholder, options
<1>2. PICK i \in DOMAIN delayedLinks :
        LET k == delayedLinks[i]
            n == archive[k].name
            replaceable == IsPlaceholder(i) /\ ~IsDir(disk, n) /\ Writable(disk, n)
        IN  /\ \/ /\ disk' = [disk EXCEPT ![n] = Made("lnk", {}, k, 0)]
                  /\ kept' = kept
               \/ /\ disk' = disk
                  /\ kept' = kept \cup {k}
               \/ ~replaceable
            /\ delayedLinks' = Without(i)
  BY DEF ReplacePlaceholder
<1>3. /\ i \in 1 .. at - 1 /\ delayedLinks[i] = i
      /\ archive[i].kind = "lnk" /\ noAbsPaths
      /\ disk[archive[i].name] = Made("reg", {"w"}, i, i)
  BY DEF Before, TreeInv, PlaceholdersMade
<1>4. /\ i \in 1 .. Len(archive) /\ archive[i].name \in Names /\ Seen(archive[i].name)
      /\ \A k \in 1 .. at - 1 : /\ k \in 1 .. Len(archive)
                                /\ archive[k].name \in Names
                                /\ k # i => archive[k].name # archive[i].name
  BY <1>3, OtherEntries
<1>5. /\ \/ disk'[archive[i].name] = Made("lnk", {}, i, 0)
         \/ disk'[archive[i].name] = Made("reg", {"w"}, i, i) /\ i \in kept'
      /\ \A n \in Names \ {archive[i].name} : disk'[n] = disk[n]
      /\ delayedLinks' = Without(i) /\ kept \subseteq kept'
  <2>1. \A a \in Above[archive[i].name] :
          a \in Names /\ disk[a].type = "dir" /\ disk[a].mode = {"w", "x"}
    <3>1. i <= at
      BY <1>3, <1>4, LengthOfArchive DEF Before, PlaceOK
    <3>2. QED
      BY <1>1, <1>4, <3>1, WayIsOpen DEF Before
  <2>2. Reached(disk, archive[i].name) /\ Writable(disk, archive[i].name)
    BY <1>4, <2>1, ParentIsAbove DEF Reached, Writable, IsDir
  <2>3. IsPlaceholder(i) /\ ~IsDir(disk, archive[i].name)
    BY <1>3, <2>2 DEF IsPlaceholder, IsDir, Made
  <2>4. \/ disk' = [disk EXCEPT ![archive[i].name] = Made("lnk", {}, i, 0)] /\ kept' = kept
        \/ disk' = disk /\ kept' = kept \cup {i}
    BY <1>2, <1>3, <2>2, <2>3
  <2>5. delayedLinks' = Without(i)
    BY <1>2
  <2>6. QED
    BY <1>3, <1>4, <2>4, <2>5 DEF DiskOK, Disks
<1>6. EntriesMade'
  <2>1. SUFFICES ASSUME NEW k \in 1 .. at - 1 PROVE Meanwhile(k)'
    BY <1>1 DEF EntriesMade
  <2>2. CASE k = i
    BY <1>1, <1>3, <1>5, <2>2 DEF Meanwhile, Made, Waits
  <2>3. CASE k # i
    <3>1. disk'[archive[k].name] = disk[archive[k].name]
      BY <1>4, <1>5, <2>3
    <3>2. Meanwhile(k)
      BY DEF Before, TreeInv, DiskInv, EntriesMade
    <3>3. DirMeanwhile(k)' = DirMeanwhile(k)
      BY <1>1 DEF DirMeanwhile, HasRecord
    <3>4. (Pending(k)' <=> Pending(k)) /\ (Waits(k) => Waits(k)')
      BY <1>1, <1>5, <2>3 DEF Pending, Waits, Without
    <3>5. QED
      BY <1>1, <3>1, <3>2, <3>3, <3>4 DEF Meanwhile
  <2>4. QED
    BY <2>2, <2>3
<1>7. RestUntouched'
  <2>1. SUFFICES ASSUME NEW n \in Names, ~Seen(n) PROVE disk'[n] = Nothing
    BY <1>1 DEF RestUntouched, Seen, Nothing
  <2>2. n # archive[i].name
    BY <1>4, <2>1
  <2>3. QED
    BY <1>5, <2>1, <2>2 DEF Before, TreeInv, DiskInv, RestUntouched
<1>8. RecordsReached'
  <2>1. SUFFICES ASSUME NEW j \in 1 .. Len(delayed), NEW a \in Above[delayed[j].name]
                 PROVE  HasRecord(a) \/ disk'[a].mode = {"w", "x"}
    BY <1>1 DEF RecordsReached, HasRecord
  <2>2. PICK k \in 1 .. at - 1 : delayed[j].name = archive[k].name
    BY DEF Before, TreeInv, RecordInv, RecordsOfDirs
  <2>3. k \in 1 .. Len(archive) /\ a \in Above[archive[k].name]
    BY <1>4, <2>1, <2>2
  <2>4. PICK m \in 1 .. k - 1 : /\ m \in 1 .. Len(archive) /\ archive[m].name = a /\ a \in Names
                                /\ archive[m].kind = "dir"
    BY <2>3, AboveIsEntry DEF Before
  <2>5. m \in 1 .. at - 1 /\ m # i
    BY <1>3, <2>2, <2>4, LengthOfArchive DEF Before, PlaceOK
  <2>6. a \in Names \ {archive[i].name}
    BY <1>4, <2>4, <2>5
  <2>7. HasRecord(a) \/ disk[a].mode = {"w", "x"}
    BY <2>1 DEF Before, TreeInv, RecordInv, RecordsReached
  <2>8. QED
    BY <1>5, <2>6, <2>7
<1>9. RecordsOfDirs' /\ RecordsInOrder' /\ ReadOnlyDelayed'
  BY <1>1 DEF Before, TreeInv, RecordInv, RecordsOfDirs, RecordsInOrder, ReadOnlyDelayed, HasRecord
<1>10. PlaceholdersMade'
  <2>1. SUFFICES ASSUME NEW h \in DOMAIN delayedLinks' 
                 PROVE  /\ h \in 1 .. at - 1 /\ delayedLinks'[h] = h
                        /\ archive[h].kind = "lnk" /\ noAbsPaths
                        /\ disk'[archive[h].name] = Made("reg", {"w"}, h, h)
    BY <1>1 DEF PlaceholdersMade, Made
  <2>2. h \in DOMAIN delayedLinks /\ h # i /\ delayedLinks'[h] = delayedLinks[h]
    BY <1>5, <2>1 DEF Without
  <2>3. /\ h \in 1 .. at - 1 /\ delayedLinks[h] = h
        /\ archive[h].kind = "lnk" /\ noAbsPaths
        /\ disk[archive[h].name] = Made("reg", {"w"}, h, h)
    BY <2>2 DEF Before, TreeInv, PlaceholdersMade
  <2>4. archive[h].name \in Names \ {archive[i].name}
    BY <1>4, <2>2, <2>3
  <2>5. QED
    BY <1>5, <2>2, <2>3, <2>4
<1>11. DefermentsLate' /\ Phases'
  BY <1>1 DEF Before, TreeInv, DefermentsLate, Phases
<1>12. QED
  BY <1>6, <1>7, <1>8, <1>9, <1>10, <1>11 DEF TreeInv, DiskInv, RecordInv

(* What leads to the name of a record can be searched.                     *)
LEMMA RecordWithinReach ==
  ASSUME Before, NEW i \in 1 .. Len(delayed)
  PROVE  Reached(disk, delayed[i].name)
<1>1. PICK k \in 1 .. at - 1 : delayed[i].name = archive[k].name
  BY DEF Before, TreeInv, RecordInv, RecordsOfDirs
<1>2. SUFFICES ASSUME NEW a \in Above[delayed[i].name]
               PROVE  IsDir(disk, a) /\ "x" \in disk[a].mode
  BY DEF Reached
<1>3. k \in 1 .. Len(archive) /\ a \in Above[archive[k].name]
  BY <1>1, <1>2, OtherEntries
<1>4. PICK m \in 1 .. k - 1 : /\ m \in 1 .. Len(archive) /\ archive[m].name = a
                              /\ archive[m].kind = "dir"
  BY <1>3, AboveIsEntry DEF Before
<1>5. m \in 1 .. at - 1
  BY <1>1, <1>4, LengthOfArchive DEF Before, PlaceOK
<1>6. disk[a] = DirMeanwhile(m)
  BY <1>4, <1>5 DEF Before, TreeInv, DiskInv, EntriesMade, Meanwhile
<1>7. HasRecord(a) \/ disk[a].mode = {"w", "x"}
  BY <1>2 DEF Before, TreeInv, RecordInv, RecordsReached
<1>8. QED
  BY <1>4, <1>6, <1>7 DEF DirMeanwhile, Made, IsDir

LEMMA ApplyDelayedKeeps ==
  ASSUME Before, DiskOK, ApplyDelayed
  PROVE  TreeInv'
<1>1. /\ archive' = archive /\ noAbsPaths' = noAbsPaths /\ phase = "apply" /\ phase' = phase
      /\ UNCHANGED <<options, at, delayedLinks, deferments, kept>>
  BY DEF ApplyDelayed, options
<1>2. /\ Len(delayed) \in Nat /\ Len(delayed') = Len(delayed) - 1 /\ Len(delayed) >= 1
      /\ \A i \in 1 .. Len(delayed') : delayed'[i] = delayed[i + 1]
  BY RecordTaken DEF Before
<1>3. 1 \in 1 .. Len(delayed)
  BY <1>2
<1>4. PICK i \in 1 .. at - 1 : /\ archive[i].kind = "dir"
                               /\ delayed[1].name = archive[i].name
                               /\ delayed[1].mode = archive[i].mode
  BY <1>3 DEF Before, TreeInv, RecordInv, RecordsOfDirs
<1>5. /\ i \in 1 .. Len(archive) /\ archive[i].name \in Names /\ Seen(archive[i].name)
      /\ \A k \in 1 .. at - 1 : /\ k \in 1 .. Len(archive)
                                /\ archive[k].name \in Names
                                /\ k # i => archive[k].name # archive[i].name
  BY OtherEntries
<1>6. HasRecord(archive[i].name)
  BY <1>3, <1>4 DEF HasRecord
<1>7. disk[archive[i].name] = Made("dir", {"w", "x"}, i, 0)
  BY <1>4, <1>6 DEF Before, TreeInv, DiskInv, EntriesMade, Meanwhile, DirMeanwhile
<1>8. Reached(disk, archive[i].name)
  BY <1>3, <1>4, RecordWithinReach
<1>9. disk' = [disk EXCEPT ![archive[i].name].mode = archive[i].mode]
  BY <1>4, <1>7, <1>8 DEF ApplyDelayed, NextRecord, Chmod, Made
<1>10. /\ disk'[archive[i].name] = Made("dir", archive[i].mode, i, 0)
       /\ \A n \in Names \ {archive[i].name} : disk'[n] = disk[n]
  BY <1>5, <1>7, <1>9 DEF DiskOK, Disks, Made
<1>11. \A j \in 1 .. Len(delayed') :
         /\ j + 1 \in 1 .. Len(delayed) /\ delayed'[j] = delayed[j + 1]
         /\ delayed[j + 1].name # archive[i].name
         /\ archive[i].name \notin Above[delayed[j + 1].name]
  <2>1. SUFFICES ASSUME NEW j \in 1 .. Len(delayed')
                 PROVE /\ j + 1 \in 1 .. Len(delayed) /\ delayed'[j] = delayed[j + 1]
                       /\ delayed[j + 1].name # archive[i].name
                       /\ archive[i].name \notin Above[delayed[j + 1].name]
    OBVIOUS
  <2>2. j + 1 \in 1 .. Len(delayed) /\ 1 < j + 1 /\ delayed'[j] = delayed[j + 1]
    BY <1>2
  <2>3. QED
    BY <1>3, <1>4, <2>2 DEF Before, TreeInv, RecordInv, RecordsInOrder
<1>12. ASSUME NEW n PROVE HasRecord(n)' <=> HasRecord(n) /\ n # archive[i].name
  <2>1. HasRecord(n)' => HasRecord(n) /\ n # archive[i].name
    BY <1>11 DEF HasRecord
  <2>2. ASSUME NEW j \in 1 .. Len(delayed), delayed[j].name = n, n # archive[i].name
        PROVE  HasRecord(n)'
    <3>1. j # 1
      BY <1>4, <2>2
    <3>2. PICK h \in 1 .. Len(delayed') : h = j - 1
      BY <1>2, <2>2, <3>1
    <3>3. delayed'[h] = delayed[h + 1] /\ h + 1 = j
      BY <1>2, <3>2
    <3>4. QED
      BY <2>2, <3>3 DEF HasRecord
  <2>3. QED
    BY <2>1, <2>2 DEF HasRecord
<1>13. EntriesMade'
  <2>1. SUFFICES ASSUME NEW k \in 1 .. at - 1 PROVE Meanwhile(k)'
    BY <1>1 DEF EntriesMade
  <2>2. CASE k = i
    <3>1. PICK n : n = archive[i].name
      OBVIOUS
    <3>2. ~HasRecord(n)'
      BY <1>12, <3>1
    <3>3. ~HasRecord(archive[k].name)'
      BY <1>1, <2>2, <3>1, <3>2 DEF HasRecord
    <3>4. DirMeanwhile(k)' = Made("dir", archive[i].mode, i, 0)
      BY <1>1, <2>2, <3>3 DEF DirMeanwhile, Made
    <3>5. QED
      BY <1>1, <1>4, <1>10, <2>2, <3>4 DEF Meanwhile
  <2>3. CASE k # i
    <3>1. disk'[archive[k].name] = disk[archive[k].name]
      BY <1>5, <1>10, <2>3
    <3>2. Meanwhile(k)
      BY DEF Before, TreeInv, DiskInv, EntriesMade
    <3>3. PICK n : n = archive[k].name /\ n # archive[i].name
      BY <1>5, <2>3
    <3>4. HasRecord(n)' <=> HasRecord(n)
      BY <1>12, <3>3
    <3>5. HasRecord(archive[k].name)' <=> HasRecord(archive[k].name)
      BY <1>1, <3>3, <3>4 DEF HasRecord
    <3>6. DirMeanwhile(k)' = DirMeanwhile(k)
      <4>1. CASE HasRecord(archive[k].name)
        BY <3>5, <4>1 DEF DirMeanwhile, Made
      <4>2. CASE ~HasRecord(archive[k].name)
        BY <1>1, <3>5, <4>2 DEF DirMeanwhile, Made
      <4>3. QED
        BY <4>1, <4>2
    <3>7. (Pending(k)' <=> Pending(k)) /\ (Waits(k)' <=> Waits(k))
      BY <1>1 DEF Pending, Waits
    <3>8. QED
      BY <1>1, <3>1, <3>2, <3>6, <3>7 DEF Meanwhile
  <2>4. QED
    BY <2>2, <2>3
<1>14. RestUntouched'
  <2>1. SUFFICES ASSUME NEW n \in Names, ~Seen(n) PROVE disk'[n] = Nothing
    BY <1>1 DEF RestUntouched, Seen, Nothing
  <2>2. n # archive[i].name
    BY <1>5, <2>1
  <2>3. QED
    BY <1>10, <2>1, <2>2 DEF Before, TreeInv, DiskInv, RestUntouched
<1>15. RecordsOfDirs'
  <2>1. SUFFICES ASSUME NEW j \in 1 .. Len(delayed')
                 PROVE  \E k \in 1 .. at - 1 : /\ archive[k].kind = "dir"
                                               /\ delayed'[j].name = archive[k].name
                                               /\ delayed'[j].mode = archive[k].mode
    BY <1>1 DEF RecordsOfDirs
  <2>2. j + 1 \in 1 .. Len(delayed) /\ delayed'[j] = delayed[j + 1]
    BY <1>11
  <2>3. QED
    BY <2>2 DEF Before, TreeInv, RecordInv, RecordsOfDirs
<1>16. RecordsInOrder'
  <2>1. SUFFICES ASSUME NEW h \in 1 .. Len(delayed'), NEW j \in 1 .. Len(delayed'), h < j
                 PROVE  /\ delayed'[h].name # delayed'[j].name
                        /\ delayed'[h].name \notin Above[delayed'[j].name]
    BY DEF RecordsInOrder
  <2>2. h + 1 \in 1 .. Len(delayed) /\ j + 1 \in 1 .. Len(delayed) /\ h + 1 < j + 1
    BY <1>11, <2>1
  <2>3. /\ delayed[h + 1].name # delayed[j + 1].name
        /\ delayed[h + 1].name \notin Above[delayed[j + 1].name]
    BY <2>2 DEF Before, TreeInv, RecordInv, RecordsInOrder
  <2>4. QED
    BY <1>11, <2>3
<1>17. RecordsReached'
  <2>1. SUFFICES ASSUME NEW j \in 1 .. Len(delayed'), NEW a \in Above[delayed'[j].name]
                 PROVE  HasRecord(a)' \/ disk'[a].mode = {"w", "x"}
    BY DEF RecordsReached, HasRecord
  <2>2. j + 1 \in 1 .. Len(delayed) /\ a \in Above[delayed[j + 1].name] /\ a # archive[i].name
    BY <1>11, <2>1
  <2>3. HasRecord(a) \/ disk[a].mode = {"w", "x"}
    BY <2>2 DEF Before, TreeInv, RecordInv, RecordsReached
  <2>4. PICK k \in 1 .. at - 1 : delayed[j + 1].name = archive[k].name
    BY <2>2 DEF Before, TreeInv, RecordInv, RecordsOfDirs
  <2>5. a \in Names
    BY <1>5, <2>2, <2>4, AboveIsNames
  <2>6. QED
    BY <1>10, <1>12, <2>2, <2>3, <2>5
<1>18. ReadOnlyDelayed'
  BY <1>1 DEF ReadOnlyDelayed
<1>19. PlaceholdersMade'
  BY <1>1 DEF Before, TreeInv, Phases, PlaceholdersMade
<1>20. DefermentsLate'
  BY <1>1 DEF Before, TreeInv, DefermentsLate
<1>21. Phases'
  BY <1>1 DEF Before, TreeInv, Phases
<1>22. QED
  BY <1>13, <1>14, <1>15, <1>16, <1>17, <1>18, <1>19, <1>20, <1>21
     DEF TreeInv, DiskInv, RecordInv

(* A link made last of all needs the directories above it to be open.      *)
LEMMA CreateFinalDeferKeeps ==
  ASSUME Before, DiskOK, CreateFinalDefer
  PROVE  TreeInv'
<1>1. /\ archive' = archive /\ noAbsPaths' = noAbsPaths /\ phase = "finals" /\ phase' = phase
      /\ UNCHANGED <<options, at, delayed, delayedLinks, kept>>
  BY DEF CreateFinalDefer, options
<1>2. /\ Len(deferments) \in Nat /\ Len(deferments) >= 1
      /\ Head(deferments) = deferments[1] /\ Len(deferments') = Len(deferments) - 1
      /\ \A j \in 1 .. Len(deferments') : deferments'[j] = deferments[j + 1]
  <2>1. deferments \in Seq(1 .. Len(archive)) /\ deferments # << >>
    BY DEF Before, DefermentsOK, CreateFinalDefer
  <2>2. Len(deferments) \in Nat /\ Len(deferments) >= 1
    BY <2>1, EmptySeq, LenProperties
  <2>3. QED
    BY <2>1, <2>2, HeadTailProperties DEF CreateFinalDefer
<1>3. PICK i : i = deferments[1]
  OBVIOUS
<1>4. i \in 1 .. at - 1 /\ archive[i].kind = "late" /\ Pending(i)
  <2>1. 1 \in 1 .. Len(deferments)
    BY <1>2
  <2>2. QED
    BY <1>3, <2>1 DEF Before, TreeInv, DefermentsLate, Pending
<1>5. /\ i \in 1 .. Len(archive) /\ archive[i].name \in Names /\ Seen(archive[i].name)
      /\ \A k \in 1 .. at - 1 : /\ k \in 1 .. Len(archive)
                                /\ archive[k].name \in Names
                                /\ k # i => archive[k].name # archive[i].name
  BY <1>4, OtherEntries
<1>6. PICK n \in Names : n = archive[i].name
  BY <1>5
<1>7. disk[n] = Nothing
  BY <1>4, <1>6 DEF Before, TreeInv, DiskInv, EntriesMade, Meanwhile
<1>8. \A a : ~HasRecord(a)
  BY <1>1 DEF Before, TreeInv, Phases, HasRecord
<1>9. \A a \in Above[n] :
        /\ disk[a].type = "dir"
        /\ ~ReadOnly(a) => disk[a].mode = {"w", "x"}
  <2>1. SUFFICES ASSUME NEW a \in Above[n]
                 PROVE  disk[a].type = "dir" /\ (~ReadOnly(a) => disk[a].mode = {"w", "x"})
    OBVIOUS
  <2>2. PICK m \in 1 .. i - 1 : /\ m \in 1 .. Len(archive) /\ archive[m].name = a
                                /\ archive[m].kind = "dir"
    BY <1>5, <1>6, <2>1, AboveIsEntry DEF Before
  <2>3. m \in 1 .. at - 1
    BY <1>4, <2>2, LengthOfArchive DEF Before, PlaceOK
  <2>4. disk[a] = Made("dir", archive[m].mode, m, 0)
    BY <1>8, <2>2, <2>3 DEF Before, TreeInv, DiskInv, EntriesMade, Meanwhile, DirMeanwhile
  <2>5. QED
    BY <2>2, <2>4 DEF ReadOnly, Made
<1>10. \A m \in Names \ {n} : Retried(CanOpen(disk, n), disk, n)[m] = disk[m]
  <2>1. CASE Retried(CanOpen(disk, n), disk, n) = disk
    BY <2>1
  <2>2. CASE Retried(CanOpen(disk, n), disk, n) = MakePath(disk, DirName(n))
    <3>1. \A a \in Above[DirName(n)] \cup {DirName(n)} : a = n \/ disk[a].type = "dir"
      <4>1. CASE Above[n] = {}
        BY <4>1 DEF DirName
      <4>2. CASE Above[n] # {}
        <5>1. DirName(n) \in Above[n]
          BY <4>2, ParentIsAbove DEF DirName
        <5>2. Above[DirName(n)] \subseteq Above[n]
          BY <5>1, AboveIsNames
        <5>3. QED
          BY <1>9, <5>1, <5>2
      <4>3. QED
        BY <4>1, <4>2
    <3>2. \A m \in Names \ {n} :
            m \notin {a \in Above[DirName(n)] \cup {DirName(n)} : disk[a].type = "none"}
      BY <3>1
    <3>3. QED
      BY <2>2, <3>2 DEF MakePath
  <2>3. QED
    BY <2>1, <2>2 DEF Retried, CreateAllDirectories
<1>11. PICK d \in Disks : d = Retried(CanOpen(disk, n), disk, n)
  BY RetriedType DEF Before, CanOpen, Special, DiskOK
<1>12. disk' = IF CanOpen(d, n) THEN Opened(d, n, i, 0) ELSE d
  BY <1>1, <1>2, <1>3, <1>6, <1>11 DEF CreateFinalDefer
<1>13. \A m \in Names \ {n} : disk'[m] = disk[m]
  BY <1>10, <1>11, <1>12 DEF Opened, Disks
<1>14. OpenAbove(n) => disk'[n].of = i
  <2>1. SUFFICES ASSUME OpenAbove(n) PROVE disk'[n].of = i
    OBVIOUS
  <2>2. \A a \in Above[n] : disk[a].type = "dir" /\ disk[a].mode = {"w", "x"}
    BY <1>9, <2>1 DEF OpenAbove
  <2>3. Reached(disk, n) /\ Writable(disk, n)
    BY <2>2, ParentIsAbove DEF Reached, Writable, IsDir
  <2>4. CanOpen(disk, n)
    BY <1>7, <2>3 DEF CanOpen, Free, Nothing
  <2>5. d = disk
    BY <1>11, <2>4 DEF Retried
  <2>6. disk' = [disk EXCEPT ![n] = Made("reg", {"w"}, i, 0)]
    BY <1>7, <1>12, <2>4, <2>5 DEF Opened, Special, Nothing, DiskOK, Disks
  <2>7. QED
    BY <2>6 DEF DiskOK, Disks, Made
<1>15. \A j \in 1 .. Len(deferments') :
         /\ j + 1 \in 1 .. Len(deferments) /\ deferments'[j] = deferments[j + 1]
         /\ deferments[j + 1] # i
  <2>1. SUFFICES ASSUME NEW j \in 1 .. Len(deferments')
                 PROVE /\ j + 1 \in 1 .. Len(deferments) /\ deferments'[j] = deferments[j + 1]
                       /\ deferments[j + 1] # i
    OBVIOUS
  <2>2. j + 1 \in 1 .. Len(deferments) /\ 1 \in 1 .. Len(deferments) /\ j + 1 # 1
        /\ deferments'[j] = deferments[j + 1]
    BY <1>2
  <2>3. QED
    BY <1>3, <2>2 DEF Before, TreeInv, DefermentsLate
<1>16. \A k : Pending(k)' <=> Pending(k) /\ k # i
  <2>1. ASSUME NEW k PROVE Pending(k)' => Pending(k) /\ k # i
    BY <1>15 DEF Pending
  <2>2. ASSUME NEW k, NEW j \in 1 .. Len(deferments), deferments[j] = k, k # i
        PROVE  Pending(k)'
    <3>1. j # 1
      BY <1>3, <2>2
    <3>2. PICK h \in 1 .. Len(deferments') : h = j - 1
      BY <1>2, <2>2, <3>1
    <3>3. deferments'[h] = deferments[h + 1] /\ h + 1 = j
      BY <1>2, <3>2
    <3>4. QED
      BY <2>2, <3>3 DEF Pending
  <2>3. QED
    BY <2>1, <2>2 DEF Pending
<1>17. EntriesMade'
  <2>1. SUFFICES ASSUME NEW k \in 1 .. at - 1 PROVE Meanwhile(k)'
    BY <1>1 DEF EntriesMade
  <2>2. OpenAbove(archive[k].name)' <=> OpenAbove(archive[k].name)
    BY <1>1 DEF OpenAbove, ReadOnly
  <2>3. CASE k = i
    <3>1. ~Pending(k)'
      BY <1>16, <2>3
    <3>2. QED
      BY <1>1, <1>4, <1>6, <1>14, <2>2, <2>3, <3>1 DEF Meanwhile
  <2>4. CASE k # i
    <3>1. disk'[archive[k].name] = disk[archive[k].name]
      BY <1>5, <1>6, <1>13, <2>4
    <3>2. Meanwhile(k)
      BY DEF Before, TreeInv, DiskInv, EntriesMade
    <3>3. DirMeanwhile(k)' = DirMeanwhile(k)
      BY <1>1 DEF DirMeanwhile, HasRecord
    <3>4. (Pending(k)' <=> Pending(k)) /\ (Waits(k)' <=> Waits(k))
      BY <1>1, <1>16, <2>4 DEF Waits
    <3>5. QED
      BY <1>1, <2>2, <3>1, <3>2, <3>3, <3>4 DEF Meanwhile
  <2>5. QED
    BY <2>3, <2>4
<1>18. RestUntouched'
  <2>1. SUFFICES ASSUME NEW m \in Names, ~Seen(m) PROVE disk'[m] = Nothing
    BY <1>1 DEF RestUntouched, Seen, Nothing
  <2>2. m # n
    BY <1>5, <1>6, <2>1
  <2>3. QED
    BY <1>13, <2>1, <2>2 DEF Before, TreeInv, DiskInv, RestUntouched
<1>19. RecordInv'
  <2>1. Len(delayed) = 0 /\ delayed' = delayed
    BY <1>1 DEF Before, TreeInv, Phases
  <2>2. QED
    BY <1>1, <2>1 DEF RecordInv, RecordsOfDirs, RecordsInOrder, RecordsReached, ReadOnlyDelayed
<1>20. PlaceholdersMade'
  BY <1>1 DEF Before, TreeInv, Phases, PlaceholdersMade
<1>21. DefermentsLate'
  <2>1. \A j \in 1 .. Len(deferments') :
          deferments'[j] \in 1 .. at - 1 /\ archive[deferments'[j]].kind = "late"
    BY <1>15 DEF Before, TreeInv, DefermentsLate
  <2>2. ASSUME NEW h \in 1 .. Len(deferments'), NEW j \in 1 .. Len(deferments'),
               deferments'[h] = deferments'[j]
        PROVE  h = j
    <3>1. /\ h + 1 \in 1 .. Len(deferments) /\ j + 1 \in 1 .. Len(deferments)
          /\ deferments[h + 1] = deferments[j + 1]
      BY <1>15, <2>2
    <3>2. h + 1 = j + 1
      BY <3>1 DEF Before, TreeInv, DefermentsLate
    <3>3. QED
      BY <3>2
  <2>3. QED
    BY <1>1, <2>1, <2>2 DEF DefermentsLate
<1>22. Phases'
  BY <1>1 DEF Before, TreeInv, Phases
<1>23. QED
  BY <1>17, <1>18, <1>19, <1>20, <1>21, <1>22 DEF TreeInv, DiskInv

-------------------------------------------------------------------------------
IInv == TypeOK /\ (Orderly => TreeInv)

LEMMA InitTree == Init => IInv
<1> SUFFICES ASSUME Init PROVE TreeInv
  BY InitTypeOK DEF IInv
<1>1. at = 1 /\ delayed = << >> /\ deferments = << >> /\ delayedLinks = << >> /\ phase = "entries"
      /\ disk = [n \in Names |-> Nothing]
  BY DEF Init
<1>2. Len(delayed) = 0 /\ Len(deferments) = 0 /\ DOMAIN delayedLinks = {} /\ 1 .. at - 1 = {}
  BY <1>1
<1>3. DiskInv
  BY <1>1, <1>2 DEF DiskInv, EntriesMade, RestUntouched
<1>4. RecordInv
  BY <1>2 DEF RecordInv, RecordsOfDirs, RecordsInOrder, RecordsReached, ReadOnlyDelayed
<1>5. PlaceholdersMade /\ DefermentsLate /\ Phases
  BY <1>1, <1>2 DEF PlaceholdersMade, DefermentsLate, Phases
<1>6. QED
  BY <1>3, <1>4, <1>5 DEF TreeInv

LEMMA StepTree == IInv /\ [Next]_vars => IInv'
<1> SUFFICES ASSUME IInv, [Next]_vars PROVE IInv'
  OBVIOUS
<1>1. TypeOK /\ TypeOK' /\ DiskOK
  BY StepTypeOK, TypeParts DEF IInv
<1>2. archive' = archive
  BY OptionsStay DEF options
<1> SUFFICES ASSUME Orderly' PROVE TreeInv'
  BY <1>1 DEF IInv
<1>3. Orderly
  BY <1>2 DEF Orderly
<1>4. Before
  BY <1>1, <1>3, TypeParts DEF Before, IInv
<1>5. CASE vars' = vars
  BY <1>4, <1>5, OnlyPhaseChanges DEF vars, options, Before, TreeInv, Phases
<1>6. CASE Next
  BY <1>1, <1>4, <1>6, HandlersKeep, PhasesKeep, ReplacePlaceholderKeeps, ApplyDelayedKeeps,
     CreateFinalDeferKeeps, NoLinkExits DEF Next, Handlers
<1>7. QED
  BY <1>5, <1>6

(* Every directory, file and symbolic link of an orderly archive is        *)
(* restored, below directories that nobody may write too, whatever the     *)
(* tree, the archive and the options; of the placeholders of links, those  *)
(* that unlink does not find stay.  The links of newc that are made last   *)
(* are promised below directories with all rights, and nothing is said of  *)
(* devices and of types that copy-in does not know.                        *)
THEOREM OrderlyArchivesRestored == Spec => []AllRestored
<1>1. IInv => AllRestored
  <2>1. SUFFICES ASSUME IInv, phase = "done", Orderly, NEW k \in 1 .. Len(archive)
                 PROVE  Restored(k)
    BY DEF AllRestored
  <2>2. TreeInv /\ ArchiveOK
    BY <2>1, TypeParts DEF IInv
  <2>3. k \in 1 .. at - 1 /\ Len(delayed) = 0 /\ Len(deferments) = 0
    BY <2>1, <2>2, LengthOfArchive DEF TreeInv, Phases
  <2>4. Meanwhile(k) /\ ~Pending(k) /\ ~HasRecord(archive[k].name)
    BY <2>2, <2>3 DEF TreeInv, DiskInv, EntriesMade, Pending, HasRecord
  <2>5. DirMeanwhile(k) = Made("dir", archive[k].mode, k, 0)
    BY <2>4 DEF DirMeanwhile
  <2>6. archive[k].kind \in AllKinds /\ (archive[k].kind = "reg" => archive[k].mode = {"w"})
    BY <2>1, <2>2, EntryFields, ExtractTreeAssumption
  <2>7. CASE archive[k].kind \in {"dir", "reg"}
    <3>1. disk[archive[k].name] = Made(archive[k].kind, archive[k].mode, k, 0)
      BY <2>4, <2>5, <2>6, <2>7 DEF Meanwhile
    <3>2. QED
      BY <2>7, <3>1 DEF Restored
  <2>8. CASE archive[k].kind = "lnk"
    <3>1. \/ disk[archive[k].name] = Made("lnk", {}, k, 0)
          \/ k \in kept /\ disk[archive[k].name] = Made("reg", {"w"}, k, k)
      <4>1. DOMAIN delayedLinks = {}
        BY <2>1, <2>2 DEF TreeInv, Phases
      <4>2. QED
        BY <2>4, <2>8, <4>1 DEF Meanwhile, Waits
    <3>2. Made("lnk", {}, k, 0).of = k /\ Made("lnk", {}, k, 0).type = "lnk"
          /\ Made("reg", {"w"}, k, k).of = k /\ Made("reg", {"w"}, k, k).type = "reg"
      BY DEF Made
    <3>3. CASE disk[archive[k].name] = Made("lnk", {}, k, 0)
      BY <2>8, <3>2, <3>3 DEF Restored
    <3>4. CASE k \in kept /\ disk[archive[k].name] = Made("reg", {"w"}, k, k)
      BY <2>8, <3>2, <3>4 DEF Restored
    <3>5. QED
      BY <3>1, <3>3, <3>4
  <2>9. CASE archive[k].kind = "late"
    <3>1. OpenAbove(archive[k].name) => disk[archive[k].name].of = k
      BY <2>4, <2>9 DEF Meanwhile
    <3>2. QED
      BY <2>9, <3>1 DEF Restored, OpenAbove
  <2>10. CASE archive[k].kind \in {"dev", "other"}
    BY <2>10 DEF Restored
  <2>11. QED
    BY <2>6, <2>7, <2>8, <2>9, <2>10 DEF AllKinds
<1>2. QED
  BY <1>1, InitTree, StepTree, PTL DEF Spec

-------------------------------------------------------------------------------
(* The extraction of files alone, with -d: what is on the disk is theirs.  *)
FilesAndDirs(d) ==
  \A n \in Names :
    \/ d[n].type = "none"
    \/ /\ d[n].type = "dir" /\ d[n].mode = {"w", "x"}
       /\ \E k \in 1 .. Len(archive) : n \in Above[archive[k].name]
    \/ /\ d[n].type = "reg" /\ d[n].mode = {"w"}
       /\ \E k \in 1 .. Len(archive) : n = archive[k].name
Rooted(d) ==
  \A n \in Names : d[n].type # "none" => \A a \in Above[n] : d[a].type = "dir"
InShort(n) == Above[n] # {} /\ Parent(n) \in Short
FilesMade ==
  \A k \in 1 .. at - 1 : disk[archive[k].name].type = "reg" \/ InShort(archive[k].name)
NothingLeft == /\ Len(delayed) = 0 /\ Len(deferments) = 0 /\ DOMAIN delayedLinks = {}
               /\ phase # "entries" => at = Len(archive) + 1
FilesInv == FilesAndDirs(disk) /\ Rooted(disk) /\ FilesMade /\ NothingLeft

LEMMA FilesAbove ==
  ASSUME ArchiveOK, OnlyFiles, NEW d \in Disks, FilesAndDirs(d), NEW k \in 1 .. Len(archive)
  PROVE  /\ archive[k].name \in Names /\ d[archive[k].name].type # "dir"
         /\ \A a \in Above[archive[k].name] :
              /\ a \in Names
              /\ d[a].type = "none" \/ (d[a].type = "dir" /\ d[a].mode = {"w", "x"})
<1>1. archive[k].name \in Names
  BY EntryFields
<1>2. d[archive[k].name].type # "dir"
  BY <1>1 DEF FilesAndDirs, OnlyFiles
<1>3. ASSUME NEW a \in Above[archive[k].name]
      PROVE  a \in Names /\ (d[a].type = "none" \/ (d[a].type = "dir" /\ d[a].mode = {"w", "x"}))
  <2>1. a \in Names
    BY <1>1, <1>3, AboveIsNames
  <2>2. \A j \in 1 .. Len(archive) : a # archive[j].name
    BY <1>3 DEF OnlyFiles
  <2>3. QED
    BY <2>1, <2>2 DEF FilesAndDirs
<1>4. QED
  BY <1>1, <1>2, <1>3

LEMMA OpenDirsWritable ==
  ASSUME NEW d, NEW n \in Names,
         \A a \in Above[n] : d[a].type = "dir" /\ d[a].mode = {"w", "x"}
  PROVE  Reached(d, n) /\ Writable(d, n)
BY ParentIsAbove DEF Reached, Writable, IsDir

LEMMA ClearedFiles ==
  ASSUME ArchiveOK, PlaceOK, DiskOK, Extracting, OnlyFiles, FilesAndDirs(disk), Rooted(disk)
  PROVE  \E c \in Disks :
           /\ \A found \in Found : Cleared(found) = c
           /\ c[Name].type = "none"
           /\ \A n \in Names \ {Name} : c[n] = disk[n]
           /\ FilesAndDirs(c) /\ Rooted(c)
<1>1. at \in 1 .. Len(archive) /\ Name = archive[at].name /\ Name \in Names /\ Cur.kind = "reg"
  BY CurFacts DEF Name, Cur, OnlyFiles
<1>2. disk \in Disks
  BY DEF DiskOK
<1>3. \/ disk[Name].type = "none"
      \/ disk[Name].type = "reg"
  BY <1>1, <1>2, FilesAbove DEF FilesAndDirs
<1>4. PICK c \in Disks : /\ \A found \in Found : Cleared(found) = c
                         /\ c[Name].type = "none"
                         /\ \A n \in Names \ {Name} : c[n] = disk[n]
  <2>1. CASE disk[Name].type = "none"
    <3>1. Found = {"none"}
      BY <2>1 DEF Found
    <3>2. Cleared("none") = disk
      BY DEF Cleared, InTheWay
    <3>3. QED
      BY <1>2, <2>1, <3>1, <3>2
  <2>2. CASE disk[Name].type = "reg"
    <3>1. \A a \in Above[Name] : disk[a].type = "dir" /\ disk[a].mode = {"w", "x"}
      BY <1>1, <1>2, <2>2, FilesAbove DEF Rooted
    <3>2. Reached(disk, Name) /\ Removable(disk, Name)
      BY <1>1, <2>2, <3>1, OpenDirsWritable DEF Removable, IsDir
    <3>3. Found = {"reg"}
      BY <2>2, <3>2 DEF Found
    <3>4. Cleared("reg") = [disk EXCEPT ![Name] = Nothing]
      BY <2>2, <3>2 DEF Cleared, InTheWay, BothDirs
    <3>5. Cleared("reg") \in Disks
      BY ClearedType
    <3>6. Cleared("reg")[Name].type = "none"
          /\ \A n \in Names \ {Name} : Cleared("reg")[n] = disk[n]
      BY <1>1, <1>2, <3>4 DEF Disks, Nothing
    <3>7. QED
      BY <3>3, <3>5, <3>6
  <2>3. QED
    BY <1>3, <2>1, <2>2
<1>5. FilesAndDirs(c)
  <2>1. SUFFICES ASSUME NEW n \in Names
                 PROVE  \/ c[n].type = "none"
                        \/ /\ c[n].type = "dir" /\ c[n].mode = {"w", "x"}
                           /\ \E k \in 1 .. Len(archive) : n \in Above[archive[k].name]
                        \/ /\ c[n].type = "reg" /\ c[n].mode = {"w"}
                           /\ \E k \in 1 .. Len(archive) : n = archive[k].name
    BY DEF FilesAndDirs
  <2>2. c[n].type = "none" \/ c[n] = disk[n]
    BY <1>4
  <2>3. QED
    BY <2>2 DEF FilesAndDirs
<1>6. Rooted(c)
  <2>1. SUFFICES ASSUME NEW n \in Names, c[n].type # "none", NEW a \in Above[n]
                 PROVE  c[a].type = "dir"
    BY DEF Rooted
  <2>2. c[n] = disk[n]
    BY <1>4, <2>1
  <2>3. disk[a].type = "dir" /\ a \in Names
    BY <2>1, <2>2, AboveIsNames DEF Rooted
  <2>4. a # Name
    BY <1>3, <2>3
  <2>5. QED
    BY <1>4, <2>3, <2>4
<1>7. QED
  BY <1>4, <1>5, <1>6

(* The missing directories of a file are made from the top.                *)
LEMMA PathMade ==
  ASSUME ArchiveOK, OnlyFiles, NEW d \in Disks, FilesAndDirs(d), Rooted(d),
         NEW k \in 1 .. Len(archive), NEW n, n = archive[k].name,
         d[n].type = "none", Above[n] # {}, ~CanOpen(d, n),
         NEW e, e = MakePath(d, Parent(n))
  PROVE  /\ e \in Disks /\ FilesAndDirs(e) /\ Rooted(e) /\ CanOpen(e, n)
         /\ e[n].type = "none"
         /\ \A m \in Names : d[m].type # "none" => e[m] = d[m]
<1> DEFINE missing == {a \in Above[Parent(n)] \cup {Parent(n)} : d[a].type = "none"}
<1>1. n \in Names /\ Parent(n) \in Above[n] /\ Parent(n) \in Names
  BY EntryFields, ParentIsAbove
<1>2. \A a \in Above[n] :
        /\ a \in Names
        /\ d[a].type = "none" \/ (d[a].type = "dir" /\ d[a].mode = {"w", "x"})
  BY FilesAbove
<1>3. Above[Parent(n)] \cup {Parent(n)} = Above[n]
  <2>1. Above[Parent(n)] \subseteq Above[n]
    BY <1>1, AboveIsNames
  <2>2. \E p \in Above[n] : \A a \in Above[n] : a = p \/ a \in Above[p]
    BY <1>1, ExtractTreeAssumption
  <2>3. \A a \in Above[n] : a = Parent(n) \/ a \in Above[Parent(n)]
    BY <2>2 DEF Parent
  <2>4. QED
    BY <1>1, <2>1, <2>3
<1>4. missing = {a \in Above[n] : d[a].type = "none"}
  BY <1>3
<1>5. missing # {}
  <2>1. SUFFICES ASSUME missing = {} PROVE FALSE
    OBVIOUS
  <2>2. \A a \in Above[n] : d[a].type = "dir" /\ d[a].mode = {"w", "x"}
    BY <1>2, <1>4, <2>1
  <2>3. Writable(d, n)
    BY <1>1, <2>2, OpenDirsWritable
  <2>4. QED
    BY <2>3 DEF CanOpen, Free, Special
<1>6. PICK a \in missing : Above[a] \cap missing = {}
  <2>1. missing \in SUBSET Names
    BY <1>2, <1>4
  <2>2. QED
    BY <1>5, <2>1, ExtractTreeAssumption
<1>7. Writable(d, a)
  <2>1. a \in Names /\ Above[a] \subseteq Above[n]
    BY <1>1, <1>2, <1>4, <1>6, AboveIsNames
  <2>2. \A b \in Above[a] : d[b].type = "dir" /\ d[b].mode = {"w", "x"}
    BY <1>2, <1>4, <1>6, <2>1
  <2>3. QED
    BY <2>1, <2>2, OpenDirsWritable
<1>8. e = [m \in Names |-> IF m \in missing THEN Made("dir", {"w", "x"}, 0, 0) ELSE d[m]]
  BY <1>6, <1>7 DEF MakePath
<1>9. e \in Disks
  BY <1>1, MakePathType
<1>10. \A m \in Names : IF m \in Above[n] /\ d[m].type = "none"
                        THEN e[m] = Made("dir", {"w", "x"}, 0, 0) ELSE e[m] = d[m]
  BY <1>4, <1>8
<1>11. \A b \in Above[n] : b \in Names /\ e[b].type = "dir" /\ e[b].mode = {"w", "x"}
  BY <1>2, <1>10 DEF Made
<1>12. n \notin Above[n]
  BY <1>1, AboveIsNames
<1>13. e[n].type = "none" /\ CanOpen(e, n)
  BY <1>1, <1>10, <1>11, <1>12, OpenDirsWritable DEF CanOpen, Free
<1>14. FilesAndDirs(e)
  <2>1. SUFFICES ASSUME NEW m \in Names
                 PROVE  \/ e[m].type = "none"
                        \/ /\ e[m].type = "dir" /\ e[m].mode = {"w", "x"}
                           /\ \E j \in 1 .. Len(archive) : m \in Above[archive[j].name]
                        \/ /\ e[m].type = "reg" /\ e[m].mode = {"w"}
                           /\ \E j \in 1 .. Len(archive) : m = archive[j].name
    BY DEF FilesAndDirs
  <2>2. CASE m \in Above[n]
    BY <1>11, <2>2
  <2>3. CASE m \notin Above[n]
    BY <1>10, <2>3 DEF FilesAndDirs
  <2>4. QED
    BY <2>2, <2>3
<1>15. Rooted(e)
  <2>1. SUFFICES ASSUME NEW m \in Names, e[m].type # "none", NEW b \in Above[m]
                 PROVE  e[b].type = "dir"
    BY DEF Rooted
  <2>2. CASE m \in Above[n]
    <3>1. b \in Above[n]
      BY <1>1, <2>1, <2>2, AboveIsNames
    <3>2. QED
      BY <1>11, <3>1
  <2>3. CASE m \notin Above[n]
    <3>1. d[m].type # "none"
      BY <1>10, <2>1, <2>3
    <3>2. d[b].type = "dir" /\ b \in Names
      BY <2>1, <3>1, AboveIsNames DEF Rooted
    <3>3. QED
      BY <1>10, <3>2
  <2>4. QED
    BY <2>2, <2>3
<1>16. \A m \in Names : d[m].type # "none" => e[m] = d[m]
  BY <1>10
<1>17. QED
  BY <1>9, <1>13, <1>14, <1>15, <1>16

LEMMA FileOpened ==
  ASSUME ArchiveOK, OnlyFiles, NEW d \in Disks, FilesAndDirs(d), Rooted(d),
         NEW k \in 1 .. Len(archive), NEW n, n = archive[k].name,
         d[n].type = "none", CanOpen(d, n),
         NEW i \in 0 .. Len(archive), NEW e, e = Opened(d, n, k, i)
  PROVE  /\ FilesAndDirs(e) /\ Rooted(e) /\ e[n].type = "reg"
         /\ \A m \in Names \ {n} : e[m] = d[m]
<1>1. n \in Names
  BY EntryFields
<1>2. e = [d EXCEPT ![n] = Made("reg", {"w"}, k, i)]
  BY <1>1 DEF Opened, Special, Disks
<1>3. /\ e[n].type = "reg" /\ e[n].mode = {"w"}
      /\ \A m \in Names \ {n} : e[m] = d[m]
  BY <1>1, <1>2 DEF Made, Disks
<1>4. \A a \in Above[n] : d[a].type = "dir"
  BY DEF CanOpen, Free, Writable, Reached, IsDir
<1>5. FilesAndDirs(e)
  <2>1. SUFFICES ASSUME NEW m \in Names
                 PROVE  \/ e[m].type = "none"
                        \/ /\ e[m].type = "dir" /\ e[m].mode = {"w", "x"}
                           /\ \E j \in 1 .. Len(archive) : m \in Above[archive[j].name]
                        \/ /\ e[m].type = "reg" /\ e[m].mode = {"w"}
                           /\ \E j \in 1 .. Len(archive) : m = archive[j].name
    BY DEF FilesAndDirs
  <2>2. CASE m = n
    BY <1>3, <2>2
  <2>3. CASE m # n
    <3>1. e[m] = d[m]
      BY <1>3, <2>3
    <3>2. QED
      BY <3>1 DEF FilesAndDirs
  <2>4. QED
    BY <2>2, <2>3
<1>6. Rooted(e)
  <2>1. SUFFICES ASSUME NEW m \in Names, e[m].type # "none", NEW a \in Above[m]
                 PROVE  e[a].type = "dir"
    BY DEF Rooted
  <2>2. a \in Names /\ d[a].type = "dir"
    BY <1>3, <1>4, <2>1, AboveIsNames DEF Rooted
  <2>3. QED
    BY <1>3, <2>2
<1>7. QED
  BY <1>3, <1>5, <1>6

FilesBefore == /\ ArchiveOK /\ PlaceOK /\ DiskOK /\ DelayedOK /\ LinksOK /\ DefermentsOK
               /\ OnlyFiles /\ createDir /\ FilesInv

LEMMA CopyinRegularFiles ==
  ASSUME FilesBefore, CopyinRegular
  PROVE  FilesAndDirs(disk') /\ Rooted(disk') /\ FilesMade'
<1>1. /\ at \in 1 .. Len(archive) /\ Len(archive) \in Nat
      /\ Name = archive[at].name /\ Name \in Names /\ at' = at + 1 /\ archive' = archive
  BY CurFacts DEF FilesBefore, CopyinRegular, Handle, Name, Cur, options
<1>2. PICK d \in Disks : /\ \A found \in Found : Cleared(found) = d
                         /\ d[Name].type = "none"
                         /\ \A n \in Names \ {Name} : d[n] = disk[n]
                         /\ FilesAndDirs(d) /\ Rooted(d)
  BY ClearedFiles DEF FilesBefore, FilesInv, CopyinRegular, Handle
<1>3. PICK e \in Disks : e = Retried(CanOpen(d, Name), d, Name)
  BY <1>1, RetriedType DEF CanOpen, Special, FilesBefore
<1>4. /\ FilesAndDirs(e) /\ Rooted(e) /\ e[Name].type = "none"
      /\ \A m \in Names : d[m].type # "none" => e[m] = d[m]
      /\ CanOpen(e, Name) \/ InShort(Name)
  <2>1. CASE CanOpen(d, Name)
    BY <1>2, <1>3, <2>1 DEF Retried
  <2>2. CASE ~CanOpen(d, Name)
    <3>1. Above[Name] # {}
      BY <1>2, <2>2 DEF CanOpen, Free, Writable, Reached
    <3>2. e = CreateAllDirectories(d, Name) /\ DirName(Name) = Parent(Name)
      BY <1>3, <2>2, <3>1 DEF Retried, DirName, FilesBefore
    <3>3. CASE Parent(Name) \in Short
      <4>1. e = d
        BY <3>2, <3>3 DEF CreateAllDirectories
      <4>2. QED
        BY <1>2, <3>1, <3>3, <4>1 DEF InShort
    <3>4. CASE Parent(Name) \notin Short
      <4>1. e = MakePath(d, Parent(Name))
        BY <3>2, <3>4 DEF CreateAllDirectories
      <4>2. QED
        BY <1>1, <1>2, <2>2, <3>1, <4>1, PathMade DEF FilesBefore
    <3>5. QED
      BY <3>3, <3>4
  <2>3. QED
    BY <2>1, <2>2
<1>5. /\ FilesAndDirs(disk') /\ Rooted(disk')
      /\ \A m \in Names \ {Name} : disk'[m] = e[m]
      /\ disk'[Name].type = "reg" \/ InShort(Name)
  <2>1. CASE CanOpen(e, Name)
    <3>1. PICK i \in NewInodes(e) : disk' = Opened(e, Name, at, i)
      BY <1>2, <1>3, <2>1 DEF CopyinRegular
    <3>2. i \in 0 .. Len(archive)
      BY <3>1, NewInodesType DEF FilesBefore
    <3>3. QED
      BY <1>1, <1>4, <2>1, <3>1, <3>2, FileOpened DEF FilesBefore
  <2>2. CASE ~CanOpen(e, Name)
    <3>1. disk' = e
      BY <1>2, <1>3, <2>2 DEF CopyinRegular
    <3>2. QED
      BY <1>4, <2>2, <3>1
  <2>3. QED
    BY <2>1, <2>2
<1>6. FilesMade'
  <2>1. at' - 1 = at
    BY <1>1
  <2>2. SUFFICES ASSUME NEW k \in 1 .. at
                 PROVE  disk'[archive[k].name].type = "reg" \/ InShort(archive[k].name)
    BY <1>1, <2>1 DEF FilesMade, InShort
  <2>3. CASE archive[k].name = Name
    BY <1>5, <2>3
  <2>4. CASE archive[k].name # Name
    <3>1. k \in 1 .. at - 1 /\ k \in 1 .. Len(archive)
      BY <1>1, <2>2, <2>4
    <3>2. archive[k].name \in Names \ {Name}
      BY <2>4, <3>1, EntryFields DEF FilesBefore
    <3>3. CASE InShort(archive[k].name)
      BY <3>3
    <3>4. CASE disk[archive[k].name].type = "reg"
      <4>1. d[archive[k].name].type = "reg"
        BY <1>2, <3>2, <3>4
      <4>2. disk'[archive[k].name] = d[archive[k].name]
        BY <1>4, <1>5, <3>2, <4>1
      <4>3. QED
        BY <4>1, <4>2
    <3>5. QED
      BY <3>1, <3>3, <3>4 DEF FilesBefore, FilesInv, FilesMade
  <2>5. QED
    BY <2>3, <2>4
<1>7. QED
  BY <1>5, <1>6

LEMMA NotCreatedFiles ==
  ASSUME FilesBefore, NotCreated
  PROVE  FilesMade'
<1>1. /\ at \in 1 .. Len(archive) /\ Len(archive) \in Nat
      /\ Name = archive[at].name /\ Name \in Names /\ at' = at + 1 /\ archive' = archive
      /\ disk' = disk
  BY CurFacts DEF FilesBefore, NotCreated, Name, Cur, options
<1>2. disk[Name].type = "reg"
  <2>1. disk[Name].type # "dir"
    BY <1>1, FilesAbove DEF FilesBefore, FilesInv, DiskOK
  <2>2. QED
    BY <1>1, <2>1 DEF NotCreated, InTheWay, Found, FilesBefore, FilesInv, FilesAndDirs
<1>3. at' - 1 = at
  BY <1>1
<1>4. SUFFICES ASSUME NEW k \in 1 .. at
               PROVE  disk[archive[k].name].type = "reg" \/ InShort(archive[k].name)
  BY <1>1, <1>3 DEF FilesMade, InShort
<1>5. CASE k = at
  BY <1>1, <1>2, <1>5
<1>6. CASE k # at
  <2>1. k \in 1 .. at - 1
    BY <1>1, <1>4, <1>6
  <2>2. QED
    BY <2>1 DEF FilesBefore, FilesInv, FilesMade
<1>7. QED
  BY <1>5, <1>6

LEMMA StepFiles ==
  ASSUME FilesBefore, [Next]_vars
  PROVE  FilesInv'
<1>1. archive' = archive
  BY OptionsStay DEF options
<1>2. SUFFICES FilesAndDirs(disk') /\ Rooted(disk') /\ FilesMade' /\ NothingLeft'
  BY <1>1 DEF FilesInv, FilesAndDirs, Rooted
<1>3. /\ FilesAndDirs(disk) /\ Rooted(disk) /\ FilesMade /\ NothingLeft
  BY DEF FilesBefore, FilesInv
<1>4. CASE Handlers \/ NotCreated
  <2>1. Extracting /\ phase' = phase
    BY <1>4, HandlersMoveOn DEF NotCreated
  <2>2. Cur.kind = "reg"
    BY <2>1, CurFacts DEF FilesBefore, OnlyFiles
  <2>3. CopyinRegular \/ NotCreated
    BY <1>4, <2>2 DEF Handlers, CreateDir, CopyinLink, SymlinkPlaceholder,
                      CopyinDevice, CopyinUnknown, DeferCopyin, Handle
  <2>4. FilesAndDirs(disk') /\ Rooted(disk') /\ FilesMade'
    BY <1>3, <2>3, CopyinRegularFiles, NotCreatedFiles DEF NotCreated
  <2>5. UNCHANGED <<delayed, delayedLinks, deferments>>
    BY <2>3 DEF CopyinRegular, NotCreated
  <2>6. NothingLeft'
    BY <1>3, <2>1, <2>5 DEF NothingLeft, Extracting
  <2>7. QED
    BY <2>4, <2>6
<1>5. CASE ~(Handlers \/ NotCreated)
  <2>1. ~ReplacePlaceholder
    BY <1>3 DEF ReplacePlaceholder, NothingLeft
  <2>2. ~ApplyDelayed
    BY <1>3, EmptySeq DEF ApplyDelayed, NothingLeft, FilesBefore, DelayedOK
  <2>3. ~CreateFinalDefer
    BY <1>3, EmptySeq DEF CreateFinalDefer, NothingLeft, FilesBefore, DefermentsOK
  <2>4. ~CopyinLinkExits
    BY CurFacts DEF CopyinLinkExits, FilesBefore, OnlyFiles
  <2>5. UNCHANGED <<at, disk, delayed, delayedLinks, deferments>>
    BY <1>5, <2>1, <2>2, <2>3, <2>4
       DEF Next, Handlers, vars, EndOfArchive, AllReplaced, AllApplied, Finish
  <2>6. phase' # "entries" => at = Len(archive) + 1
    <3>1. CASE EndOfArchive
      BY <3>1, LengthOfArchive DEF EndOfArchive, FilesBefore, PlaceOK
    <3>2. CASE ~EndOfArchive
      BY <1>3, <1>5, <2>1, <2>2, <2>3, <2>4, <3>2
         DEF Next, Handlers, vars, AllReplaced, AllApplied, Finish, NothingLeft
    <3>3. QED
      BY <3>1, <3>2
  <2>7. FilesMade'
    BY <1>1, <1>3, <2>5 DEF FilesMade, InShort
  <2>8. QED
    BY <1>1, <1>3, <2>5, <2>6, <2>7 DEF NothingLeft
<1>6. QED
  BY <1>4, <1>5

FilesIInv == TypeOK /\ (OnlyFiles /\ createDir => FilesInv)

(* With -d every file is made, except below a directory that stands alone  *)
(* in its path with a name of one character.                               *)
THEOREM LeadingDirectories == Spec => []LeadingDirectoriesMade
<1>1. Init => FilesIInv
  <2>1. SUFFICES ASSUME Init PROVE FilesInv
    BY InitTypeOK DEF FilesIInv
  <2>2. at = 1 /\ delayed = << >> /\ deferments = << >> /\ delayedLinks = << >>
        /\ phase = "entries" /\ disk = [n \in Names |-> Nothing]
    BY <2>1 DEF Init
  <2>3. Len(delayed) = 0 /\ Len(deferments) = 0 /\ DOMAIN delayedLinks = {} /\ 1 .. at - 1 = {}
    BY <2>2
  <2>4. \A n \in Names : disk[n].type = "none"
    BY <2>2 DEF Nothing
  <2>5. QED
    BY <2>2, <2>3, <2>4 DEF FilesInv, FilesAndDirs, Rooted, FilesMade, NothingLeft
<1>2. FilesIInv /\ [Next]_vars => FilesIInv'
  <2>1. SUFFICES ASSUME FilesIInv, [Next]_vars PROVE FilesIInv'
    OBVIOUS
  <2>2. TypeOK /\ TypeOK'
    BY <2>1, StepTypeOK DEF FilesIInv
  <2>3. archive' = archive /\ createDir' = createDir
    BY <2>1, OptionsStay DEF options
  <2>4. OnlyFiles' <=> OnlyFiles
    BY <2>3 DEF OnlyFiles
  <2>5. ASSUME OnlyFiles, createDir PROVE FilesInv'
    <3>1. FilesBefore
      BY <2>1, <2>2, <2>5, TypeParts DEF FilesBefore, FilesIInv
    <3>2. QED
      BY <2>1, <3>1, StepFiles
  <2>6. QED
    BY <2>2, <2>3, <2>4, <2>5 DEF FilesIInv
<1>3. FilesIInv => LeadingDirectoriesMade
  <2>1. SUFFICES ASSUME FilesInv, TypeOK, phase = "done", NEW k \in 1 .. Len(archive)
                 PROVE  disk[archive[k].name].type = "reg" \/ InShort(archive[k].name)
    BY DEF FilesIInv, LeadingDirectoriesMade, InShort
  <2>2. k \in 1 .. at - 1
    BY <2>1, LengthOfArchive, TypeParts DEF FilesInv, NothingLeft
  <2>3. QED
    BY <2>1, <2>2 DEF FilesInv, FilesMade
<1>4. QED
  BY <1>1, <1>2, <1>3, PTL DEF Spec

===============================================================================
