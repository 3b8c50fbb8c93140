------------------------------ MODULE CopyInProofs ------------------------------
(***************************************************************************)
(* What holds of the extraction of every archive: links are made between   *)
(* entries of one file only; an old file that is not older than its entry  *)
(* stays; and, when the system refuses nothing, the links of a file that   *)
(* waited for its contents have got them, and the reader never loses its   *)
(* place between two headers unless a verbose listing was asked for or an  *)
(* entry is oversized.                                                     *)
(***************************************************************************)
EXTENDS CopyIn, SequenceTheorems, TLAPS

(* The entry in hand is one of the archive, and the name it is extracted   *)
(* under belongs to the same file, also when a skipped entry has handed    *)
(* its contents to a deferred link.                                        *)
Place ==
  /\ ino \in [Entries -> Inodes]
  /\ disk \in [Entries -> {Absent, Old} \cup Entries]
  /\ next \in 1 .. N + 2
  /\ cur \in 0 .. N
  /\ deferments \in Seq(Entries)
  /\ phase \in {"header", "dispatch", "create", "regular", "links", "final", "done"}
  /\ phase \in {"dispatch", "create", "regular", "links"} => cur \in Entries
  /\ phase \in {"dispatch", "create"} => target = cur
  /\ phase \in {"regular", "links"} => target \in Entries /\ ino[target] = ino[cur]

LInv == Place /\ LinksOfOneFile

-------------------------------------------------------------------------------
LEMMA NumbersOfEntries ==
  /\ N \in Nat \ {0}
  /\ Entries = 1 .. N
  /\ Absent \notin Entries /\ Old \notin Entries
BY CopyInAssumption DEF Entries, Absent, Old

(* What is left of the deferments are deferments.                          *)
LEMMA WithoutIsDeferments ==
  ASSUME NEW S, deferments \in Seq(S), NEW p \in Nat, NEW h \in Nat,
         p < h, h <= Last
  PROVE  Without(p, h) \in Seq(S)
<1>1. Last \in Nat
  BY LenProperties DEF Last
<1>2. \A i \in p + 1 .. h - 1 : deferments[i] \in S
  BY <1>1, ElementOfSeq DEF Last
<1>3. \A i \in h + 1 .. Last : deferments[i] \in S
  BY <1>1, ElementOfSeq DEF Last
<1>4. SubSeq(deferments, p + 1, h - 1) \in Seq(S)
  BY <1>1, <1>2, SubSeqProperties
<1>5. SubSeq(deferments, h + 1, Last) \in Seq(S)
  BY <1>1, <1>3, SubSeqProperties
<1>6. QED
  BY <1>4, <1>5, ConcatProperties DEF Without

LEMMA InitLInv == Init => LInv
<1> SUFFICES ASSUME Init PROVE LInv
  OBVIOUS
<1>1. Place
  BY NumbersOfEntries, EmptySeq DEF Init, Place
<1>2. LinksOfOneFile
  BY NumbersOfEntries DEF Init, LinksOfOneFile
<1>3. QED
  BY <1>1, <1>2 DEF LInv

(* A step that changes at most one name, and gives it to a link of its     *)
(* file or removes it, makes no link between two files.                    *)
LEMMA NamingKeepsLinks ==
  ASSUME LInv, ino' = ino, NEW name \in Entries, NEW file,
         \/ file \in Entries /\ ino[file] = ino[name]
         \/ file \in {Absent, Old},
         disk' = [disk EXCEPT ![name] = file]
  PROVE  /\ disk' \in [Entries -> {Absent, Old} \cup Entries]
         /\ LinksOfOneFile'
<1>1. disk' \in [Entries -> {Absent, Old} \cup Entries]
  BY DEF LInv, Place
<1>2. \A k \in Entries : disk'[k] = IF k = name THEN file ELSE disk[k]
  BY DEF LInv, Place
<1>3. QED
  BY <1>1, <1>2, NumbersOfEntries DEF LInv, LinksOfOneFile

LEMMA SameNamesSameLinks ==
  ASSUME LInv, ino' = ino, disk' = disk
  PROVE  /\ disk' \in [Entries -> {Absent, Old} \cup Entries]
         /\ LinksOfOneFile'
BY DEF LInv, Place, LinksOfOneFile

(* The steps that handle the entry in hand and leave the deferred links as *)
(* they are, or put the entry itself among them.                           *)
Handles == \/ SkipEntry \/ ListFile \/ PassOver \/ QueryRename \/ KeepOld
           \/ TryExisting \/ DeferCopyin \/ BeginRegular \/ CreateNode
           \/ CopyinLink

LEMMA StepKeepsLInv == LInv /\ [Next]_vars => LInv'
<1> SUFFICES ASSUME LInv, [Next]_vars PROVE LInv'
  OBVIOUS
<1> USE NumbersOfEntries
<1>1. CASE UNCHANGED vars
  BY <1>1 DEF LInv, Place, LinksOfOneFile, vars, archive
<1>2. CASE ReadInHeader
  <2>1. ino' = ino /\ disk' = disk /\ deferments' = deferments
    BY <1>2 DEF ReadInHeader, archive
  <2>2. Found \in 1 .. N /\ cur' = Found /\ target' = Found /\ next' = Found + 1
        /\ phase' = "dispatch"
    BY <1>2 DEF ReadInHeader, Found, LInv, Place
  <2>3. Place'
    BY <2>1, <2>2 DEF LInv, Place
  <2>4. QED
    BY <2>1, <2>3, SameNamesSameLinks DEF LInv
<1>3. CASE Premature \/ ReadTrailer
  <2>1. /\ ino' = ino /\ disk' = disk /\ deferments' = deferments
        /\ next' = next /\ cur' = cur
        /\ phase' \in {"header", "final"}
    BY <1>3 DEF Premature, ReadTrailer, archive
  <2>2. Place'
    BY <2>1 DEF LInv, Place
  <2>3. QED
    BY <2>1, <2>2, SameNamesSameLinks DEF LInv
<1>4. CASE Handles
  <2>1. /\ ino' = ino /\ next' = next /\ cur' = cur /\ target' = target
        /\ phase \in {"dispatch", "create"}
        /\ phase' \in {"header", "dispatch", "create", "regular"}
    BY <1>4 DEF Handles, SkipEntry, ListFile, PassOver, QueryRename, KeepOld, TryExisting,
                DeferCopyin, BeginRegular, CreateNode, CopyinLink, Toss, Dispatch,
                Extracting, Creating, archive
  <2>2. cur \in Entries /\ target = cur
    BY <2>1 DEF LInv, Place
  <2>3. \/ disk' = disk
        \/ disk' = [disk EXCEPT ![cur] = cur]
        \/ disk' = [disk EXCEPT ![cur] = Absent]
    BY <1>4 DEF Handles, SkipEntry, ListFile, PassOver, QueryRename, KeepOld, TryExisting,
                DeferCopyin, BeginRegular, CreateNode, CopyinLink
  <2>4. LinksOfOneFile' /\ disk' \in [Entries -> {Absent, Old} \cup Entries]
    BY <2>1, <2>2, <2>3, NamingKeepsLinks, SameNamesSameLinks
  <2>5. deferments' = deferments \/ deferments' = <<cur>> \o deferments
    BY <1>4 DEF Handles, SkipEntry, ListFile, PassOver, QueryRename, KeepOld, TryExisting,
                DeferCopyin, BeginRegular, CreateNode, CopyinLink
  <2>6. deferments' \in Seq(Entries)
    <3>1. deferments \in Seq(Entries) /\ <<cur>> \in Seq(Entries)
      BY <2>2 DEF LInv, Place
    <3>2. <<cur>> \o deferments \in Seq(Entries)
      BY <3>1, ConcatProperties
    <3>3. QED
      BY <2>5, <3>1, <3>2
  <2>7. Place'
    BY <2>1, <2>2, <2>4, <2>6 DEF LInv, Place
  <2>8. QED
    BY <2>4, <2>7 DEF LInv
<1>5. CASE SkipLinked
  <2>1. /\ ino' = ino /\ disk' = disk /\ next' = next /\ cur' = cur
        /\ phase = "dispatch"
    BY <1>5 DEF SkipLinked, Dispatch, archive
  <2>2. deferments \in Seq(Entries) /\ Last \in Nat /\ cur \in Entries
    BY <2>1, LenProperties DEF LInv, Place, Last
  <2>3. PICK p \in 0 .. Last :
          \/ /\ deferments' = SubSeq(deferments, p + 1, Last)
             /\ phase' = "header"
          \/ \E h \in p + 1 .. Last :
               /\ Heir(p, h)
               /\ target' = deferments[h]
               /\ deferments' = Without(p, h)
               /\ phase' = "regular"
    BY <1>5 DEF SkipLinked, Toss
  <2>4. CASE deferments' = SubSeq(deferments, p + 1, Last) /\ phase' = "header"
    <3>1. \A i \in p + 1 .. Last : deferments[i] \in Entries
      BY <2>2, <2>3, ElementOfSeq DEF Last
    <3>2. deferments' \in Seq(Entries)
      BY <2>2, <2>3, <2>4, <3>1, SubSeqProperties
    <3>3. Place'
      BY <2>1, <2>4, <3>2 DEF LInv, Place
    <3>4. QED
      BY <2>1, <3>3, SameNamesSameLinks DEF LInv
  <2>5. CASE \E h \in p + 1 .. Last :
               /\ Heir(p, h)
               /\ target' = deferments[h]
               /\ deferments' = Without(p, h)
               /\ phase' = "regular"
    <3>1. PICK h \in p + 1 .. Last :
               /\ Heir(p, h)
               /\ target' = deferments[h]
               /\ deferments' = Without(p, h)
               /\ phase' = "regular"
      BY <2>5
    <3>2. p \in Nat /\ h \in 1 .. Last /\ p < h
      BY <2>2, <2>3, <3>1
    <3>3. deferments[h] \in Entries /\ ino[deferments[h]] = ino[cur]
      BY <2>2, <3>1, <3>2, ElementOfSeq DEF Last, Heir, IsLinkOfCur
    <3>4. Without(p, h) \in Seq(Entries)
      BY <2>2, <3>2, WithoutIsDeferments
    <3>5. Place'
      BY <2>1, <2>2, <3>1, <3>3, <3>4 DEF LInv, Place
    <3>6. QED
      BY <2>1, <3>5, SameNamesSameLinks DEF LInv
  <2>6. QED
    BY <2>3, <2>4, <2>5
<1>6. CASE OpenError \/ CopyinRegular \/ CopyTheRest \/ WriteFails
  <2>1. /\ ino' = ino /\ deferments' = deferments
        /\ next' = next /\ cur' = cur /\ target' = target
        /\ phase = "regular" /\ phase' \in {"regular", "header", "links"}
    BY <1>6 DEF OpenError, CopyinRegular, CopyTheRest, WriteFails, Regular, Toss, archive
  <2>2. disk' = disk \/ disk' = [disk EXCEPT ![target] = cur]
    BY <1>6 DEF OpenError, CopyinRegular, CopyTheRest, WriteFails
  <2>3. cur \in Entries /\ target \in Entries /\ ino[target] = ino[cur]
    BY <2>1 DEF LInv, Place
  <2>4. LinksOfOneFile' /\ disk' \in [Entries -> {Absent, Old} \cup Entries]
    BY <2>1, <2>2, <2>3, NamingKeepsLinks, SameNamesSameLinks
  <2>5. Place'
    BY <2>1, <2>3, <2>4 DEF LInv, Place
  <2>6. QED
    BY <2>4, <2>5 DEF LInv
<1>7. CASE LinkDeferred
  <2>1. /\ ino' = ino /\ next' = next /\ cur' = cur /\ target' = target
        /\ phase = "links" /\ phase' = "links"
    BY <1>7 DEF LinkDeferred, Linking, archive
  <2>2. /\ deferments \in Seq(Entries) /\ Last \in Nat
        /\ cur \in Entries /\ target \in Entries /\ ino[target] = ino[cur]
        /\ disk[target] \in {Absent, Old} \cup Entries
    BY <2>1, LenProperties DEF LInv, Place, Last
  <2>3. PICK h \in 1 .. Last :
          /\ Heir(0, h)
          /\ deferments' = Without(0, h)
          /\ \/ disk' = [disk EXCEPT ![deferments[h]] = disk[target]]
             \/ disk' = disk
    BY <1>7 DEF LinkDeferred
  <2>4. deferments[h] \in Entries /\ ino[deferments[h]] = ino[cur]
    BY <2>2, <2>3, ElementOfSeq DEF Last, Heir, IsLinkOfCur
  <2>5. disk[target] \in Entries => ino[disk[target]] = ino[deferments[h]]
    BY <2>2, <2>4 DEF LInv, LinksOfOneFile
  <2>6. LinksOfOneFile' /\ disk' \in [Entries -> {Absent, Old} \cup Entries]
    BY <2>1, <2>2, <2>3, <2>4, <2>5, NamingKeepsLinks, SameNamesSameLinks
  <2>7. Without(0, h) \in Seq(Entries)
    <3>1. 0 \in Nat /\ h \in Nat /\ 0 < h /\ h <= Last
      BY <2>2, <2>3
    <3>2. QED
      BY <2>2, <3>1, WithoutIsDeferments
  <2>8. Place'
    BY <2>1, <2>2, <2>3, <2>6, <2>7 DEF LInv, Place
  <2>9. QED
    BY <2>6, <2>8 DEF LInv
<1>8. CASE AllLinked
  <2>1. /\ ino' = ino /\ disk' = disk /\ deferments' = deferments
        /\ next' = next /\ cur' = cur /\ phase' = "header"
    BY <1>8 DEF AllLinked, archive
  <2>2. Place'
    BY <2>1 DEF LInv, Place
  <2>3. QED
    BY <2>1, <2>2, SameNamesSameLinks DEF LInv
<1>9. CASE CreateFinalDefers
  <2>1. /\ ino' = ino /\ deferments' = deferments
        /\ next' = next /\ cur' = cur /\ phase' = "done"
    BY <1>9 DEF CreateFinalDefers, archive
  <2>2. \/ disk' = disk
        \/ disk' = [d \in Entries |->
                      IF IsDeferred(d) /\ disk[d] = Absent THEN d ELSE disk[d]]
    BY <1>9 DEF CreateFinalDefers
  <2>3. disk' \in [Entries -> {Absent, Old} \cup Entries]
    BY <2>2 DEF LInv, Place
  <2>4. LinksOfOneFile'
    BY <2>1, <2>2 DEF LInv, LinksOfOneFile
  <2>5. Place'
    BY <2>1, <2>3 DEF LInv, Place
  <2>6. QED
    BY <2>4, <2>5 DEF LInv
<1>10. QED
  BY <1>1, <1>2, <1>3, <1>4, <1>5, <1>6, <1>7, <1>8, <1>9 DEF Next, Handles

(* Whatever links an archive holds, in whatever order, and whatever fails: *)
(* two names become links of one file only when the archive says so.       *)
THEOREM CopyInLinksOfOneFile == Spec => []LinksOfOneFile
<1>1. Init => LInv
  BY InitLInv
<1>2. LInv /\ [Next]_vars => LInv'
  BY StepKeepsLInv
<1>3. LInv => LinksOfOneFile
  BY DEF LInv
<1>4. QED
  BY <1>1, <1>2, <1>3, PTL DEF Spec
-------------------------------------------------------------------------------
(* The old files that the options protect                                  *)
Guarded == {k \in Entries : disk[k] = Old /\ k \in newer /\ ~unconditional}

(* No entry is deferred, or about to be written, under a protected name;   *)
(* this is what keeps a link whose contents come much later, with another  *)
(* entry, from taking the place of an old file.                            *)
OInv ==
  /\ deferments \in Seq(Entries \ Guarded)
  /\ phase = "create" /\ mode = "extract" /\ kind[cur] # "dir" => cur \notin Guarded
  /\ phase = "regular" /\ mode = "extract" => target \notin Guarded
  /\ phase = "links" => disk[target] = cur

LEMMA InitOInv == Init => OInv
BY EmptySeq DEF Init, OInv

(* Naming that leaves the protected names alone and makes no old file      *)
LEMMA NamingKeepsGuarded ==
  ASSUME LInv, newer' = newer, unconditional' = unconditional,
         NEW name \in Entries \ Guarded, NEW file, file # Old,
         disk' = [disk EXCEPT ![name] = file]
  PROVE  Guarded' = Guarded
<1>1. \A k \in Entries : disk'[k] = IF k = name THEN file ELSE disk[k]
  BY DEF LInv, Place
<1>2. \A k \in Entries : disk'[k] = Old /\ k \in newer /\ ~unconditional
                         <=> disk[k] = Old /\ k \in newer /\ ~unconditional
  BY <1>1 DEF Guarded
<1>3. QED
  BY <1>2 DEF Guarded

LEMMA SameNamesSameGuarded ==
  ASSUME newer' = newer, unconditional' = unconditional, disk' = disk
  PROVE  Guarded' = Guarded
BY DEF Guarded

LEMMA StepKeepsOInv == LInv /\ OInv /\ [Next]_vars => OInv' /\ Guarded' = Guarded
<1> SUFFICES ASSUME LInv, OInv, [Next]_vars
             PROVE  OInv' /\ Guarded' = Guarded
  OBVIOUS
<1> USE NumbersOfEntries
<1>1. /\ newer' = newer /\ unconditional' = unconditional
      /\ mode' = mode /\ kind' = kind
  BY DEF Next, vars, options, archive, ReadInHeader, Premature, ReadTrailer,
         SkipEntry, SkipLinked, ListFile, PassOver, QueryRename, KeepOld, TryExisting,
         DeferCopyin, BeginRegular, CreateNode, CopyinLink, OpenError,
         CopyinRegular, CopyTheRest, WriteFails, LinkDeferred, AllLinked, CreateFinalDefers
<1>2. CASE UNCHANGED vars
  <2>1. disk' = disk /\ deferments' = deferments /\ phase' = phase
        /\ cur' = cur /\ target' = target
    BY <1>2 DEF vars
  <2>2. QED
    BY <1>1, <2>1, SameNamesSameGuarded DEF OInv
<1>3. CASE ReadInHeader \/ Premature \/ ReadTrailer
  <2>1. disk' = disk /\ deferments' = deferments
        /\ phase' \in {"header", "dispatch", "final"}
    BY <1>3 DEF ReadInHeader, Premature, ReadTrailer
  <2>2. QED
    BY <1>1, <2>1, SameNamesSameGuarded DEF OInv
<1>4. CASE SkipEntry \/ ListFile \/ PassOver \/ QueryRename \/ KeepOld
  <2>1. disk' = disk /\ deferments' = deferments
        /\ phase' \in {"header", "dispatch"}
    BY <1>4 DEF SkipEntry, ListFile, PassOver, QueryRename, KeepOld, Toss, Dispatch,
                Extracting
  <2>2. QED
    BY <1>1, <2>1, SameNamesSameGuarded DEF OInv
<1>5. CASE TryExisting
  <2>1. /\ cur \in Entries /\ cur' = cur /\ deferments' = deferments
        /\ phase' = "create"
    BY <1>5 DEF TryExisting, Extracting, Dispatch, LInv, Place
  <2>2. disk' = disk \/ (mode = "extract" /\ ~SameDir
                        /\ disk' = [disk EXCEPT ![cur] = Absent])
    BY <1>5 DEF TryExisting, Exists
  <2>3. mode = "extract" /\ ~SameDir => cur \notin Guarded
    BY <1>5 DEF TryExisting, Protected, Exists, Guarded, Old, Absent
  <2>4. Guarded' = Guarded
    <3>1. Absent # Old
      BY DEF Absent, Old
    <3>2. QED
      BY <1>1, <2>1, <2>2, <2>3, <3>1, NamingKeepsGuarded, SameNamesSameGuarded
  <2>5. QED
    BY <1>1, <2>1, <2>3, <2>4 DEF OInv, SameDir
<1>6. CASE DeferCopyin
  <2>1. /\ disk' = disk /\ deferments' = <<cur>> \o deferments
        /\ phase' = "header" /\ mode = "extract" /\ kind[cur] = "reg"
        /\ phase = "create"
    BY <1>6 DEF DeferCopyin, Creating, Deferred, Toss
  <2>2. cur \in Entries \ Guarded
    BY <2>1 DEF OInv, LInv, Place
  <2>3. deferments' \in Seq(Entries \ Guarded)
    BY <2>1, <2>2, ConcatProperties DEF OInv
  <2>4. QED
    BY <1>1, <2>1, <2>3, SameNamesSameGuarded DEF OInv
<1>7. CASE BeginRegular
  <2>1. /\ disk' = disk /\ deferments' = deferments /\ target' = target
        /\ phase' = "regular" /\ kind[cur] = "reg" /\ phase = "create"
    BY <1>7 DEF BeginRegular, Creating
  <2>2. target = cur
    BY <2>1 DEF LInv, Place
  <2>3. QED
    BY <1>1, <2>1, <2>2, SameNamesSameGuarded DEF OInv
<1>8. CASE CreateNode \/ CopyinLink
  <2>1. /\ deferments' = deferments /\ phase' = "header" /\ cur \in Entries
    BY <1>8 DEF CreateNode, CopyinLink, Creating, Toss, LInv, Place
  <2>2. disk' = disk \/ (disk[cur] = Absent /\ disk' = [disk EXCEPT ![cur] = cur])
    BY <1>8 DEF CreateNode, CopyinLink
  <2>3. disk[cur] = Absent => cur \notin Guarded
    BY DEF Guarded, Absent, Old
  <2>4. Guarded' = Guarded
    BY <1>1, <2>1, <2>2, <2>3, NamingKeepsGuarded, SameNamesSameGuarded
  <2>5. QED
    BY <2>1, <2>4 DEF OInv
<1>9. CASE SkipLinked
  <2>1. disk' = disk /\ Last \in Nat
    BY <1>9, LenProperties DEF SkipLinked, Last, OInv
  <2>2. PICK p \in 0 .. Last :
          \/ /\ deferments' = SubSeq(deferments, p + 1, Last)
             /\ phase' = "header"
          \/ \E h \in p + 1 .. Last :
               /\ target' = deferments[h]
               /\ deferments' = Without(p, h)
               /\ phase' = "regular"
    BY <1>9 DEF SkipLinked, Toss
  <2>3. CASE deferments' = SubSeq(deferments, p + 1, Last) /\ phase' = "header"
    <3>1. \A i \in p + 1 .. Last : deferments[i] \in Entries \ Guarded
      BY <2>1, <2>2, ElementOfSeq DEF Last, OInv
    <3>2. deferments' \in Seq(Entries \ Guarded)
      BY <2>1, <2>2, <2>3, <3>1, SubSeqProperties
    <3>3. QED
      BY <1>1, <2>1, <2>3, <3>2, SameNamesSameGuarded DEF OInv
  <2>4. CASE \E h \in p + 1 .. Last :
               /\ target' = deferments[h]
               /\ deferments' = Without(p, h)
               /\ phase' = "regular"
    <3>1. PICK h \in p + 1 .. Last :
               /\ target' = deferments[h]
               /\ deferments' = Without(p, h)
               /\ phase' = "regular"
      BY <2>4
    <3>2. p \in Nat /\ h \in 1 .. Last /\ p < h /\ h \in Nat /\ h <= Last
      BY <2>1, <2>2, <3>1
    <3>3. deferments[h] \in Entries \ Guarded
      BY <3>2, ElementOfSeq DEF Last, OInv
    <3>4. Without(p, h) \in Seq(Entries \ Guarded)
      BY <3>2, WithoutIsDeferments DEF OInv
    <3>5. QED
      BY <1>1, <2>1, <3>1, <3>3, <3>4, SameNamesSameGuarded DEF OInv
  <2>5. QED
    BY <2>2, <2>3, <2>4
<1>10. CASE OpenError \/ WriteFails
  <2>1. /\ disk' = disk /\ deferments' = deferments /\ target' = target
        /\ phase = "regular" /\ phase' \in {"header", "regular"}
    BY <1>10 DEF OpenError, WriteFails, Regular, Toss
  <2>2. QED
    BY <1>1, <2>1, SameNamesSameGuarded DEF OInv
<1>11. CASE CopyinRegular \/ CopyTheRest
  <2>1. /\ deferments' = deferments /\ target' = target /\ cur' = cur
        /\ phase = "regular" /\ phase' \in {"regular", "header", "links"}
        /\ disk' = IF mode = "extract" THEN [disk EXCEPT ![target] = cur] ELSE disk
        /\ phase' = "links" => mode = "extract"
    BY <1>11 DEF CopyinRegular, CopyTheRest, Regular
  <2>2. /\ cur \in Entries /\ target \in Entries
        /\ mode = "extract" => target \notin Guarded
        /\ disk \in [Entries -> {Absent, Old} \cup Entries]
    BY <2>1 DEF OInv, LInv, Place
  <2>3. Guarded' = Guarded
    BY <1>1, <2>1, <2>2, NamingKeepsGuarded, SameNamesSameGuarded
  <2>4. phase' = "links" => disk'[target'] = cur'
    BY <2>1, <2>2
  <2>5. QED
    BY <1>1, <2>1, <2>3, <2>4 DEF OInv
<1>12. CASE LinkDeferred
  <2>1. /\ cur' = cur /\ target' = target /\ Last \in Nat
        /\ phase = "links" /\ phase' = "links" /\ disk[target] = cur
    BY <1>12, LenProperties DEF LinkDeferred, Linking, OInv, Last
  <2>2. PICK h \in 1 .. Last :
          /\ deferments' = Without(0, h)
          /\ \/ /\ disk[deferments[h]] = Absent
                /\ disk' = [disk EXCEPT ![deferments[h]] = disk[target]]
             \/ disk' = disk
    BY <1>12 DEF LinkDeferred
  <2>3. /\ deferments[h] \in Entries \ Guarded
        /\ cur \in Entries /\ target \in Entries
        /\ disk \in [Entries -> {Absent, Old} \cup Entries]
    BY <2>1, <2>2, ElementOfSeq DEF Last, OInv, LInv, Place
  <2>4. Guarded' = Guarded
    BY <1>1, <2>1, <2>2, <2>3, NamingKeepsGuarded, SameNamesSameGuarded
  <2>5. disk'[target] = cur
    BY <2>1, <2>2, <2>3
  <2>6. Without(0, h) \in Seq(Entries \ Guarded)
    <3>1. 0 \in Nat /\ h \in Nat /\ 0 < h /\ h <= Last
      BY <2>1, <2>2
    <3>2. QED
      BY <3>1, WithoutIsDeferments DEF OInv
  <2>7. QED
    BY <2>1, <2>2, <2>4, <2>5, <2>6 DEF OInv
<1>13. CASE AllLinked
  <2>1. disk' = disk /\ deferments' = deferments /\ phase' = "header"
    BY <1>13 DEF AllLinked
  <2>2. QED
    BY <1>1, <2>1, SameNamesSameGuarded DEF OInv
<1>14. CASE CreateFinalDefers
  <2>1. /\ deferments' = deferments /\ phase' = "done"
        /\ \/ disk' = disk
           \/ disk' = [d \in Entries |->
                         IF IsDeferred(d) /\ disk[d] = Absent THEN d ELSE disk[d]]
    BY <1>14 DEF CreateFinalDefers
  <2>2. \A k \in Entries : disk'[k] = Old <=> disk[k] = Old
    BY <2>1 DEF Absent, Old
  <2>3. Guarded' = Guarded
    BY <1>1, <2>2 DEF Guarded
  <2>4. QED
    BY <2>1, <2>3 DEF OInv
<1>15. QED
  BY <1>2, <1>3, <1>4, <1>5, <1>6, <1>7, <1>8, <1>9, <1>10, <1>11, <1>12, <1>13,
     <1>14 DEF Next

(* An old file that is not older than its entry stays, through every entry *)
(* and every deferred link, also when removing, opening and making files   *)
(* fails.                                                                  *)
THEOREM CopyInOldKept == Spec => OldKept
<1>1. Init => LInv /\ OInv
  BY InitLInv, InitOInv
<1>2. (LInv /\ OInv) /\ [Next]_vars => (LInv /\ OInv)'
  BY StepKeepsLInv, StepKeepsOInv
<1>3. (LInv /\ OInv) /\ [Next]_vars =>
        [\A k \in Entries :
           disk[k] = Old /\ k \in newer /\ ~unconditional => disk'[k] = Old]_vars
  <2>1. SUFFICES ASSUME LInv, OInv, [Next]_vars,
                        NEW k \in Entries, disk[k] = Old, k \in newer, ~unconditional
                 PROVE  disk'[k] = Old
    OBVIOUS
  <2>2. k \in Guarded /\ Guarded' = Guarded
    BY <2>1, StepKeepsOInv DEF Guarded
  <2>3. QED
    BY <2>2 DEF Guarded
<1>4. QED
  BY <1>1, <1>2, <1>3, PTL DEF Spec, OldKept
-------------------------------------------------------------------------------
(* Only files and symbolic links have contents.                            *)
Archive ==
  /\ size \in [Entries -> Sizes \cup {0}]
  /\ \A k \in Entries : kind[k] \in {"dir", "dev", "fifo"} => size[k] = 0

(* All the contents of the entry in hand, or less when it is oversized     *)
Taken == consumed \in 0 .. size[cur] /\ (AllFit => consumed = size[cur])

(* What was taken of the contents, at each place of the code               *)
SInv ==
  /\ Archive
  /\ phase = "header" /\ cur # 0 => Taken
  /\ phase \in {"dispatch", "create", "regular"} => consumed = 0
  /\ phase = "links" => Taken
  /\ next \in 1 .. N + 1
  /\ AllFit => EveryEntrySeen

LEMMA SizesAreNumbers ==
  ASSUME Archive, NEW k \in Entries
  PROVE  size[k] \in Nat
<1>1. Sizes \subseteq Nat
  BY CopyInAssumption
<1>2. size[k] \in Sizes \cup {0}
  BY DEF Archive
<1>3. 0 \in Nat
  OBVIOUS
<1>4. QED
  BY <1>1, <1>2, <1>3, Zenon

(* What is taken is never more than the size, and all of it when the size  *)
(* keeps its value through the cast.                                       *)
LEMMA TossedOfSize ==
  ASSUME Archive, cur \in Entries
  PROVE  /\ Tossed \in 0 .. size[cur] /\ LinkName \in 0 .. size[cur]
         /\ Told >= 0 => Told = Tossed
         /\ AllFit => Told = size[cur] /\ Tossed = size[cur]
         /\ AllFit /\ kind[cur] = "lnk" => LinkName = size[cur]
<1> DEFINE s == size[cur]
           w == s % (2 * Half)
<1>1. s \in Nat /\ Half \in Nat \ {0} /\ 2 * Half \in Nat \ {0}
  BY SizesAreNumbers, CastsAssumption
<1>2. w \in Nat /\ w < 2 * Half /\ w <= s /\ (s < Half => w = s)
  <2> HIDE DEF s
  <2>1. w \in 0 .. 2 * Half - 1
    BY <1>1
  <2>2. s < 2 * Half => w = s
    BY <1>1
  <2>3. QED
    BY <1>1, <2>1, <2>2
<1>3. Told = IF w < Half THEN w ELSE w - 2 * Half
  BY DEF Told, AsI32
<1>4. AllFit => s < Half /\ (kind[cur] = "lnk" => s <= LinkMax)
  <2>1. AllFit => ~(s >= Half \/ (kind[cur] = "lnk" /\ s > LinkMax))
    BY DEF AllFit, Oversized
  <2>2. QED
    BY <1>1, <2>1, CopyInAssumption
<1> HIDE DEF s, w
<1>5. Told \in Int /\ Told <= s /\ (Told >= 0 => Told \in 0 .. s) /\ (s < Half => Told = s)
  BY <1>1, <1>2, <1>3
<1>6. Tossed \in 0 .. s /\ (Told >= 0 => Told = Tossed) /\ (s < Half => Tossed = s)
  BY <1>1, <1>5 DEF Tossed
<1>7. LinkName \in 0 .. s /\ (s <= LinkMax => LinkName = s)
  BY <1>1, CopyInAssumption DEF LinkName, LongName, s
<1>8. QED
  BY <1>4, <1>5, <1>6, <1>7 DEF s

LEMMA InitSInv == Init => SInv
<1> SUFFICES ASSUME Init PROVE SInv
  OBVIOUS
<1>1. Archive
  BY DEF Init, Archive
<1>2. QED
  BY <1>1, NumbersOfEntries DEF Init, SInv, EveryEntrySeen

LEMMA StepKeepsSInv ==
  ASSUME LInv, SInv, ~faults, ~verbose, [Next]_vars
  PROVE  SInv'
<1> USE NumbersOfEntries
<1>1. kind' = kind /\ size' = size
  BY DEF Next, vars, options, archive, ReadInHeader, Premature, ReadTrailer,
         SkipEntry, SkipLinked, ListFile, PassOver, QueryRename, KeepOld, TryExisting,
         DeferCopyin, BeginRegular, CreateNode, CopyinLink, OpenError,
         CopyinRegular, CopyTheRest, WriteFails, LinkDeferred, AllLinked, CreateFinalDefers
<1>2. Archive' /\ (AllFit' <=> AllFit)
  BY <1>1 DEF SInv, Archive, AllFit, Oversized
<1>3. CASE UNCHANGED vars
  BY <1>1, <1>2, <1>3 DEF SInv, Taken, EveryEntrySeen, vars
<1>4. CASE ReadInHeader \/ Premature \/ ReadTrailer
  <2>1. phase = "header" /\ ~Overrun /\ Found = next
    BY <1>4, SizesAreNumbers DEF ReadInHeader, Premature, ReadTrailer, Found, Overrun, SInv,
       Taken, LInv, Place
  <2>2. next \in 1 .. N + 1
    BY DEF SInv
  <2>3. CASE ReadInHeader
    <3>1. next' = next + 1 /\ next' \in 1 .. N + 1 /\ consumed' = 0
          /\ phase' = "dispatch" /\ lost' = lost /\ status' = status
      BY <2>1, <2>2, <2>3 DEF ReadInHeader
    <3>2. QED
      BY <1>2, <3>1 DEF SInv, EveryEntrySeen
  <2>4. CASE Premature
    BY <2>1, <2>2, <2>4 DEF Premature
  <2>5. CASE ReadTrailer
    <3>1. next' = next /\ phase' = "final" /\ lost' = lost /\ status' = status
      BY <2>1, <2>5 DEF ReadTrailer
    <3>2. QED
      BY <1>2, <2>2, <3>1 DEF SInv, EveryEntrySeen
  <2>6. QED
    BY <1>4, <2>3, <2>4, <2>5
<1>5. CASE SkipEntry \/ ListFile \/ PassOver \/ KeepOld \/ DeferCopyin \/ CopyinLink
           \/ OpenError \/ CopyinRegular
  <2>1. /\ phase \in {"dispatch", "create", "regular"} /\ phase' \in {"header", "links"}
        /\ \/ consumed' = consumed + Tossed
           \/ consumed' = Tossed + IF verbose /\ kind[cur] = "lnk" THEN LinkName ELSE 0
           \/ consumed' = consumed + LinkName /\ kind[cur] = "lnk"
           \/ consumed' = consumed + Told /\ Told >= 0
        /\ cur' = cur /\ next' = next /\ lost' = lost /\ status' # "exit"
    BY <1>5 DEF SkipEntry, ListFile, PassOver, KeepOld, DeferCopyin, CopyinLink,
                OpenError, CopyinRegular, Toss, Dispatch, Extracting, Creating, Regular,
                Running
  <2>2. cur \in Entries /\ consumed = 0 /\ size[cur] \in Nat
    BY <2>1, SizesAreNumbers DEF LInv, Place, SInv
  <2>3. consumed' \in 0 .. size[cur] /\ (AllFit => consumed' = size[cur])
    BY <2>1, <2>2, TossedOfSize DEF SInv
  <2>4. Taken'
    BY <1>1, <1>2, <2>1, <2>3 DEF Taken
  <2>5. QED
    BY <1>2, <2>1, <2>4 DEF SInv, EveryEntrySeen
<1>6. CASE SkipLinked
  <2>1. /\ phase = "dispatch"
        /\ cur' = cur /\ next' = next /\ lost' = lost /\ status' = status
        /\ \/ phase' = "header" /\ consumed' = consumed + Tossed
           \/ phase' = "regular" /\ consumed' = consumed
    BY <1>6 DEF SkipLinked, Toss, Dispatch
  <2>2. cur \in Entries /\ consumed = 0 /\ size[cur] \in Nat
    BY <2>1, SizesAreNumbers DEF LInv, Place, SInv
  <2>3. \/ phase' = "header" /\ Taken'
        \/ phase' = "regular" /\ consumed' = 0
    <3>1. consumed' = consumed + Tossed =>
            consumed' \in 0 .. size[cur] /\ (AllFit => consumed' = size[cur])
      BY <2>2, TossedOfSize DEF SInv
    <3>2. QED
      BY <1>1, <1>2, <2>1, <2>2, <3>1 DEF Taken
  <2>4. QED
    BY <1>2, <2>1, <2>3 DEF SInv, EveryEntrySeen
<1>7. CASE QueryRename \/ TryExisting \/ BeginRegular \/ WriteFails
  <2>1. /\ phase \in {"dispatch", "create", "regular"}
        /\ phase' \in {"dispatch", "create", "regular"}
        /\ consumed' = consumed /\ next' = next /\ lost' = lost
        /\ status' # "exit" \/ status' = status
    BY <1>7 DEF QueryRename, TryExisting, BeginRegular, WriteFails, Dispatch,
                Extracting, Creating, Regular
  <2>2. QED
    BY <1>2, <2>1 DEF SInv, EveryEntrySeen
<1>8. CASE CreateNode
  <2>1. /\ phase = "create" /\ phase' = "header" /\ consumed' = consumed
        /\ kind[cur] \in {"dir", "dev", "fifo"}
        /\ cur' = cur /\ next' = next /\ lost' = lost /\ status' = status
    BY <1>8 DEF CreateNode, Creating
  <2>2. cur \in Entries /\ size[cur] = 0 /\ consumed = 0
    BY <2>1 DEF LInv, Place, SInv, Archive
  <2>3. Taken'
    BY <1>1, <2>1, <2>2 DEF Taken
  <2>4. QED
    BY <1>2, <2>1, <2>3 DEF SInv, EveryEntrySeen
<1>9. CASE CopyTheRest
  <2>1. /\ phase = "regular" /\ phase' = phase /\ consumed' = consumed
        /\ next' = next /\ Told < 0
    BY <1>9 DEF CopyTheRest, Regular
  <2>2. cur \in Entries /\ size[cur] \in Nat
    BY <2>1, SizesAreNumbers DEF LInv, Place, SInv
  <2>3. ~AllFit
    BY <2>1, <2>2, TossedOfSize DEF SInv
  <2>4. QED
    BY <1>2, <2>1, <2>3 DEF SInv
<1>10. CASE LinkDeferred \/ AllLinked
  <2>1. /\ phase = "links" /\ phase' \in {"header", "links"} /\ consumed' = consumed
        /\ cur' = cur /\ next' = next /\ lost' = lost /\ status' = status
    BY <1>10 DEF LinkDeferred, AllLinked, Linking
  <2>2. Taken'
    BY <1>1, <1>2, <2>1 DEF SInv, Taken
  <2>3. QED
    BY <1>2, <2>1, <2>2 DEF SInv, EveryEntrySeen
<1>11. CASE CreateFinalDefers
  <2>1. phase' = "done" /\ next' = next /\ lost' = lost /\ status' = status
    BY <1>11 DEF CreateFinalDefers
  <2>2. QED
    BY <1>2, <2>1 DEF SInv, EveryEntrySeen
<1>12. QED
  BY <1>3, <1>4, <1>5, <1>6, <1>7, <1>8, <1>9, <1>10, <1>11 DEF Next

(* When the system refuses nothing, no verbose listing is asked for, no    *)
(* size is changed by the cast and no name of a link is too long, every    *)
(* way through the code takes exactly the contents of an entry, so that    *)
(* every header is found and no entry of the archive is missed.            *)
THEOREM CopyInKeepsItsPlace == Spec => []KeepsItsPlace
<1> DEFINE Quiet == ~faults /\ ~verbose
<1>1. Init => LInv /\ (Quiet => SInv)
  BY InitLInv, InitSInv
<1>2. [Next]_vars => faults' = faults /\ verbose' = verbose
  BY DEF Next, vars, options, ReadInHeader, Premature, ReadTrailer,
         SkipEntry, SkipLinked, ListFile, PassOver, QueryRename, KeepOld, TryExisting,
         DeferCopyin, BeginRegular, CreateNode, CopyinLink, OpenError,
         CopyinRegular, CopyTheRest, WriteFails, LinkDeferred, AllLinked, CreateFinalDefers
<1>3. LInv /\ (Quiet => SInv) /\ [Next]_vars => (LInv /\ (Quiet => SInv))'
  <2>1. SUFFICES ASSUME LInv, Quiet => SInv, [Next]_vars
                 PROVE  LInv' /\ (Quiet' => SInv')
    OBVIOUS
  <2>2. LInv'
    BY <2>1, StepKeepsLInv
  <2>3. faults' = faults /\ verbose' = verbose
    BY <1>2, <2>1
  <2>4. ASSUME Quiet PROVE SInv'
    BY <2>1, <2>4, StepKeepsSInv
  <2>5. QED
    BY <2>2, <2>3, <2>4
<1>4. LInv /\ (Quiet => SInv) => KeepsItsPlace
  BY Zenon DEF SInv, KeepsItsPlace, InStep, Taken
<1>5. QED
  BY <1>1, <1>3, <1>4, PTL DEF Spec

-------------------------------------------------------------------------------
(* Extraction of everything in a format that has links without contents,   *)
(* by a system that refuses nothing                                        *)
Smooth == mode = "extract" /\ newc /\ ~faults /\ unwanted = {}

(* How many entries the program is done with; and with the one of which    *)
(* the deferred links are being made                                       *)
Done == IF phase \in {"header", "final", "done"} THEN cur ELSE cur - 1
Written == IF phase = "links" THEN cur ELSE Done

(* A link that comes without the contents of its file                      *)
EmptyLink(j) == kind[j] = "reg" /\ linked[ino[j]] /\ size[j] = 0

(* None of the entries from j to h has given the file of j its contents:   *)
(* those that have them were left alone for an old file.                   *)
NoContents(j, h) ==
  \A k \in Entries : j <= k /\ k <= h /\ ino[k] = ino[j] /\ size[k] > 0 => disk[k] = Old

(* The name j is a link of the first entry after it that had contents.     *)
Resolved(j) ==
  \E h \in Entries : /\ j <= h /\ h <= Written
                     /\ disk[j] = h /\ size[h] > 0 /\ NoContents(j, h - 1)

Links ==
  \A j, k \in Entries : j # k /\ ino[j] = ino[k] => kind[j] = kind[k] /\ linked[ino[j]]

(* The name of the entry in hand                                           *)
InHand ==
  /\ next = cur + 1
  /\ phase \in {"final", "done"} => cur = N
  /\ phase = "create" /\ kind[cur] = "reg" => disk[cur] = Absent
  /\ phase = "regular" =>
       target = cur /\ disk[cur] = Absent /\ kind[cur] = "reg" /\ ~EmptyLink(cur)
  /\ phase = "links" => target = cur /\ disk[cur] = cur /\ size[cur] > 0

Untouched == \A k \in Entries : k > Written => disk[k] \in {Absent, Old}

DeferredOnce == \A a, b \in 1 .. Last : deferments[a] = deferments[b] => a = b

DeferredWait ==
  \A d \in Entries : IsDeferred(d) =>
    /\ EmptyLink(d) /\ d <= Done /\ NoContents(d, Done)
    /\ phase # "done" => disk[d] = Absent

EachAccounted ==
  \A j \in Entries : j <= Done /\ EmptyLink(j) =>
    disk[j] = Old \/ IsDeferred(j) \/ Resolved(j)

RInv == Links /\ InHand /\ Untouched /\ DeferredOnce /\ DeferredWait /\ EachAccounted

-------------------------------------------------------------------------------
LEMMA InitRInv == Init => RInv
<1> SUFFICES ASSUME Init PROVE RInv
  OBVIOUS
<1> USE NumbersOfEntries
<1>1. cur = 0 /\ Done = 0 /\ Last = 0 /\ next = 1 /\ phase = "header"
  BY DEF Init, Done, Last
<1>2. Links
  BY DEF Init, Links
<1>3. InHand
  BY <1>1 DEF InHand
<1>4. DeferredOnce /\ DeferredWait
  BY <1>1 DEF DeferredOnce, DeferredWait, IsDeferred
<1>5. EachAccounted
  BY <1>1 DEF EachAccounted
<1>6. Untouched
  BY DEF Init, Untouched
<1>7. QED
  BY <1>2, <1>3, <1>4, <1>5, <1>6 DEF RInv

(* What is left of the deferments without the link at h                    *)
LEMMA WithoutOne ==
  ASSUME NEW S, deferments \in Seq(S), NEW h \in 1 .. Last
  PROVE  /\ Len(Without(0, h)) = Last - 1
         /\ \A i \in 1 .. Last - 1 :
              Without(0, h)[i] = IF i < h THEN deferments[i] ELSE deferments[i + 1]
<1>1. Last \in Nat /\ Last = Len(deferments) /\ h \in Nat /\ 1 <= h /\ h <= Last
  BY LenProperties DEF Last
<1>2. PICK s : s = SubSeq(deferments, 1, h - 1)
  OBVIOUS
<1>3. PICK t : t = SubSeq(deferments, h + 1, Last)
  OBVIOUS
<1>4. \A i \in 1 .. Last : deferments[i] \in S
  BY <1>1, ElementOfSeq
<1>5. /\ s \in Seq(S) /\ Len(s) = h - 1
      /\ \A i \in 1 .. h - 1 : s[i] = deferments[i]
  BY <1>1, <1>2, <1>4, SubSeqProperties
<1>6. /\ t \in Seq(S) /\ Len(t) = Last - h
      /\ \A i \in 1 .. Last - h : t[i] = deferments[h + i]
  BY <1>1, <1>3, <1>4, SubSeqProperties
<1>7. Without(0, h) = s \o t
  BY <1>2, <1>3 DEF Without
<1>8. /\ Len(s \o t) = Last - 1
      /\ \A i \in 1 .. Last - 1 :
           (s \o t)[i] = IF i <= h - 1 THEN s[i] ELSE t[i - (h - 1)]
  <2>1. /\ Len(s \o t) = Len(s) + Len(t)
        /\ \A i \in 1 .. Len(s) + Len(t) :
             (s \o t)[i] = IF i <= Len(s) THEN s[i] ELSE t[i - Len(s)]
    BY <1>5, <1>6, ConcatProperties
  <2>2. Len(s) = h - 1 /\ Len(s) + Len(t) = Last - 1
    BY <1>1, <1>5, <1>6
  <2>3. QED
    BY <2>1, <2>2, Zenon
<1>9. ASSUME NEW i \in 1 .. Last - 1
      PROVE  (s \o t)[i] = IF i < h THEN deferments[i] ELSE deferments[i + 1]
  <2>1. CASE i < h
    <3>1. i \in 1 .. h - 1 /\ i <= h - 1
      BY <1>1, <2>1
    <3>2. QED
      BY <1>5, <1>8, <2>1, <3>1
  <2>2. CASE ~(i < h)
    <3>1. ~(i <= h - 1) /\ i - (h - 1) \in 1 .. Last - h /\ h + (i - (h - 1)) = i + 1
      BY <1>1, <2>2
    <3>2. QED
      BY <1>6, <1>8, <2>2, <3>1
  <2>3. QED
    BY <2>1, <2>2
<1>10. QED
  BY <1>7, <1>8, <1>9

(* The link at h, and no other, is not deferred any more.                  *)
LEMMA OneDeferredLess ==
  ASSUME LInv, DeferredOnce, NEW h \in 1 .. Last, deferments' = Without(0, h)
  PROVE  /\ DeferredOnce'
         /\ \A d : IsDeferred(d)' <=> IsDeferred(d) /\ d # deferments[h]
<1>1. deferments \in Seq(Entries)
  BY DEF LInv, Place
<1>2. Last \in Nat
  BY <1>1, LenProperties DEF Last
<1>3. /\ Last' = Last - 1
      /\ \A i \in 1 .. Last - 1 :
           deferments'[i] = IF i < h THEN deferments[i] ELSE deferments[i + 1]
  BY <1>1, WithoutOne DEF Last
<1>4. DeferredOnce'
  <2>1. SUFFICES ASSUME NEW a \in 1 .. Last - 1, NEW b \in 1 .. Last - 1,
                        deferments'[a] = deferments'[b]
                 PROVE  a = b
    BY <1>3 DEF DeferredOnce
  <2>2. a \in 1 .. Last /\ a + 1 \in 1 .. Last /\ b \in 1 .. Last /\ b + 1 \in 1 .. Last
    BY <1>2
  <2>3. (IF a < h THEN a ELSE a + 1) = (IF b < h THEN b ELSE b + 1)
    BY <1>3, <2>1, <2>2 DEF DeferredOnce
  <2>4. QED
    BY <1>2, <2>3
<1>5. ASSUME NEW d PROVE IsDeferred(d)' <=> IsDeferred(d) /\ d # deferments[h]
  <2>1. ASSUME NEW k \in 1 .. Last - 1, deferments'[k] = d
        PROVE  \E i \in 1 .. Last : deferments[i] = d /\ i # h
    <3>1. CASE k < h
      <4>1. k \in 1 .. Last /\ k # h /\ deferments[k] = d
        BY <1>2, <1>3, <2>1, <3>1
      <4>2. QED
        BY <4>1
    <3>2. CASE ~(k < h)
      <4>1. k + 1 \in 1 .. Last /\ k + 1 # h /\ deferments[k + 1] = d
        BY <1>2, <1>3, <2>1, <3>2
      <4>2. QED
        BY <4>1
    <3>3. QED
      BY <3>1, <3>2
  <2>2. ASSUME NEW i \in 1 .. Last, deferments[i] = d, i # h
        PROVE  \E k \in 1 .. Last - 1 : deferments'[k] = d
    <3>1. CASE i < h
      <4>1. i \in 1 .. Last - 1 /\ deferments'[i] = d
        BY <1>2, <1>3, <2>2, <3>1
      <4>2. QED
        BY <4>1
    <3>2. CASE i > h
      <4>1. PICK k : k = i - 1
        OBVIOUS
      <4>2. k \in 1 .. Last - 1 /\ ~(k < h) /\ k + 1 = i
        BY <1>2, <2>2, <3>2, <4>1
      <4>3. deferments'[k] = d
        BY <1>3, <2>2, <4>2
      <4>4. QED
        BY <4>2, <4>3
    <3>3. QED
      BY <1>2, <2>2, <3>1, <3>2
  <2>3. IsDeferred(d)' <=> \E k \in 1 .. Last - 1 : deferments'[k] = d
    BY <1>3 DEF IsDeferred
  <2>4. IsDeferred(d) /\ d # deferments[h] <=> \E i \in 1 .. Last : deferments[i] = d /\ i # h
    BY DEF IsDeferred, DeferredOnce
  <2>5. QED
    BY <2>1, <2>2, <2>3, <2>4
<1>6. QED
  BY <1>4, <1>5

(* The entry in hand is deferred, in front of the others.                  *)
LEMMA OneDeferredMore ==
  ASSUME LInv, DeferredOnce, cur \in Entries, ~IsDeferred(cur),
         deferments' = <<cur>> \o deferments
  PROVE  /\ DeferredOnce'
         /\ \A d : IsDeferred(d)' <=> IsDeferred(d) \/ d = cur
<1>1. deferments \in Seq(Entries) /\ <<cur>> \in Seq(Entries)
  BY DEF LInv, Place
<1>2. Last \in Nat /\ Last = Len(deferments)
  BY <1>1, LenProperties DEF Last
<1>3. /\ Len(<<cur>> \o deferments) = Last + 1
      /\ \A i \in 1 .. Last + 1 :
           (<<cur>> \o deferments)[i] = IF i <= 1 THEN <<cur>>[i] ELSE deferments[i - 1]
  BY <1>1, <1>2, ConcatProperties
<1>4. /\ Last' = Last + 1 /\ deferments'[1] = cur
      /\ \A i \in 2 .. Last + 1 : deferments'[i] = deferments[i - 1]
  <2>1. Last' = Last + 1
    BY <1>3 DEF Last
  <2>2. 1 \in 1 .. Last + 1 /\ \A i \in 2 .. Last + 1 : i \in 1 .. Last + 1 /\ ~(i <= 1)
    BY <1>2
  <2>3. deferments'[1] = cur
    BY <1>3, <2>2
  <2>4. QED
    BY <1>3, <2>1, <2>2, <2>3
<1>5. DeferredOnce'
  <2>1. SUFFICES ASSUME NEW a \in 1 .. Last + 1, NEW b \in 1 .. Last + 1,
                        deferments'[a] = deferments'[b]
                 PROVE  a = b
    BY <1>4 DEF DeferredOnce
  <2>2. /\ a # 1 => a \in 2 .. Last + 1 /\ a - 1 \in 1 .. Last
        /\ b # 1 => b \in 2 .. Last + 1 /\ b - 1 \in 1 .. Last
    BY <1>2
  <2>3. /\ a # 1 => deferments'[a] = deferments[a - 1] /\ deferments[a - 1] # cur
        /\ b # 1 => deferments'[b] = deferments[b - 1] /\ deferments[b - 1] # cur
    BY <1>4, <2>2 DEF IsDeferred
  <2>4. a # 1 /\ b # 1 => a - 1 = b - 1
    BY <2>1, <2>2, <2>3 DEF DeferredOnce
  <2>5. a = 1 <=> b = 1
    BY <1>4, <2>1, <2>3
  <2>6. QED
    BY <1>2, <2>4, <2>5
<1>6. ASSUME NEW d PROVE IsDeferred(d)' <=> IsDeferred(d) \/ d = cur
  <2>1. IsDeferred(d)' <=> \E k \in 1 .. Last + 1 : deferments'[k] = d
    BY <1>4 DEF IsDeferred
  <2>2. ASSUME NEW k \in 1 .. Last + 1, deferments'[k] = d PROVE IsDeferred(d) \/ d = cur
    <3>1. k = 1 \/ (k \in 2 .. Last + 1 /\ k - 1 \in 1 .. Last)
      BY <1>2
    <3>2. QED
      BY <1>4, <2>2, <3>1 DEF IsDeferred
  <2>3. ASSUME NEW k \in 1 .. Last, deferments[k] = d
        PROVE  \E i \in 1 .. Last + 1 : deferments'[i] = d
    <3>1. PICK i : i = k + 1
      OBVIOUS
    <3>2. i \in 2 .. Last + 1 /\ i \in 1 .. Last + 1 /\ i - 1 = k
      BY <1>2, <3>1
    <3>3. QED
      BY <1>4, <2>3, <3>2
  <2>4. 1 \in 1 .. Last + 1
    BY <1>2
  <2>5. QED
    BY <1>4, <2>1, <2>2, <2>3, <2>4 DEF IsDeferred
<1>7. QED
  BY <1>5, <1>6

LEMMA Progress ==
  ASSUME LInv
  PROVE  Done \in Int /\ Written \in Int /\ Done <= Written /\ Written <= Done + 1
BY NumbersOfEntries DEF LInv, Place, Done, Written

(* A step that leaves what is done with, and its names, as they are        *)
LEMMA SameDone ==
  ASSUME LInv, LInv', RInv, kind' = kind, ino' = ino, size' = size, linked' = linked,
         deferments' = deferments, phase # "done", phase' # "done",
         Done' = Done, Written' >= Written,
         \A k \in Entries : k <= Done => disk'[k] = disk[k]
  PROVE  Links' /\ DeferredOnce' /\ DeferredWait' /\ EachAccounted'
<1> USE NumbersOfEntries
<1>1. Links' /\ DeferredOnce'
  BY DEF RInv, Links, DeferredOnce, Last
<1>2. \A d : IsDeferred(d)' <=> IsDeferred(d)
  BY DEF IsDeferred, Last
<1>3. Done \in Int /\ Written \in Int /\ Written <= Done + 1 /\ Written' \in Int
  BY Progress DEF Done, Written, LInv, Place
<1>4. ASSUME NEW j \in Entries, NEW h \in Int, h <= Done, NoContents(j, h)
      PROVE  NoContents(j, h)'
  BY <1>3, <1>4 DEF NoContents
<1>5. ASSUME NEW d \in Entries, IsDeferred(d)'
      PROVE  EmptyLink(d)' /\ d <= Done' /\ NoContents(d, Done)' /\ disk'[d] = Absent
  <2>1. /\ EmptyLink(d) /\ d <= Done /\ NoContents(d, Done) /\ disk[d] = Absent
    BY <1>2, <1>5 DEF RInv, DeferredWait
  <2>2. \A k \in Entries : d <= k /\ k <= Done /\ ino[k] = ino[d] /\ size[k] > 0
                           => disk'[k] = Old
    BY <2>1 DEF NoContents
  <2>3. QED
    BY <2>1, <2>2 DEF EmptyLink, NoContents
<1>6. ASSUME NEW j \in Entries, j <= Done', EmptyLink(j)'
      PROVE  disk'[j] = Old \/ IsDeferred(j)' \/ Resolved(j)'
  <2>1. j <= Done /\ EmptyLink(j) /\ disk'[j] = disk[j]
    BY <1>6 DEF EmptyLink
  <2>2. disk[j] = Old \/ IsDeferred(j) \/ Resolved(j)
    BY <2>1 DEF RInv, EachAccounted
  <2>3. ASSUME Resolved(j) PROVE Resolved(j)'
    <3>1. PICK h \in Entries : /\ j <= h /\ h <= Written
                               /\ disk[j] = h /\ size[h] > 0 /\ NoContents(j, h - 1)
      BY <2>3 DEF Resolved
    <3>2. h - 1 \in Int /\ h - 1 <= Done /\ h <= Written'
      BY <1>3, <3>1
    <3>3. NoContents(j, h - 1)'
      BY <1>4, <3>1, <3>2
    <3>4. QED
      BY <2>1, <3>1, <3>2, <3>3 DEF Resolved
  <2>4. QED
    BY <1>2, <2>1, <2>2, <2>3
<1>7. DeferredWait'
  BY <1>5 DEF DeferredWait, NoContents
<1>8. EachAccounted'
  BY <1>6 DEF EachAccounted
<1>9. QED
  BY <1>1, <1>7, <1>8

(* The entry in hand is done with, and no deferred link waits for it.      *)
LEMMA DoneWithCur ==
  ASSUME LInv, LInv', RInv, kind' = kind, ino' = ino, size' = size, linked' = linked,
         deferments' = deferments, cur \in Entries, cur' = cur,
         phase \in {"dispatch", "create", "regular"}, phase' = "header",
         \A k \in Entries : k # cur => disk'[k] = disk[k],
         kind[cur] = "reg" /\ linked[ino[cur]] => disk'[cur] = Old
  PROVE  Links' /\ DeferredOnce' /\ DeferredWait' /\ EachAccounted'
<1> USE NumbersOfEntries
<1>1. Links' /\ DeferredOnce'
  BY DEF RInv, Links, DeferredOnce, Last
<1>2. \A d : IsDeferred(d)' <=> IsDeferred(d)
  BY DEF IsDeferred, Last
<1>3. Done = cur - 1 /\ Written = cur - 1 /\ Done' = cur /\ Written' = cur /\ cur \in Int
  BY DEF Done, Written
<1>4. ASSUME NEW j \in Entries, NEW h \in Int, h <= Done, NoContents(j, h)
      PROVE  NoContents(j, h)'
  BY <1>3, <1>4 DEF NoContents
<1>5. ASSUME NEW d \in Entries, IsDeferred(d)'
      PROVE  /\ EmptyLink(d)' /\ d <= cur /\ disk'[d] = Absent
             /\ \A k \in Entries : d <= k /\ k <= cur /\ ino[k] = ino[d] /\ size[k] > 0
                                   => disk'[k] = Old
  <2>1. /\ EmptyLink(d) /\ d <= Done /\ NoContents(d, Done) /\ disk[d] = Absent
    BY <1>2, <1>5 DEF RInv, DeferredWait
  <2>2. d # cur /\ d <= cur
    BY <1>3, <2>1
  <2>3. ASSUME NEW k \in Entries, d <= k, k <= cur, ino[k] = ino[d], size[k] > 0
        PROVE  disk'[k] = Old
    <3>1. CASE k = cur
      <4>1. kind[cur] = kind[d] /\ linked[ino[cur]]
        BY <2>2, <2>3, <3>1 DEF RInv, Links
      <4>2. QED
        BY <2>1, <3>1, <4>1 DEF EmptyLink
    <3>2. CASE k # cur
      <4>1. k <= Done
        BY <1>3, <2>3, <3>2
      <4>2. QED
        BY <2>1, <2>3, <3>2, <4>1 DEF NoContents
    <3>3. QED
      BY <3>1, <3>2
  <2>4. QED
    BY <2>1, <2>2, <2>3 DEF EmptyLink
<1>6. ASSUME NEW j \in Entries, j <= Done', EmptyLink(j)'
      PROVE  disk'[j] = Old \/ IsDeferred(j)' \/ Resolved(j)'
  <2>1. EmptyLink(j)
    BY <1>6 DEF EmptyLink
  <2>2. CASE j = cur
    BY <2>1, <2>2 DEF EmptyLink
  <2>3. CASE j # cur
    <3>1. j <= Done /\ disk'[j] = disk[j]
      BY <1>3, <1>6, <2>3
    <3>2. disk[j] = Old \/ IsDeferred(j) \/ Resolved(j)
      BY <2>1, <3>1 DEF RInv, EachAccounted
    <3>3. ASSUME Resolved(j) PROVE Resolved(j)'
      <4>1. PICK h \in Entries : /\ j <= h /\ h <= Written
                                 /\ disk[j] = h /\ size[h] > 0 /\ NoContents(j, h - 1)
        BY <3>3 DEF Resolved
      <4>2. h - 1 \in Int /\ h - 1 <= Done /\ h <= Written'
        BY <1>3, <4>1
      <4>3. NoContents(j, h - 1)'
        BY <1>4, <4>1, <4>2
      <4>4. QED
        BY <3>1, <4>1, <4>2, <4>3 DEF Resolved
    <3>4. QED
      BY <1>2, <3>1, <3>2, <3>3
  <2>4. QED
    BY <2>2, <2>3
<1>7. DeferredWait'
  BY <1>3, <1>5 DEF DeferredWait, NoContents
<1>8. EachAccounted'
  BY <1>6 DEF EachAccounted
<1>9. QED
  BY <1>1, <1>7, <1>8

(* The entry in hand is a link without contents, and is deferred.          *)
LEMMA DeferringCur ==
  ASSUME LInv, RInv, DeferCopyin, kind' = kind, ino' = ino, size' = size, linked' = linked
  PROVE  Links' /\ DeferredOnce' /\ DeferredWait' /\ EachAccounted'
<1> USE NumbersOfEntries
<1>1. /\ phase = "create" /\ phase' = "header" /\ cur' = cur /\ disk' = disk
      /\ kind[cur] = "reg" /\ EmptyLink(cur) /\ deferments' = <<cur>> \o deferments
      /\ cur \in Entries /\ disk[cur] = Absent
  BY DEF DeferCopyin, Creating, Deferred, IsLinked, Toss, EmptyLink, RInv, InHand,
         LInv, Place
<1>2. Done = cur - 1 /\ Written = cur - 1 /\ Done' = cur /\ Written' = cur /\ cur \in Int
  BY <1>1 DEF Done, Written
<1>3. ~IsDeferred(cur)
  BY <1>1, <1>2 DEF RInv, DeferredWait
<1>4. /\ DeferredOnce'
      /\ \A d : IsDeferred(d)' <=> IsDeferred(d) \/ d = cur
  BY <1>1, <1>3, OneDeferredMore DEF RInv
<1>5. Links'
  BY DEF RInv, Links
<1>6. ASSUME NEW d \in Entries, IsDeferred(d)'
      PROVE  /\ EmptyLink(d)' /\ d <= cur /\ disk'[d] = Absent
             /\ \A k \in Entries : d <= k /\ k <= cur /\ ino[k] = ino[d] /\ size[k] > 0
                                   => disk'[k] = Old
  <2>1. CASE d = cur
    <3>1. \A k \in Entries : d <= k /\ k <= cur => k = cur
      BY <2>1
    <3>2. ~(size[cur] > 0)
      BY <1>1 DEF EmptyLink
    <3>3. QED
      BY <1>1, <2>1, <3>1, <3>2 DEF EmptyLink
  <2>2. CASE d # cur
    <3>1. /\ EmptyLink(d) /\ d <= Done /\ NoContents(d, Done) /\ disk[d] = Absent
      BY <1>1, <1>4, <1>6, <2>2 DEF RInv, DeferredWait
    <3>2. ~(size[cur] > 0)
      BY <1>1 DEF EmptyLink
    <3>3. \A k \in Entries : d <= k /\ k <= cur /\ ino[k] = ino[d] /\ size[k] > 0
                             => disk[k] = Old
      BY <1>2, <3>1, <3>2 DEF NoContents
    <3>4. QED
      BY <1>1, <1>2, <3>1, <3>3 DEF EmptyLink
  <2>3. QED
    BY <2>1, <2>2
<1>7. ASSUME NEW j \in Entries, j <= Done', EmptyLink(j)'
      PROVE  disk'[j] = Old \/ IsDeferred(j)' \/ Resolved(j)'
  <2>1. EmptyLink(j)
    BY <1>7 DEF EmptyLink
  <2>2. CASE j = cur
    BY <1>4, <2>2
  <2>3. CASE j # cur
    <3>1. j <= Done
      BY <1>2, <1>7, <2>3
    <3>2. disk[j] = Old \/ IsDeferred(j) \/ Resolved(j)
      BY <2>1, <3>1 DEF RInv, EachAccounted
    <3>3. ASSUME Resolved(j) PROVE Resolved(j)'
      <4>1. PICK h \in Entries : /\ j <= h /\ h <= Written
                                 /\ disk[j] = h /\ size[h] > 0 /\ NoContents(j, h - 1)
        BY <3>3 DEF Resolved
      <4>2. h <= Written' /\ disk'[j] = h
        BY <1>1, <1>2, <4>1
      <4>3. NoContents(j, h - 1)'
        BY <1>1, <4>1 DEF NoContents
      <4>4. QED
        BY <4>1, <4>2, <4>3 DEF Resolved
    <3>4. QED
      BY <1>1, <1>4, <3>2, <3>3
  <2>4. QED
    BY <2>2, <2>3
<1>8. DeferredWait'
  BY <1>2, <1>6 DEF DeferredWait, NoContents
<1>9. EachAccounted'
  BY <1>7 DEF EachAccounted
<1>10. QED
  BY <1>4, <1>5, <1>8, <1>9

(* A deferred link becomes a link of the entry in hand.                    *)
LEMMA LinkingOne ==
  ASSUME LInv, RInv, ~faults, LinkDeferred,
         kind' = kind, ino' = ino, size' = size, linked' = linked
  PROVE  RInv'
<1> USE NumbersOfEntries
<1>1. /\ phase = "links" /\ phase' = "links" /\ cur' = cur /\ target' = target
      /\ next' = next
  BY DEF LinkDeferred, Linking
<1>2. Done = cur - 1 /\ Written = cur /\ Done' = cur - 1 /\ Written' = cur
  BY <1>1 DEF Done, Written
<1>3. /\ cur \in Entries /\ cur \in Int /\ target = cur /\ disk[cur] = cur /\ size[cur] > 0
      /\ disk \in [Entries -> {Absent, Old} \cup Entries]
  BY <1>1 DEF LInv, Place, RInv, InHand
<1> PICK c \in Entries : c = cur
  BY <1>3
<1>4. PICK h \in 1 .. Last :
        /\ Heir(0, h)
        /\ deferments' = Without(0, h)
        /\ \/ /\ disk[deferments[h]] = Absent
              /\ disk' = [disk EXCEPT ![deferments[h]] = disk[target]]
           \/ /\ disk[deferments[h]] # Absent
              /\ disk' = disk
  BY DEF LinkDeferred
<1>5. PICK d : d = deferments[h]
  OBVIOUS
<1>6. d \in Entries /\ IsDeferred(d) /\ ino[d] = ino[cur]
  <2>1. deferments \in Seq(Entries) /\ h \in 1 .. Len(deferments)
    BY <1>4 DEF LInv, Place, Last
  <2>2. d \in Entries
    BY <1>5, <2>1, ElementOfSeq
  <2>3. QED
    BY <1>4, <1>5, <2>2 DEF IsDeferred, Heir, IsLinkOfCur
<1>7. /\ EmptyLink(d) /\ d <= cur - 1 /\ NoContents(d, cur - 1) /\ disk[d] = Absent
  BY <1>1, <1>2, <1>6 DEF RInv, DeferredWait
<1>8. disk' = [disk EXCEPT ![d] = cur]
  BY <1>3, <1>4, <1>5, <1>7
<1>9. disk'[d] = cur /\ \A k \in Entries : k # d => disk'[k] = disk[k]
  BY <1>3, <1>6, <1>8
<1>10. /\ DeferredOnce'
       /\ \A e : IsDeferred(e)' <=> IsDeferred(e) /\ e # d
  BY <1>4, <1>5, OneDeferredLess DEF RInv
<1>11. ASSUME NEW j \in Entries, NEW i \in Int, NoContents(j, i)
       PROVE  NoContents(j, i)'
  <2>1. ~(size[d] > 0)
    BY <1>7 DEF EmptyLink
  <2>2. QED
    BY <1>9, <1>11, <2>1 DEF NoContents
<1>12. Links'
  BY DEF RInv, Links
<1>13. InHand' /\ Untouched'
  <2>0. Untouched'
    BY <1>2, <1>7, <1>9 DEF RInv, Untouched
  <2>1. disk'[cur] = cur
    BY <1>3, <1>6, <1>7, <1>9
  <2>2. QED
    BY <1>1, <1>3, <2>0, <2>1 DEF RInv, InHand
<1>14. ASSUME NEW e \in Entries, IsDeferred(e)'
       PROVE  EmptyLink(e)' /\ e <= Done' /\ NoContents(e, c - 1)' /\ disk'[e] = Absent
  <2>1. e # d /\ EmptyLink(e) /\ e <= cur - 1 /\ NoContents(e, c - 1) /\ disk[e] = Absent
    BY <1>1, <1>2, <1>10, <1>14 DEF RInv, DeferredWait
  <2>2. c - 1 \in Int /\ NoContents(e, c - 1)'
    BY <1>3, <1>11, <2>1
  <2>3. QED
    BY <1>2, <1>9, <2>1, <2>2 DEF EmptyLink
<1>15. DeferredWait'
  <2>1. ASSUME NEW e \in Entries, IsDeferred(e)' PROVE NoContents(e, Done)'
    BY <1>1, <1>2, <1>14, <2>1 DEF NoContents
  <2>2. QED
    BY <1>14, <2>1 DEF DeferredWait
<1>16. ASSUME NEW j \in Entries, j <= Done', EmptyLink(j)'
       PROVE  disk'[j] = Old \/ IsDeferred(j)' \/ Resolved(j)'
  <2>1. EmptyLink(j) /\ j <= Done
    BY <1>2, <1>16 DEF EmptyLink
  <2>2. CASE j = d
    <3>1. j <= c /\ c <= Written' /\ disk'[j] = c /\ size'[c] > 0
      BY <1>2, <1>3, <1>7, <1>9, <2>2
    <3>2. c - 1 \in Int /\ NoContents(j, c - 1)
      BY <1>3, <1>7, <2>2
    <3>3. NoContents(j, c - 1)'
      BY <1>11, <3>2
    <3>4. QED
      BY <3>1, <3>3 DEF Resolved
  <2>3. CASE j # d
    <3>1. disk[j] = Old \/ IsDeferred(j) \/ Resolved(j)
      BY <2>1 DEF RInv, EachAccounted
    <3>2. ASSUME Resolved(j) PROVE Resolved(j)'
      <4>1. PICK i \in Entries : /\ j <= i /\ i <= Written
                                 /\ disk[j] = i /\ size[i] > 0 /\ NoContents(j, i - 1)
        BY <3>2 DEF Resolved
      <4>2. i <= Written' /\ disk'[j] = i /\ i - 1 \in Int
        BY <1>2, <1>9, <2>3, <4>1
      <4>3. NoContents(j, i - 1)'
        BY <1>11, <4>1, <4>2
      <4>4. QED
        BY <4>1, <4>2, <4>3 DEF Resolved
    <3>3. QED
      BY <1>9, <1>10, <2>3, <3>1, <3>2
  <2>4. QED
    BY <2>2, <2>3
<1>17. EachAccounted'
  BY <1>16 DEF EachAccounted
<1>18. QED
  BY <1>10, <1>12, <1>13, <1>15, <1>17 DEF RInv

(* No deferred link of the entry in hand is left: those that are left wait *)
(* for another file.                                                       *)
LEMMA LinkingDone ==
  ASSUME LInv, RInv, AllLinked,
         kind' = kind, ino' = ino, size' = size, linked' = linked
  PROVE  RInv'
<1> USE NumbersOfEntries
<1>1. /\ phase = "links" /\ phase' = "header" /\ cur' = cur /\ next' = next
      /\ disk' = disk /\ deferments' = deferments
      /\ \A h \in 1 .. Last : ino[deferments[h]] # ino[cur]
  BY DEF AllLinked, Linking, IsLinkOfCur
<1>2. /\ Done = cur - 1 /\ Written = cur /\ Done' = cur /\ Written' = cur
      /\ cur \in Entries /\ cur \in Int
  BY <1>1 DEF Done, Written, LInv, Place
<1>3. Links' /\ DeferredOnce' /\ InHand' /\ Untouched'
  BY <1>1, <1>2 DEF RInv, Links, DeferredOnce, Last, InHand, Untouched
<1>4. \A d : IsDeferred(d)' <=> IsDeferred(d)
  BY <1>1 DEF IsDeferred, Last
<1>5. ASSUME NEW d \in Entries, IsDeferred(d)'
      PROVE  EmptyLink(d)' /\ d <= cur /\ NoContents(d, cur) /\ disk'[d] = Absent
  <2>1. /\ EmptyLink(d) /\ d <= cur - 1 /\ NoContents(d, cur - 1) /\ disk[d] = Absent
    BY <1>1, <1>2, <1>4, <1>5 DEF RInv, DeferredWait
  <2>2. ino[d] # ino[cur]
    BY <1>1, <1>4, <1>5 DEF IsDeferred
  <2>3. NoContents(d, cur)
    BY <1>2, <2>1, <2>2 DEF NoContents
  <2>4. QED
    BY <1>1, <1>2, <2>1, <2>3 DEF EmptyLink
<1>6. DeferredWait'
  <2>1. ASSUME NEW d \in Entries, IsDeferred(d)' PROVE NoContents(d, Done)'
    BY <1>1, <1>2, <1>5, <2>1 DEF NoContents
  <2>2. QED
    BY <1>2, <1>5, <2>1 DEF DeferredWait
<1>7. ASSUME NEW j \in Entries, j <= Done', EmptyLink(j)'
      PROVE  disk'[j] = Old \/ IsDeferred(j)' \/ Resolved(j)'
  <2>1. j # cur
    BY <1>1, <1>7 DEF RInv, InHand, EmptyLink
  <2>2. EmptyLink(j) /\ j <= Done
    BY <1>2, <1>7, <2>1 DEF EmptyLink
  <2>3. disk[j] = Old \/ IsDeferred(j) \/ Resolved(j)
    BY <2>2 DEF RInv, EachAccounted
  <2>4. ASSUME Resolved(j) PROVE Resolved(j)'
    BY <1>1, <1>2, <2>4 DEF Resolved, NoContents
  <2>5. QED
    BY <1>1, <1>4, <2>3, <2>4
<1>8. EachAccounted'
  BY <1>7 DEF EachAccounted
<1>9. QED
  BY <1>3, <1>6, <1>8 DEF RInv

(* The links that are left become empty files; no contents came for them.  *)
LEMMA FinalStep ==
  ASSUME LInv, RInv, CreateFinalDefers,
         kind' = kind, ino' = ino, size' = size, linked' = linked
  PROVE  RInv'
<1> USE NumbersOfEntries
<1>1. /\ phase = "final" /\ phase' = "done" /\ cur' = cur /\ next' = next
      /\ deferments' = deferments
  BY DEF CreateFinalDefers
<1>2. /\ Done = cur /\ Written = cur /\ Done' = cur /\ Written' = cur
  BY <1>1 DEF Done, Written
<1>3. \A k \in Entries : disk[k] # Absent => disk'[k] = disk[k]
  BY DEF CreateFinalDefers
<1>4. Links' /\ DeferredOnce' /\ InHand' /\ Untouched'
  <2>1. InHand' /\ Links' /\ DeferredOnce'
    BY <1>1 DEF RInv, Links, DeferredOnce, Last, InHand
  <2>2. \A k \in Entries : ~(k > Written')
    BY <1>1, <1>2 DEF RInv, InHand
  <2>3. QED
    BY <2>1, <2>2 DEF Untouched
<1>5. \A d : IsDeferred(d)' <=> IsDeferred(d)
  BY <1>1 DEF IsDeferred, Last
<1>6. ASSUME NEW j \in Entries, NEW h, NoContents(j, h) PROVE NoContents(j, h)'
  <2>1. Old # Absent
    BY DEF Old, Absent
  <2>2. QED
    BY <1>3, <1>6, <2>1 DEF NoContents
<1>7. ASSUME NEW d \in Entries, IsDeferred(d)'
      PROVE  EmptyLink(d)' /\ d <= Done' /\ NoContents(d, Done)'
  <2>1. EmptyLink(d) /\ d <= cur /\ NoContents(d, cur)
    BY <1>2, <1>5, <1>7 DEF RInv, DeferredWait
  <2>2. PICK c : c = cur
    OBVIOUS
  <2>3. NoContents(d, c)'
    BY <1>6, <2>1, <2>2
  <2>4. NoContents(d, Done)'
    BY <1>2, <2>2, <2>3 DEF NoContents
  <2>5. QED
    BY <1>2, <2>1, <2>4 DEF EmptyLink
<1>8. DeferredWait'
  BY <1>1, <1>7 DEF DeferredWait
<1>9. ASSUME NEW j \in Entries, j <= Done', EmptyLink(j)'
      PROVE  disk'[j] = Old \/ IsDeferred(j)' \/ Resolved(j)'
  <2>1. EmptyLink(j) /\ j <= Done
    BY <1>2, <1>9 DEF EmptyLink
  <2>2. disk[j] = Old \/ IsDeferred(j) \/ Resolved(j)
    BY <2>1 DEF RInv, EachAccounted
  <2>3. ASSUME Resolved(j) PROVE Resolved(j)'
    <3>1. PICK h \in Entries : /\ j <= h /\ h <= Written
                               /\ disk[j] = h /\ size[h] > 0 /\ NoContents(j, h - 1)
      BY <2>3 DEF Resolved
    <3>2. disk'[j] = h /\ h <= Written' /\ NoContents(j, h - 1)'
      BY <1>2, <1>3, <1>6, <3>1
    <3>3. QED
      BY <3>1, <3>2 DEF Resolved
  <2>4. disk[j] = Old => disk'[j] = Old
    BY <1>3 DEF Old, Absent
  <2>5. QED
    BY <1>5, <2>2, <2>3, <2>4
<1>10. EachAccounted'
  BY <1>9 DEF EachAccounted
<1>11. QED
  BY <1>4, <1>8, <1>10 DEF RInv

LEMMA StepKeepsRInv ==
  ASSUME LInv, SInv, RInv, Smooth, ~verbose, [Next]_vars, status' # "exit"
  PROVE  RInv'
<1> USE NumbersOfEntries
<1>1. LInv' /\ SInv'
  BY StepKeepsLInv, StepKeepsSInv DEF Smooth
<1>2. kind' = kind /\ ino' = ino /\ size' = size /\ linked' = linked
  BY DEF Next, vars, archive, ReadInHeader, Premature, ReadTrailer,
         SkipEntry, SkipLinked, ListFile, PassOver, QueryRename, KeepOld, TryExisting,
         DeferCopyin, BeginRegular, CreateNode, CopyinLink, OpenError,
         CopyinRegular, CopyTheRest, WriteFails, LinkDeferred, AllLinked, CreateFinalDefers
<1>3. CASE UNCHANGED vars
  <2>1. \A d : IsDeferred(d)' <=> IsDeferred(d)
    BY <1>3 DEF vars, IsDeferred, Last
  <2>2. Done' = Done /\ Written' = Written
    BY <1>3 DEF vars, Done, Written
  <2>3. Links' /\ InHand' /\ Untouched' /\ DeferredOnce'
    BY <1>2, <1>3, <2>2 DEF vars, RInv, Links, InHand, Untouched, DeferredOnce, Last,
                            EmptyLink
  <2>4. DeferredWait' /\ EachAccounted'
    BY <1>2, <1>3, <2>1, <2>2 DEF vars, RInv, DeferredWait, EachAccounted, EmptyLink,
                                  NoContents, Resolved
  <2>5. QED
    BY <2>3, <2>4 DEF RInv
<1>4. CASE ReadInHeader \/ Premature \/ ReadTrailer
  <2>1. phase = "header" /\ ~Overrun /\ Found = next /\ cur \in 0 .. N
    BY <1>4, SizesAreNumbers DEF ReadInHeader, Premature, ReadTrailer, Found, Overrun, SInv,
       Taken, LInv, Place
  <2>2. next = cur + 1
    BY DEF RInv, InHand
  <2>3. disk' = disk /\ deferments' = deferments
    BY <1>4 DEF ReadInHeader, Premature, ReadTrailer
  <2>4. \/ phase' = "dispatch" /\ cur' = cur + 1 /\ next' = cur' + 1
        \/ phase' \in {"header", "final"} /\ cur' = cur /\ next' = next
           /\ (phase' = "final" => cur = N)
    BY <1>4, <2>1, <2>2 DEF ReadInHeader, Premature, ReadTrailer
  <2>5. InHand'
    BY <2>2, <2>4 DEF InHand
  <2>6. Done = cur /\ Written = cur /\ Done' = cur /\ Written' = cur
    BY <2>1, <2>4 DEF Done, Written
  <2>7. Links' /\ DeferredOnce' /\ DeferredWait' /\ EachAccounted'
    BY <1>1, <1>2, <2>1, <2>3, <2>4, <2>6, SameDone
  <2>8. Untouched'
    BY <2>3, <2>6 DEF RInv, Untouched
  <2>9. QED
    BY <2>5, <2>7, <2>8 DEF RInv
<1>5. ~(SkipEntry \/ SkipLinked \/ ListFile \/ PassOver \/ QueryRename)
  BY DEF SkipEntry, SkipLinked, ListFile, PassOver, QueryRename, Smooth
<1>6. CASE KeepOld
  <2>1. /\ phase = "dispatch" /\ phase' = "header" /\ cur' = cur /\ next' = next
        /\ disk' = disk /\ deferments' = deferments /\ cur \in Entries
        /\ disk[cur] # Absent /\ cur \in newer
    BY <1>6 DEF KeepOld, Extracting, Dispatch, Protected, Exists, Toss, LInv, Place
  <2>2. disk[cur] = Old
    BY <2>1 DEF RInv, Untouched, Written, Done
  <2>3. Links' /\ DeferredOnce' /\ DeferredWait' /\ EachAccounted'
    BY <1>1, <1>2, <2>1, <2>2, DoneWithCur
  <2>4. InHand'
    BY <2>1 DEF RInv, InHand
  <2>5. Untouched'
    BY <2>1 DEF RInv, Untouched, Written, Done
  <2>6. QED
    BY <2>3, <2>4, <2>5 DEF RInv
<1>7. CASE TryExisting
  <2>1. /\ phase = "dispatch" /\ phase' = "create" /\ cur' = cur /\ next' = next
        /\ deferments' = deferments /\ cur \in Entries
    BY <1>7 DEF TryExisting, Extracting, Dispatch, LInv, Place
  <2>2. \/ disk' = disk /\ (disk[cur] = Absent \/ kind[cur] = "dir")
        \/ disk' = [disk EXCEPT ![cur] = Absent]
    BY <1>7 DEF TryExisting, Exists, SameDir, Smooth
  <2>3. /\ \A k \in Entries : k # cur => disk'[k] = disk[k]
        /\ kind[cur] = "reg" => disk'[cur] = Absent
        /\ disk'[cur] = disk[cur] \/ disk'[cur] = Absent
    BY <2>1, <2>2 DEF LInv, Place
  <2>4. Done = cur - 1 /\ Written = cur - 1 /\ Done' = cur - 1 /\ Written' = cur - 1
        /\ cur \in Int
    BY <2>1 DEF Done, Written
  <2>5. \A k \in Entries : k <= Done => disk'[k] = disk[k]
    BY <2>3, <2>4
  <2>6. Links' /\ DeferredOnce' /\ DeferredWait' /\ EachAccounted'
    BY <1>1, <1>2, <2>1, <2>4, <2>5, SameDone
  <2>7. InHand'
    BY <1>2, <2>1, <2>3 DEF RInv, InHand
  <2>8. Untouched'
    BY <2>3, <2>4 DEF RInv, Untouched
  <2>9. QED
    BY <2>6, <2>7, <2>8 DEF RInv
<1>8. CASE DeferCopyin
  <2>1. /\ phase' = "header" /\ cur' = cur /\ next' = next /\ disk' = disk
        /\ phase = "create" /\ cur \in Entries
    BY <1>8 DEF DeferCopyin, Toss, Creating, LInv, Place
  <2>2. InHand'
    BY <2>1 DEF RInv, InHand
  <2>3. Untouched'
    BY <2>1 DEF RInv, Untouched, Written, Done
  <2>4. QED
    BY <1>2, <1>8, <2>2, <2>3, DeferringCur DEF RInv
<1>9. CASE BeginRegular
  <2>1. /\ phase = "create" /\ phase' = "regular" /\ cur' = cur /\ next' = next
        /\ disk' = disk /\ deferments' = deferments /\ cur \in Entries
        /\ target' = target /\ target = cur /\ kind[cur] = "reg" /\ ~EmptyLink(cur)
    BY <1>9 DEF BeginRegular, Creating, Deferred, IsLinked, EmptyLink, Smooth, LInv,
                Place
  <2>2. Done = cur - 1 /\ Written = cur - 1 /\ Done' = cur - 1 /\ Written' = cur - 1
        /\ cur \in Int
    BY <2>1 DEF Done, Written
  <2>3. Links' /\ DeferredOnce' /\ DeferredWait' /\ EachAccounted'
    BY <1>1, <1>2, <2>1, <2>2, SameDone
  <2>4. InHand'
    BY <1>2, <2>1 DEF RInv, InHand, EmptyLink
  <2>5. Untouched'
    BY <2>1, <2>2 DEF RInv, Untouched
  <2>6. QED
    BY <2>3, <2>4, <2>5 DEF RInv
<1>10. CASE CreateNode \/ CopyinLink
  <2>1. /\ phase = "create" /\ phase' = "header" /\ cur' = cur /\ next' = next
        /\ deferments' = deferments /\ cur \in Entries /\ kind[cur] # "reg"
        /\ disk' = disk \/ disk' = [disk EXCEPT ![cur] = cur]
    BY <1>10 DEF CreateNode, CopyinLink, Creating, Toss, LInv, Place
  <2>2. \A k \in Entries : k # cur => disk'[k] = disk[k]
    BY <2>1 DEF LInv, Place
  <2>3. Links' /\ DeferredOnce' /\ DeferredWait' /\ EachAccounted'
    BY <1>1, <1>2, <2>1, <2>2, DoneWithCur
  <2>4. InHand'
    BY <2>1 DEF RInv, InHand
  <2>5. Untouched'
    BY <2>1, <2>2 DEF RInv, Untouched, Written, Done
  <2>6. QED
    BY <2>3, <2>4, <2>5 DEF RInv
<1>11. ~(OpenError \/ WriteFails \/ CopyTheRest)
  <2>1. Old # Absent
    BY DEF Old, Absent
  <2>2. ~CopyTheRest
    BY DEF CopyTheRest
  <2>3. QED
    BY <2>1, <2>2 DEF OpenError, WriteFails, Regular, RInv, InHand, Smooth
<1>12. CASE CopyinRegular
  <2>1. /\ phase = "regular" /\ cur' = cur /\ next' = next /\ target' = target
        /\ deferments' = deferments /\ disk' = [disk EXCEPT ![target] = cur]
        /\ cur \in Entries
        /\ \/ linked[ino[cur]] /\ phase' = "links"
           \/ ~linked[ino[cur]] /\ phase' = "header"
    BY <1>12 DEF CopyinRegular, Regular, IsLinked, Smooth, LInv, Place
  <2>2. target = cur /\ kind[cur] = "reg" /\ ~EmptyLink(cur)
    BY <2>1 DEF RInv, InHand
  <2>3. disk'[cur] = cur /\ \A k \in Entries : k # cur => disk'[k] = disk[k]
    BY <2>1, <2>2 DEF LInv, Place
  <2>4. CASE linked[ino[cur]] /\ phase' = "links"
    <3>1. Done = cur - 1 /\ Written = cur - 1 /\ Done' = cur - 1 /\ Written' = cur
          /\ cur \in Int
      BY <2>1, <2>4 DEF Done, Written
    <3>2. \A k \in Entries : k <= Done => disk'[k] = disk[k]
      BY <2>3, <3>1
    <3>3. Links' /\ DeferredOnce' /\ DeferredWait' /\ EachAccounted'
      BY <1>1, <1>2, <2>1, <2>4, <3>1, <3>2, SameDone
    <3>4. size[cur] > 0
      BY <2>1, <2>2, <2>4, SizesAreNumbers DEF EmptyLink, SInv
    <3>5. InHand'
      BY <1>2, <2>1, <2>2, <2>3, <2>4, <3>4 DEF RInv, InHand
    <3>6. Untouched'
      BY <2>3, <3>1 DEF RInv, Untouched
    <3>7. QED
      BY <3>3, <3>5, <3>6 DEF RInv
  <2>5. CASE ~linked[ino[cur]] /\ phase' = "header"
    <3>1. Links' /\ DeferredOnce' /\ DeferredWait' /\ EachAccounted'
      BY <1>1, <1>2, <2>1, <2>3, <2>5, DoneWithCur
    <3>2. InHand'
      BY <2>1, <2>5 DEF RInv, InHand
    <3>3. Untouched'
      BY <2>1, <2>3, <2>5 DEF RInv, Untouched, Written, Done
    <3>4. QED
      BY <3>1, <3>2, <3>3 DEF RInv
  <2>6. QED
    BY <2>1, <2>4, <2>5
<1>13. CASE LinkDeferred
  BY <1>2, <1>13, LinkingOne DEF Smooth
<1>14. CASE AllLinked
  BY <1>2, <1>14, LinkingDone
<1>15. CASE CreateFinalDefers
  BY <1>2, <1>15, FinalStep
<1>16. QED
  BY <1>3, <1>4, <1>5, <1>6, <1>7, <1>8, <1>9, <1>10, <1>11, <1>12, <1>13, <1>14,
     <1>15 DEF Next

LEMMA RInvSays == LInv /\ RInv /\ Smooth => LinksResolved
<1> SUFFICES ASSUME LInv, RInv, phase = "done",
                    NEW j \in Entries, NEW k \in Entries,
                    j < k, ino[j] = ino[k], kind[j] = "reg", size[j] = 0, size[k] > 0,
                    disk[j] # Old, disk[k] # Old
             PROVE  \E h \in j .. k : disk[j] = h /\ size[h] > 0
  BY DEF LinksResolved
<1> USE NumbersOfEntries
<1>1. cur = N /\ Done = N
  BY DEF RInv, InHand, Done
<1>2. EmptyLink(j)
  BY DEF RInv, Links, EmptyLink
<1>3. IsDeferred(j) \/ Resolved(j)
  BY <1>1, <1>2 DEF RInv, EachAccounted
<1>4. ~IsDeferred(j)
  BY <1>1 DEF RInv, DeferredWait, NoContents
<1>5. PICK h \in Entries : j <= h /\ disk[j] = h /\ size[h] > 0 /\ NoContents(j, h - 1)
  BY <1>3, <1>4 DEF Resolved
<1>6. h <= k
  BY <1>5 DEF NoContents
<1>7. h \in j .. k
  BY <1>5, <1>6
<1>8. QED
  BY <1>5, <1>7

(* When every entry is extracted and the system refuses nothing, each link *)
(* that came without contents is in the end a link of the first file of    *)
(* its inode, behind it in the archive, that was written: however many     *)
(* links of how many files were deferred in between.                       *)
THEOREM CopyInLinksResolved == Spec => []LinksResolved
<1> DEFINE Plain == Smooth /\ ~verbose
           PInv == /\ LInv
                   /\ verbose => mode = "list"
                   /\ Plain => SInv /\ IF status = "exit" THEN phase # "done" ELSE RInv
<1>1. Init => PInv
  <2>1. Init => status # "exit" /\ (verbose => mode = "list")
    BY DEF Init
  <2>2. QED
    BY <2>1, InitLInv, InitSInv, InitRInv
<1>2. PInv /\ [Next]_vars => PInv'
  <2>1. SUFFICES ASSUME PInv, [Next]_vars PROVE PInv'
    OBVIOUS
  <2>2. faults' = faults /\ verbose' = verbose /\ mode' = mode /\ newc' = newc
        /\ unwanted' = unwanted
    BY <2>1 DEF Next, vars, options, archive, ReadInHeader, Premature, ReadTrailer,
         SkipEntry, SkipLinked, ListFile, PassOver, QueryRename, KeepOld, TryExisting,
         DeferCopyin, BeginRegular, CreateNode, CopyinLink, OpenError,
         CopyinRegular, CopyTheRest, WriteFails, LinkDeferred, AllLinked, CreateFinalDefers
  <2>3. LInv'
    BY <2>1, StepKeepsLInv
  <2>4. Plain' => Plain
    BY <2>2 DEF Smooth
  <2>5. ASSUME Plain PROVE SInv' /\ IF status' = "exit" THEN phase' # "done" ELSE RInv'
    <3>1. SInv'
      BY <2>1, <2>5, StepKeepsSInv DEF Smooth
    <3>2. CASE status = "exit"
      <4>1. UNCHANGED vars
        BY <2>1, <3>2 DEF Next, Running, Dispatch, Extracting, Creating, Regular, Linking,
           ReadInHeader, Premature, ReadTrailer,
           SkipEntry, SkipLinked, ListFile, PassOver, QueryRename, KeepOld, TryExisting,
           DeferCopyin, BeginRegular, CreateNode, CopyinLink, OpenError, CopyinRegular,
           CopyTheRest, WriteFails, LinkDeferred, AllLinked, CreateFinalDefers
      <4>2. QED
        BY <2>1, <2>5, <3>1, <3>2, <4>1 DEF vars
    <3>3. CASE status # "exit" /\ status' = "exit"
      <4>1. Premature \/ CopyTheRest
        BY <2>1, <3>3 DEF Next, vars, ReadInHeader, ReadTrailer, SkipEntry, SkipLinked,
           ListFile, PassOver, QueryRename, KeepOld, TryExisting, DeferCopyin, BeginRegular,
           CreateNode, CopyinLink, OpenError, CopyinRegular, WriteFails, LinkDeferred,
           AllLinked, CreateFinalDefers
      <4>2. phase' \in {"header", "regular"}
        BY <4>1 DEF Premature, CopyTheRest, Regular
      <4>3. QED
        BY <3>1, <3>3, <4>2
    <3>4. CASE status # "exit" /\ status' # "exit"
      BY <2>1, <2>5, <3>1, <3>4, StepKeepsRInv
    <3>5. QED
      BY <3>2, <3>3, <3>4
  <2>6. QED
    BY <2>1, <2>2, <2>3, <2>4, <2>5
<1>3. PInv => LinksResolved
  <2>1. SUFFICES ASSUME PInv, ~LinksResolved PROVE FALSE
    OBVIOUS
  <2>2. Smooth
    BY <2>1 DEF LinksResolved, Smooth
  <2>3. ~verbose
    BY <2>1, <2>2 DEF Smooth
  <2>4. phase = "done"
    BY <2>1 DEF LinksResolved
  <2>5. QED
    BY <2>1, <2>2, <2>3, <2>4, RInvSays
<1>4. QED
  BY <1>1, <1>2, <1>3, PTL DEF Spec
===============================================================================
