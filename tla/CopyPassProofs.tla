---------------------------- MODULE CopyPassProofs ----------------------------
(***************************************************************************)
(* What holds of copy-pass for every list of names and whatever other      *)
(* processes do to the files: copies have the stated size, protected       *)
(* files and the files of the input stay, links are not copied, and no     *)
(* name is left out without a message.                                     *)
(***************************************************************************)
EXTENDS CopyPass, SequenceTheorems, TLAPS

LEMMA CurIsName ==
  ASSUME list \in Seq(Names), at \in 1 .. Len(list)
  PROVE  Cur \in Names
BY ElementOfSeq DEF Cur

(* A size goes through the signed word unchanged when it is less than Half *)
LEMMA CastKeeps ==
  ASSUME NEW s \in Nat
  PROVE  /\ AsUsize(AsI32(s)) \in Nat
         /\ s < Half => AsUsize(AsI32(s)) = s
<1>1. 2 * Half \in Nat \ {0} /\ Word \in Nat \ {0} /\ Half \in Nat \ {0} /\ Word >= 2 * Half
  BY CastsAssumption
<1>2. s % (2 * Half) \in 0 .. 2 * Half - 1
  BY <1>1
<1>3. AsI32(s) \in Int
  BY <1>1, <1>2 DEF AsI32
<1>4. AsUsize(AsI32(s)) \in Nat
  BY <1>1, <1>3 DEF AsUsize
<1>5. ASSUME s < Half PROVE AsUsize(AsI32(s)) = s
  <2>1. s % (2 * Half) = s
    BY <1>1, <1>5
  <2>2. AsI32(s) = s
    BY <2>1, <1>5, <1>1 DEF AsI32
  <2>3. s % Word = s
    BY <1>1, <1>5
  <2>4. QED
    BY <2>2, <2>3 DEF AsUsize
<1>6. QED
  BY <1>4, <1>5

LEMMA LeastOfTwo ==
  ASSUME NEW a \in Int, NEW b \in Int
  PROVE  Least({a, b}) \in {a, b} /\ Least({a, b}) <= a /\ Least({a, b}) <= b
<1>1. \E x \in {a, b} : \A y \in {a, b} : x <= y
  <2>1. CASE a <= b
    BY <2>1
  <2>2. CASE b <= a
    BY <2>2
  <2>3. QED
    BY <2>1, <2>2
<1>2. Least({a, b}) \in {a, b} /\ \A y \in {a, b} : Least({a, b}) <= y
  BY <1>1 DEF Least
<1>3. QED
  BY <1>2

-------------------------------------------------------------------------------
(* Types.  The first part is about what no step changes.                   *)
GivenOK ==
  /\ inode \in [Names -> Inodes]
  /\ kind \in [Inodes -> Kinds]
  /\ linked \subseteq Inodes
  /\ list \in Seq(Names)
  /\ <<link, unconditional, createDir, same, faults>>
       \in BOOLEAN \X BOOLEAN \X BOOLEAN \X BOOLEAN \X BOOLEAN
  /\ newer \subseteq Names

PlaceOK ==
  /\ at \in 1 .. Len(list) + 1
  /\ phase \in {"list", "make", "copy", "done"}
  /\ phase \in {"make", "copy"} => at <= Len(list)
  /\ failed \subseteq Names
  /\ orphan \subseteq Names
  /\ status \in {"running", "aborted"}

FilesOK ==
  /\ size \in [Inodes -> Sizes]
  /\ stated \in Nat
  /\ dst \in [Names -> States]
  /\ data \in [Names -> [bytes : Nat, zeros : Nat]]
  /\ left \in Nat

LEMMA TypeParts == TypeOK <=> GivenOK /\ PlaceOK /\ FilesOK
BY DEF TypeOK, GivenOK, PlaceOK, FilesOK

LEMMA GivenStays == GivenOK /\ [Next]_vars => UNCHANGED given /\ GivenOK'
<1> SUFFICES ASSUME GivenOK, [Next]_vars PROVE UNCHANGED given /\ GivenOK'
  OBVIOUS
<1>1. UNCHANGED given
  BY DEF Next, Step, EndOfNames, StatFails, NotCreated, CannotRemove, Begin, LinkToName,
         CannotOpenInput, CannotCreate, OpenBoth, CopyChunk, PadWithZeros, Copied,
         MakeDir, MakeNode, OtherWrites, vars
<1>2. QED
  BY <1>1 DEF given, GivenOK

LEMMA InitTypeOK == Init => TypeOK
<1> SUFFICES ASSUME Init PROVE TypeOK
  OBVIOUS
<1>1. list \in Seq(Names)
  BY IsASeq, CopyPassAssumption DEF Init
<1>2. at \in 1 .. Len(list) + 1
  BY <1>1, LenProperties DEF Init
<1>3. QED
  BY <1>1, <1>2, CopyPassAssumption DEF Init, TypeOK, States, NoData

LEMMA PlaceNext == GivenOK /\ PlaceOK /\ [Next]_vars => PlaceOK'
<1> SUFFICES ASSUME GivenOK, PlaceOK, [Next]_vars PROVE PlaceOK'
  OBVIOUS
<1>0. /\ Len(list) \in Nat
      /\ list' = list /\ Len(list') = Len(list)
      /\ at \in 1 .. Len(list) => Cur \in Names
  BY CurIsName, LenProperties, GivenStays DEF GivenOK, given
<1>1. CASE EndOfNames
  BY <1>0, <1>1 DEF EndOfNames, PlaceOK
<1>2. CASE StatFails
  BY <1>0, <1>2 DEF StatFails, HasName, GiveUp, NextName, PlaceOK
<1>3. CASE NotCreated
  BY <1>0, <1>3 DEF NotCreated, HasName, GiveUp, NextName, PlaceOK
<1>4. CASE CannotRemove
  BY <1>0, <1>4 DEF CannotRemove, HasName, GiveUp, NextName, PlaceOK
<1>5. CASE Begin
  BY <1>0, <1>5 DEF Begin, HasName, PlaceOK
<1>6. CASE LinkToName
  BY <1>0, <1>6 DEF LinkToName, Making, MakeParents, NextName, PlaceOK
<1>7. CASE CannotOpenInput
  BY <1>0, <1>7 DEF CannotOpenInput, Making, ParentsAfterLink, MakeParents, GiveUp,
                    NextName, PlaceOK
<1>8. CASE CannotCreate
  BY <1>0, <1>8 DEF CannotCreate, Making, GiveUp, NextName, PlaceOK
<1>9. CASE OpenBoth
  BY <1>0, <1>9 DEF OpenBoth, Making, MakeParents, PlaceOK
<1>10. CASE CopyChunk
  BY <1>0, <1>10 DEF CopyChunk, PlaceOK
<1>11. CASE PadWithZeros
  BY <1>0, <1>11 DEF PadWithZeros, PlaceOK
<1>12. CASE Copied
  BY <1>0, <1>12 DEF Copied, Copying, NextName, PlaceOK
<1>13. CASE MakeDir
  <2>1. failed' \subseteq Names /\ orphan' \subseteq Names
    BY <1>0, <1>13 DEF MakeDir, Making, MakeParents, GiveUp, PlaceOK
  <2>2. NextName /\ phase = "make" /\ status' = status
    BY <1>13 DEF MakeDir, Making, GiveUp
  <2>3. QED
    BY <1>0, <2>1, <2>2 DEF NextName, PlaceOK
<1>14. CASE MakeNode
  <2>1. failed' \subseteq Names /\ orphan' \subseteq Names
    BY <1>0, <1>14 DEF MakeNode, Making, MakeParents, GiveUp, PlaceOK
  <2>2. NextName /\ phase = "make" /\ status' = status
    BY <1>14 DEF MakeNode, Making, GiveUp
  <2>3. QED
    BY <1>0, <2>1, <2>2 DEF NextName, PlaceOK
<1>15. CASE OtherWrites
  BY <1>0, <1>15 DEF OtherWrites, PlaceOK
<1>16. CASE UNCHANGED vars
  BY <1>0, <1>16 DEF vars, PlaceOK
<1>17. QED
  BY <1>1, <1>2, <1>3, <1>4, <1>5, <1>6, <1>7, <1>8, <1>9, <1>10, <1>11, <1>12,
     <1>13, <1>14, <1>15, <1>16 DEF Next, Step

LEMMA FilesNext == TypeOK /\ [Next]_vars => FilesOK'
<1> SUFFICES ASSUME GivenOK, PlaceOK, FilesOK, [Next]_vars PROVE FilesOK'
  BY TypeParts
<1>0. phase \in {"make", "copy"} \/ at <= Len(list) => Cur \in Names
  BY CurIsName, LenProperties DEF GivenOK, PlaceOK
<1>1. ASSUME NEW n \in Names, NEW state \in States
      PROVE  [dst EXCEPT ![n] = state] \in [Names -> States]
  BY DEF FilesOK
<1>2. ASSUME NEW n \in Names
      PROVE  [data EXCEPT ![n] = NoData] \in [Names -> [bytes : Nat, zeros : Nat]]
  BY DEF FilesOK, NoData
<1>3. CASE Begin
  <2>1. Cur \in Names
    BY <1>0, <1>3 DEF Begin, HasName
  <2>2. stated' \in Nat
    BY <1>3, <2>1, CopyPassAssumption DEF Begin, FilesOK, GivenOK
  <2>3. [dst EXCEPT ![Cur] = "absent"] \in [Names -> States]
    BY <1>1, <2>1 DEF States
  <2>4. [data EXCEPT ![Cur] = NoData] \in [Names -> [bytes : Nat, zeros : Nat]]
    BY <1>2, <2>1
  <2>5. dst' \in [Names -> States] /\ data' \in [Names -> [bytes : Nat, zeros : Nat]]
    BY <1>3, <2>3, <2>4 DEF Begin, FilesOK
  <2>6. size' = size /\ left' = left
    BY <1>3 DEF Begin
  <2>7. QED
    BY <2>2, <2>5, <2>6 DEF FilesOK
<1>4. CASE LinkToName
  BY <1>0, <1>1, <1>4 DEF LinkToName, Making, FilesOK, States
<1>5. CASE OpenBoth
  <2>1. Cur \in Names
    BY <1>0, <1>5 DEF OpenBoth, Making
  <2>2. left' \in Nat
    BY <1>5, CastKeeps DEF OpenBoth, FilesOK
  <2>3. dst' \in [Names -> States]
    BY <1>1, <1>5, <2>1 DEF OpenBoth, States
  <2>4. data' \in [Names -> [bytes : Nat, zeros : Nat]]
    BY <1>2, <1>5, <2>1 DEF OpenBoth
  <2>5. size' = size /\ stated' = stated
    BY <1>5 DEF OpenBoth
  <2>6. QED
    BY <2>2, <2>3, <2>4, <2>5 DEF FilesOK
<1>6. CASE CopyChunk
  <2>1. Cur \in Names
    BY <1>0, <1>6 DEF CopyChunk, Copying
  <2>2. inode[Cur] \in Inodes
    BY <2>1 DEF GivenOK
  <2>3. size[inode[Cur]] \in Nat
    BY <2>2, CopyPassAssumption DEF FilesOK
  <2>4. data[Cur].bytes \in Nat
    BY <2>1 DEF FilesOK
  <2>5. Written \in Nat /\ Available \in Int
    BY <2>3, <2>4 DEF Written, Available
  <2>6. PICK r \in 1 .. Least({left, Available}) :
           data' = [data EXCEPT ![Cur].bytes = Written + r] /\ left' = left - r
    BY <1>6 DEF CopyChunk
  <2>7. left \in Nat /\ Least({left, Available}) \in Int /\ Least({left, Available}) <= left
    <3>1. left \in Nat /\ left \in Int
      BY DEF FilesOK
    <3>2. Least({left, Available}) \in {left, Available} /\ Least({left, Available}) <= left
      BY <2>5, <3>1, LeastOfTwo
    <3>3. QED
      BY <2>5, <3>1, <3>2
  <2>8. r \in Nat /\ r <= left
    BY <2>6, <2>7
  <2>9. data' \in [Names -> [bytes : Nat, zeros : Nat]]
    BY <2>1, <2>5, <2>6, <2>8 DEF FilesOK
  <2>10. left' \in Nat
    BY <2>6, <2>7, <2>8
  <2>11. size' = size /\ stated' = stated /\ dst' = dst
    BY <1>6 DEF CopyChunk
  <2>12. QED
    BY <2>9, <2>10, <2>11 DEF FilesOK
<1>7. CASE PadWithZeros
  <2>1. Cur \in Names
    BY <1>0, <1>7 DEF PadWithZeros, Copying
  <2>2. data' \in [Names -> [bytes : Nat, zeros : Nat]]
    BY <1>7, <2>1 DEF PadWithZeros, Pad, FilesOK
  <2>3. QED
    BY <1>7, <2>2 DEF PadWithZeros, FilesOK
<1>8. CASE MakeDir
  <2>1. Cur \in Names
    BY <1>0, <1>8 DEF MakeDir, Making
  <2>2. dst' = dst \/ dst' = [dst EXCEPT ![Cur] = "dir"]
    BY <1>8 DEF MakeDir
  <2>3. dst' \in [Names -> States]
    BY <1>1, <2>1, <2>2 DEF States, FilesOK
  <2>4. QED
    BY <1>8, <2>3 DEF MakeDir, FilesOK
<1>9. CASE MakeNode
  <2>1. Cur \in Names
    BY <1>0, <1>9 DEF MakeNode, Making
  <2>2. dst' = dst \/ dst' = [dst EXCEPT ![Cur] = "node"]
    BY <1>9 DEF MakeNode
  <2>3. dst' \in [Names -> States]
    BY <1>1, <2>1, <2>2 DEF States, FilesOK
  <2>4. QED
    BY <1>9, <2>3 DEF MakeNode, FilesOK
<1>10. CASE OtherWrites
  <2>1. size' \in [Inodes -> Sizes]
    BY <1>10 DEF OtherWrites, FilesOK
  <2>2. QED
    BY <1>10, <2>1 DEF OtherWrites, FilesOK
<1>11. CASE \/ EndOfNames \/ StatFails \/ NotCreated \/ CannotRemove \/ CannotOpenInput
            \/ CannotCreate \/ Copied \/ UNCHANGED vars
  <2>1. UNCHANGED <<size, stated, dst, data, left>>
    BY <1>11 DEF EndOfNames, StatFails, NotCreated, CannotRemove, CannotOpenInput,
                 CannotCreate, Copied, vars
  <2>2. QED
    BY <2>1 DEF FilesOK
<1>12. QED
  BY <1>3, <1>4, <1>5, <1>6, <1>7, <1>8, <1>9, <1>10, <1>11 DEF Next, Step

LEMMA NextTypeOK == TypeOK /\ [Next]_vars => TypeOK'
<1> SUFFICES ASSUME TypeOK, [Next]_vars PROVE TypeOK'
  OBVIOUS
<1>1. GivenOK /\ PlaceOK /\ FilesOK
  BY TypeParts
<1>2. GivenOK' /\ PlaceOK' /\ FilesOK'
  BY <1>1, GivenStays, PlaceNext, FilesNext
<1>3. QED
  BY <1>2 DEF TypeOK, GivenOK, PlaceOK, FilesOK

(* Every variable has its type: in particular the line that is read next   *)
(* is on the list, or behind its end, through every way a name is given up.*)
THEOREM TypeCorrect == Spec => []TypeOK
BY InitTypeOK, NextTypeOK, PTL DEF Spec
-------------------------------------------------------------------------------
(* The size of a copy                                                      *)

(* What is padded is padded at the end, once.                              *)
NoZerosYet == Copying /\ left > 0 => data[Cur].zeros = 0
SizeInv == NoZerosYet /\ SizeAsStated

LEMMA SizeNext == TypeOK /\ SizeInv /\ [Next]_vars => SizeInv'
<1> SUFFICES ASSUME TypeOK, SizeInv, [Next]_vars, Copying' PROVE SizeInv'
  BY DEF SizeInv, NoZerosYet, SizeAsStated
<1>0. UNCHANGED given
  BY TypeParts, GivenStays
<1>1. \/ OpenBoth \/ CopyChunk \/ PadWithZeros
      \/ Copying /\ UNCHANGED <<at, data, left, stated>>
  <2>1. Running' /\ phase' = "copy"
    BY DEF Copying
  <2>2. CASE OtherWrites
    BY <2>1, <2>2 DEF OtherWrites, Copying, Running
  <2>3. CASE UNCHANGED vars
    BY <2>1, <2>3 DEF vars, Copying, Running
  <2>4. CASE MakeDir
    BY <2>1, <2>4 DEF MakeDir, GiveUp, NextName
  <2>5. CASE MakeNode
    BY <2>1, <2>5 DEF MakeNode, GiveUp, NextName
  <2>6. CASE CannotCreate
    BY <2>1, <2>6 DEF CannotCreate, GiveUp, NextName, Running, Making
  <2>7. QED
    BY <2>1, <2>2, <2>3, <2>4, <2>5, <2>6 DEF Next, Step, EndOfNames, StatFails, NotCreated,
       CannotRemove, Begin, LinkToName, CannotOpenInput, Copied, GiveUp, NextName
<1>2. at' \in 1 .. Len(list') /\ Cur' \in Names
  <2>1. TypeOK'
    BY NextTypeOK
  <2>2. at' \in 1 .. Len(list')
    BY <2>1 DEF TypeOK, Copying
  <2>3. QED
    BY <2>1, <2>2, ElementOfSeq DEF TypeOK, Cur
<1>3. CASE OpenBoth
  <2>1. Cur' = Cur /\ Cur \in Names /\ stated' = stated
    BY <1>0, <1>2, <1>3 DEF OpenBoth, Cur, given
  <2>2. data'[Cur] = NoData
    BY <1>3, <2>1 DEF OpenBoth, TypeOK
  <2>3. stated < Half => left' = stated
    BY <1>3, CastKeeps DEF OpenBoth, TypeOK
  <2>4. stated \in Nat
    BY DEF TypeOK
  <2>5. QED
    BY <2>1, <2>2, <2>3, <2>4 DEF SizeInv, NoZerosYet, SizeAsStated, NoData
<1>4. CASE CopyChunk
  <2>1. Cur' = Cur /\ Cur \in Names /\ stated' = stated /\ Copying /\ left > 0
    BY <1>0, <1>2, <1>4 DEF CopyChunk, Cur, given
  <2>2. PICK r \in 1 .. Least({left, Available}) :
           data' = [data EXCEPT ![Cur].bytes = Written + r] /\ left' = left - r
    BY <1>4 DEF CopyChunk
  <2>3. data[Cur].bytes \in Nat /\ data[Cur].zeros = 0 /\ left \in Nat /\ stated \in Nat
    BY <2>1 DEF TypeOK, SizeInv, NoZerosYet
  <2>4. data'[Cur].bytes = data[Cur].bytes + r /\ data'[Cur].zeros = 0
    BY <2>1, <2>2, <2>3 DEF TypeOK, Written
  <2>5. r \in Int
    OBVIOUS
  <2>6. stated < Half => data[Cur].bytes + 0 + left = stated
    BY <2>1, <2>3 DEF SizeInv, SizeAsStated
  <2>7. QED
    BY <2>1, <2>2, <2>3, <2>4, <2>5, <2>6 DEF SizeInv, NoZerosYet, SizeAsStated
<1>5. CASE PadWithZeros
  <2>1. Cur' = Cur /\ Cur \in Names /\ stated' = stated /\ Copying /\ left > 0
    BY <1>0, <1>2, <1>5 DEF PadWithZeros, Cur, given
  <2>2. data'[Cur].bytes = data[Cur].bytes /\ data'[Cur].zeros = left /\ left' = 0
    BY <1>5, <2>1 DEF PadWithZeros, Pad, TypeOK
  <2>3. data[Cur].bytes \in Nat /\ data[Cur].zeros = 0 /\ left \in Nat /\ stated \in Nat
    BY <2>1 DEF TypeOK, SizeInv, NoZerosYet
  <2>4. QED
    BY <2>1, <2>2, <2>3 DEF SizeInv, NoZerosYet, SizeAsStated
<1>6. CASE Copying /\ UNCHANGED <<at, data, left, stated>>
  BY <1>0, <1>6 DEF SizeInv, NoZerosYet, SizeAsStated, Cur, given
<1>7. QED
  BY <1>1, <1>3, <1>4, <1>5, <1>6

(* A copy has the size that stat saw, though the file is shortened or      *)
(* extended while it is copied, or cannot be read: what was copied, padded *)
(* and is still to come add up (copy_files_disk_to_disk).                  *)
THEOREM CopiesHaveStatedSize == Spec => []SizeAsStated
<1>1. Init => SizeInv
  BY DEF Init, SizeInv, NoZerosYet, SizeAsStated, Copying
<1>2. SizeInv => SizeAsStated
  BY DEF SizeInv
<1>3. QED
  BY <1>1, <1>2, SizeNext, TypeCorrect, NextTypeOK, PTL DEF Spec

-------------------------------------------------------------------------------
(* What is removed                                                         *)

(* Whatever was in the way of a file is gone when the file is made.        *)
WayIsClear == phase = "make" /\ KindOfCur # "dir" => dst[Cur] = "absent"

LEMMA WayNext == TypeOK /\ WayIsClear /\ [Next]_vars => WayIsClear'
<1> SUFFICES ASSUME TypeOK, WayIsClear, [Next]_vars, phase' = "make" PROVE WayIsClear'
  BY DEF WayIsClear
<1>0. UNCHANGED given
  BY TypeParts, GivenStays
<1>1. Begin \/ (phase = "make" /\ UNCHANGED <<at, dst>>)
  <2>1. CASE MakeDir
    BY <2>1 DEF MakeDir, GiveUp, NextName
  <2>2. CASE MakeNode
    BY <2>2 DEF MakeNode, GiveUp, NextName
  <2>3. CASE CannotCreate
    BY <2>3 DEF CannotCreate, GiveUp, NextName, Making
  <2>4. CASE CopyChunk \/ PadWithZeros
    BY <2>4 DEF CopyChunk, PadWithZeros, Copying
  <2>5. QED
    BY <2>1, <2>2, <2>3, <2>4 DEF Next, Step, EndOfNames, StatFails, NotCreated, CannotRemove,
       LinkToName, CannotOpenInput, OpenBoth, Copied, OtherWrites, vars, GiveUp, NextName
<1>2. CASE Begin
  <2>1. at' = at /\ Cur' = Cur /\ KindOfCur' = KindOfCur
    BY <1>0, <1>2 DEF Begin, Cur, KindOfCur, given
  <2>2. Cur \in Names
    BY <1>2, CurIsName, LenProperties DEF Begin, HasName, TypeOK
  <2>3. CASE InTheWay
    <3>1. dst'[Cur] = "absent"
      BY <1>2, <2>2, <2>3 DEF Begin, TypeOK
    <3>2. QED
      BY <2>1, <3>1 DEF WayIsClear
  <2>4. CASE ~InTheWay
    <3>1. dst' = dst /\ ~Protected
      BY <1>2, <2>4 DEF Begin
    <3>2. Exists => BothDirs
      BY <2>4, <3>1 DEF InTheWay
    <3>3. QED
      BY <2>1, <3>1, <3>2 DEF WayIsClear, Exists, BothDirs
  <2>5. QED
    BY <2>3, <2>4
<1>3. CASE phase = "make" /\ UNCHANGED <<at, dst>>
  BY <1>0, <1>3 DEF WayIsClear, Cur, KindOfCur, given
<1>4. QED
  BY <1>1, <1>2, <1>3

LEMMA CopyingKeeps == [Next]_vars /\ phase = "copy" => dst' = dst
BY DEF Next, Step, EndOfNames, StatFails, NotCreated, CannotRemove, Begin, HasName,
   LinkToName, CannotOpenInput, CannotCreate, OpenBoth, CopyChunk, PadWithZeros, Copied,
   MakeDir, MakeNode, Making, OtherWrites, vars

(* A step that changes an output, and one that takes an output away        *)
LEMMA WhatChanges ==
  ASSUME TypeOK, WayIsClear, [Next]_vars, NEW n \in Names, dst'[n] # dst[n]
  PROVE  \/ /\ Begin /\ InTheWay /\ n = Cur /\ dst'[n] = "absent"
         \/ dst[n] = "absent" \/ phase = "copy"
<1>0. at <= Len(list) => Cur \in Names
  BY CurIsName, LenProperties DEF TypeOK
<1>1. CASE Begin
  BY <1>0, <1>1 DEF Begin, HasName, TypeOK
<1>2. CASE LinkToName \/ MakeNode \/ OpenBoth
  <2>1. phase = "make" /\ KindOfCur # "dir"
    BY <1>2 DEF LinkToName, MakeNode, OpenBoth, Making
  <2>2. dst[Cur] = "absent"
    BY <2>1 DEF WayIsClear
  <2>3. n = Cur
    <3>1. CASE LinkToName
      BY <3>1 DEF LinkToName, TypeOK
    <3>2. CASE MakeNode
      BY <3>2 DEF MakeNode, TypeOK
    <3>3. CASE OpenBoth
      BY <3>3 DEF OpenBoth, TypeOK
    <3>4. QED
      BY <1>2, <3>1, <3>2, <3>3
  <2>4. QED
    BY <2>2, <2>3
<1>3. CASE MakeDir
  <2>1. dst' # dst
    OBVIOUS
  <2>2. dst' = [dst EXCEPT ![Cur] = "dir"] /\ ~Exists
    BY <1>3, <2>1 DEF MakeDir
  <2>3. n = Cur
    BY <2>2 DEF TypeOK
  <2>4. QED
    BY <2>2, <2>3 DEF Exists
<1>4. QED
  BY <1>1, <1>2, <1>3 DEF Next, Step, EndOfNames, StatFails, NotCreated, CannotRemove,
     CannotOpenInput, CannotCreate, CopyChunk, PadWithZeros, Copied, OtherWrites, vars

(* An old output that is not older than the file is left as it is, without *)
(* -u: no step of the program touches it, when it comes to its name or to  *)
(* that of another file (try_existing_file's part of process_copy_pass).   *)
THEOREM NewerOutputsStay == Spec => NewerKept
<1>1. ASSUME TypeOK, WayIsClear, [Next]_vars
      PROVE  \A n \in newer : dst[n] \in {"oldFile", "oldDir"} /\ ~unconditional => dst'[n] = dst[n]
  <2> SUFFICES ASSUME NEW n \in newer, dst[n] \in {"oldFile", "oldDir"}, ~unconditional,
                      dst'[n] # dst[n]
               PROVE  FALSE
    OBVIOUS
  <2>1. n \in Names
    BY <1>1 DEF TypeOK
  <2>2. phase # "copy"
    BY <1>1, CopyingKeeps
  <2>3. InTheWay /\ n = Cur
    BY <1>1, <2>1, <2>2, WhatChanges
  <2>4. Protected
    BY <2>3 DEF InTheWay, Protected
  <2>5. QED
    BY <2>3, <2>4 DEF InTheWay
<1>2. Init => WayIsClear
  BY DEF Init, WayIsClear
<1>3. QED
  BY <1>1, <1>2, WayNext, TypeCorrect, PTL DEF Spec, NewerKept

(* The output in the directory of the input is as new as the file.         *)
SameInv == same /\ ~unconditional => newer = Names /\ \A n \in Names : dst[n] # "absent"

(* No file of the input is lost, unless -u was given for an output that is *)
(* the directory of the input.                                             *)
THEOREM InputsAreKept == Spec => []SourcesKept
<1>1. Init => SameInv
  <2> SUFFICES ASSUME Init, same PROVE newer = Names /\ \A n \in Names : dst[n] # "absent"
    BY DEF SameInv
  <2>1. newer = Names
    BY DEF Init
  <2>2. \A n \in Names : dst[n] = Own(n)
    BY DEF Init
  <2>3. QED
    BY <2>1, <2>2 DEF Own
<1>2. ASSUME TypeOK, WayIsClear, SameInv, [Next]_vars PROVE SameInv'
  <2>0. UNCHANGED given
    BY <1>2, TypeParts, GivenStays
  <2> SUFFICES ASSUME same, ~unconditional, NEW n \in Names PROVE dst'[n] # "absent"
    BY <1>2, <2>0 DEF SameInv, given
  <2>1. newer = Names /\ dst[n] # "absent"
    BY <1>2 DEF SameInv
  <2>2. CASE dst'[n] = "absent"
    <3>1. phase = "copy" => dst' = dst
      BY <1>2, CopyingKeeps
    <3>2. InTheWay /\ n = Cur
      BY <1>2, <2>1, <2>2, <3>1, WhatChanges
    <3>3. Protected
      BY <2>1, <3>2 DEF InTheWay, Protected
    <3>4. QED
      BY <3>2, <3>3 DEF InTheWay
  <2>3. QED
    BY <2>2
<1>3. SameInv => SourcesKept
  BY DEF SameInv, SourcesKept, Gone
<1>4. Init => WayIsClear
  BY DEF Init, WayIsClear
<1>5. QED
  BY <1>1, <1>2, <1>3, <1>4, WayNext, TypeCorrect, PTL DEF Spec

(* With --link nothing is copied so long as the system refuses no link: a  *)
(* link that succeeds is never followed by a copy.                         *)
THEOREM LinksAreNotCopied == Spec => []LinkedNotCopied
<1>1. Init => LinkedNotCopied
  BY DEF Init, LinkedNotCopied
<1>2. ASSUME TypeOK, LinkedNotCopied, [Next]_vars PROVE LinkedNotCopied'
  <2>0. UNCHANGED given
    BY <1>2, TypeParts, GivenStays
  <2> SUFFICES ASSUME link, ~faults, ~same, NEW n \in Names, dst'[n] \in {"copy", "node"}
               PROVE  FALSE
    BY <1>2, <2>0 DEF LinkedNotCopied, given
  <2>1. dst[n] \notin {"copy", "node"}
    BY <1>2 DEF LinkedNotCopied
  <2>2. dst \in [Names -> States]
    BY <1>2 DEF TypeOK
  <2>3. ~Gone(Cur)
    BY DEF Gone
  <2>4. CASE OpenBoth
    BY <2>3, <2>4 DEF OpenBoth, MayCopy
  <2>5. CASE MakeNode
    <3>1. NoParent
      BY <2>3, <2>5 DEF MakeNode, MayCopy
    <3>2. dst' = dst
      BY <2>5, <3>1 DEF MakeNode
    <3>3. QED
      BY <2>1, <3>2
  <2>6. CASE Begin
    BY <2>1, <2>2, <2>6 DEF Begin
  <2>7. CASE LinkToName
    BY <2>1, <2>2, <2>7 DEF LinkToName
  <2>8. CASE MakeDir
    BY <2>1, <2>2, <2>8 DEF MakeDir
  <2>9. QED
    BY <1>2, <2>1, <2>4, <2>5, <2>6, <2>7, <2>8 DEF Next, Step, EndOfNames, StatFails,
       NotCreated, CannotRemove, CannotOpenInput, CannotCreate, CopyChunk, PadWithZeros,
       Copied, OtherWrites, vars
<1>3. QED
  BY <1>1, <1>2, TypeCorrect, PTL DEF Spec
-------------------------------------------------------------------------------
(* Names                                                                   *)

(* A name that the list had already has an output or a message, unless it  *)
(* is the name in hand, come again.                                        *)
HasOutput(n) == n \in failed \/ dst[n] # "absent"
InHand == phase \in {"make", "copy"}
AllSettled ==
  /\ \A k \in 1 .. at - 1 : HasOutput(list[k]) \/ (InHand /\ list[k] = Cur)
  /\ phase = "done" => at > Len(list)
  /\ phase = "copy" => dst[Cur] # "absent"

LEMMA SettledNext == TypeOK /\ WayIsClear /\ AllSettled /\ [Next]_vars => AllSettled'
<1> SUFFICES ASSUME TypeOK, WayIsClear, AllSettled, [Next]_vars PROVE AllSettled'
  OBVIOUS
<1>0. UNCHANGED given /\ list' = list
  BY TypeParts, GivenStays DEF given
<1>1. at \in Nat /\ Len(list) \in Nat /\ list \in Seq(Names) /\ at <= Len(list) + 1
      /\ (InHand => at <= Len(list))
  BY LenProperties DEF TypeOK, InHand
<1>2. at <= Len(list) => Cur \in Names
  BY CurIsName DEF TypeOK
<1>3. failed \subseteq failed'
  BY DEF Next, Step, EndOfNames, StatFails, NotCreated, CannotRemove, Begin, LinkToName,
         CannotOpenInput, CannotCreate, OpenBoth, CopyChunk, PadWithZeros, Copied, MakeDir,
         MakeNode, OtherWrites, vars, GiveUp
<1>4. ASSUME NEW n \in Names, ~Begin, dst[n] # "absent"
      PROVE  dst'[n] # "absent"
  BY <1>4, WhatChanges, CopyingKeeps
<1>5. ASSUME NEW k \in 1 .. at - 1 PROVE list[k] \in Names
  BY <1>1, <1>5, ElementOfSeq
<1>6. ASSUME NextName, ~Begin, at <= Len(list), Cur \in failed' \/ dst'[Cur] # "absent"
      PROVE  AllSettled'
  <2>1. at' = at + 1 /\ phase' = "list"
    BY <1>6 DEF NextName
  <2>2. ASSUME NEW k \in 1 .. at' - 1 PROVE list[k] \in failed' \/ dst'[list[k]] # "absent"
    <3>1. CASE list[k] = Cur
      BY <1>6, <3>1
    <3>2. CASE list[k] # Cur
      <4>1. k \in 1 .. at - 1
        BY <1>1, <2>1, <3>2 DEF Cur
      <4>2. HasOutput(list[k])
        BY <3>2, <4>1 DEF AllSettled
      <4>3. QED
        BY <1>3, <1>4, <1>5, <1>6, <4>1, <4>2 DEF HasOutput
    <3>3. QED
      BY <3>1, <3>2
  <2>3. QED
    BY <1>0, <2>1, <2>2 DEF AllSettled, HasOutput
<1>7. ASSUME GiveUp, ~Begin, at <= Len(list) PROVE AllSettled'
  BY <1>6, <1>7 DEF GiveUp
<1>8. CASE Begin
  <2>1. at' = at /\ phase = "list" /\ phase' = "make" /\ failed' = failed /\ Cur' = Cur
        /\ Cur \in Names
    BY <1>0, <1>2, <1>8 DEF Begin, HasName, Cur
  <2>2. ASSUME NEW k \in 1 .. at' - 1, list[k] # Cur
        PROVE  list[k] \in failed' \/ dst'[list[k]] # "absent"
    <3>1. HasOutput(list[k]) /\ list[k] \in Names
      BY <1>5, <2>1, <2>2 DEF AllSettled, InHand
    <3>2. dst'[list[k]] = dst[list[k]]
      BY <1>8, <2>1, <2>2, <3>1 DEF Begin, TypeOK
    <3>3. QED
      BY <2>1, <3>1, <3>2 DEF HasOutput
  <2>3. QED
    BY <1>0, <2>1, <2>2 DEF AllSettled, HasOutput, InHand
<1>9. ASSUME at' = at, InHand, InHand', ~Begin, phase' = "copy" => dst'[Cur] # "absent"
      PROVE  AllSettled'
  <2>1. Cur' = Cur
    BY <1>0, <1>9 DEF Cur
  <2>2. ASSUME NEW k \in 1 .. at' - 1, list[k] # Cur
        PROVE  list[k] \in failed' \/ dst'[list[k]] # "absent"
    BY <1>3, <1>4, <1>5, <1>9, <2>2 DEF AllSettled, HasOutput
  <2>3. QED
    BY <1>0, <1>9, <2>1, <2>2 DEF AllSettled, HasOutput, InHand
<1>10. CASE StatFails \/ NotCreated \/ CannotRemove
  <2>1. GiveUp /\ ~Begin /\ at <= Len(list)
    BY <1>10 DEF StatFails, NotCreated, CannotRemove, HasName, Begin, GiveUp, NextName
  <2>2. QED
    BY <1>7, <2>1
<1>11. CASE CannotOpenInput
  BY <1>1, <1>7, <1>11 DEF CannotOpenInput, Making, InHand, Begin, HasName
<1>12. CASE CannotCreate
  <2>1. InHand /\ ~Begin /\ at <= Len(list)
    BY <1>1, <1>12 DEF CannotCreate, Making, InHand, Begin, HasName
  <2>2. GiveUp \/ (UNCHANGED <<phase, at, dst>> /\ phase = "make")
    BY <1>12 DEF CannotCreate, Making
  <2>3. InHand' \/ GiveUp
    BY <2>1, <2>2 DEF InHand
  <2>4. QED
    BY <1>7, <1>9, <2>1, <2>2, <2>3
<1>13. CASE LinkToName \/ MakeDir \/ MakeNode
  <2>1. InHand /\ ~Begin /\ at <= Len(list) /\ Cur \in Names
    BY <1>1, <1>2, <1>13 DEF LinkToName, MakeDir, MakeNode, Making, InHand, Begin, HasName
  <2>2. GiveUp \/ (NextName /\ dst'[Cur] # "absent")
    <3>1. CASE LinkToName
      BY <2>1, <3>1 DEF LinkToName, TypeOK
    <3>2. CASE MakeDir
      BY <2>1, <3>2 DEF MakeDir, TypeOK, Exists
    <3>3. CASE MakeNode
      BY <2>1, <3>3 DEF MakeNode, TypeOK
    <3>4. QED
      BY <1>13, <3>1, <3>2, <3>3
  <2>3. QED
    BY <1>6, <1>7, <2>1, <2>2
<1>14. CASE Copied
  <2>1. NextName /\ ~Begin /\ phase = "copy" /\ dst' = dst /\ at <= Len(list)
    BY <1>1, <1>14 DEF Copied, Copying, Begin, HasName, InHand
  <2>2. dst'[Cur] # "absent"
    BY <2>1 DEF AllSettled
  <2>3. QED
    BY <1>6, <2>1, <2>2
<1>15. CASE OpenBoth
  <2>1. InHand /\ InHand' /\ ~Begin /\ at' = at /\ Cur \in Names
    BY <1>1, <1>2, <1>15 DEF OpenBoth, Making, InHand, Begin, HasName
  <2>2. dst'[Cur] # "absent"
    BY <1>15, <2>1 DEF OpenBoth, TypeOK
  <2>3. QED
    BY <1>9, <2>1, <2>2
<1>16. CASE CopyChunk \/ PadWithZeros \/ OtherWrites
  <2>1. InHand /\ InHand' /\ ~Begin /\ at' = at /\ dst' = dst /\ phase' = phase
    BY <1>16 DEF CopyChunk, PadWithZeros, OtherWrites, Copying, InHand, Begin, HasName
  <2>2. QED
    BY <1>9, <2>1 DEF AllSettled
<1>17. CASE EndOfNames
  <2>1. at' = at /\ dst' = dst /\ failed' = failed /\ phase = "list" /\ phase' = "done"
        /\ at > Len(list)
    BY <1>17 DEF EndOfNames
  <2>2. QED
    BY <1>0, <2>1 DEF AllSettled, HasOutput, InHand
<1>18. CASE UNCHANGED vars
  BY <1>0, <1>18 DEF AllSettled, HasOutput, InHand, Cur, vars
<1>19. QED
  BY <1>8, <1>10, <1>11, <1>12, <1>13, <1>14, <1>15, <1>16, <1>17, <1>18 DEF Next, Step

(* A program that ends has made or given up, with a message, each name of  *)
(* its list, though a name may come twice and its first output be removed. *)
THEOREM EveryNameSettled == Spec => []NoNameForgotten
<1>1. Init => AllSettled
  BY DEF Init, AllSettled
<1>2. ASSUME TypeOK, AllSettled PROVE NoNameForgotten
  <2> SUFFICES ASSUME phase = "done", NEW k \in 1 .. Len(list)
               PROVE  list[k] \in failed \/ dst[list[k]] # "absent"
    BY DEF NoNameForgotten
  <2>1. Len(list) \in Nat /\ at \in Nat
    BY <1>2, LenProperties DEF TypeOK
  <2>2. k \in 1 .. at - 1
    BY <1>2, <2>1 DEF AllSettled
  <2>3. QED
    BY <1>2, <2>2 DEF AllSettled, HasOutput, InHand
<1>3. Init => WayIsClear
  BY DEF Init, WayIsClear
<1>4. QED
  BY <1>1, <1>2, <1>3, SettledNext, WayNext, TypeCorrect, PTL DEF Spec
===============================================================================
