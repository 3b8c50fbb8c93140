--------------------------- MODULE DiskOutputProofs ---------------------------
(***************************************************************************)
(* The files that DiskOutput writes have the bytes, the order of bytes and *)
(* the length that they should have, for every size of the block, every    *)
(* number of files and every content.                                      *)
(***************************************************************************)
EXTENDS DiskOutput, SequenceTheorems, TLAPS

(* While a file is written swapping is on as the options ask for a file of *)
(* its size, the buffer begins at a word of the file, and what was handed  *)
(* over and what the call has left are of the file.  Between two files     *)
(* nothing is left anywhere.                                               *)
SwapAsAsked == /\ halfwords <=> (swapHalfwords /\ size % 4 = 0)
               /\ bytes <=> (swapBytes /\ size % 2 = 0)

Bookkeeping ==
  Running =>
    /\ ~sparse => delayed = 0
    /\ phase = "copy" => /\ SwapAsAsked
                         /\ (pos + delayed) % 4 = 0
                         /\ copied + left <= size
    /\ phase = "closed" => /\ left = 0 /\ delayed = 0 /\ outputSize = 0
                           /\ copied = size

IInv == TypeOK /\ DiskIsPrefix /\ Bookkeeping

-------------------------------------------------------------------------------
(* A swap stays within the words that are swapped, and does not depend on  *)
(* where in the file the words begin.                                      *)
LEMMA HalfStays ==
  ASSUME NEW n \in Nat, n % 4 = 0, NEW i \in 0 .. n - 1
  PROVE  OtherHalf(i) \in 0 .. n - 1
BY DEF OtherHalf

LEMMA ByteStays ==
  ASSUME NEW n \in Nat, n % 2 = 0, NEW i \in 0 .. n - 1
  PROVE  OtherByte(i) \in 0 .. n - 1
BY DEF OtherByte

LEMMA HalfMoves ==
  ASSUME NEW p \in Nat, p % 4 = 0, NEW i \in Nat
  PROVE  OtherHalf(p + i) = p + OtherHalf(i)
BY DEF OtherHalf

LEMMA ByteMoves ==
  ASSUME NEW p \in Nat, p % 4 = 0, NEW i \in Nat
  PROVE  OtherByte(p + i) = p + OtherByte(i)
BY DEF OtherByte

(* Swapping a buffer that begins at a word of the file, and is full or     *)
(* ends the file, gives the bytes that are wanted there.                   *)
LEMMA SwappedIsWanted ==
  ASSUME IInv, Running, phase = "copy",
         outputSize = Block \/ copied = size,
         NEW i \in 0 .. outputSize - 1
  PROVE  /\ Swapped[i] = Wanted(pos + delayed + i)
         /\ Swapped[i] \in Nat
<1> DEFINE p == pos + delayed
           n == outputSize
<1>1. /\ p \in Nat /\ p % 4 = 0
      /\ n \in 0 .. Block /\ i \in Cells /\ i \in Nat
      /\ size \in Nat /\ Block \in Nat /\ Block % 4 = 0
      /\ p + n = copied
      /\ SwapAsAsked
  BY DiskOutputAssumption DEF IInv, TypeOK, Bookkeeping, DiskIsPrefix, Cells
<1>2. \A j \in 0 .. n - 1 : buffer[j] = Byte(p + j) /\ buffer[j] \in Nat
  BY <1>1 DEF IInv, TypeOK, DiskIsPrefix, Cells
<1>3. halfwords => n % 4 = 0 /\ 4 * (n \div 4) = n /\ n % 2 = 0
  BY <1>1 DEF SwapAsAsked
<1>4. bytes => n % 2 = 0 /\ 2 * (n \div 2) = n
  BY <1>1 DEF SwapAsAsked
<1>5. Swapped[i] = buffer[From(i)]
  BY <1>1 DEF Swapped
<1>6. CASE halfwords /\ bytes
  <2>1. From(i) = OtherHalf(OtherByte(i))
    BY <1>1, <1>3, <1>6 DEF From
  <2>2. OtherByte(i) \in 0 .. n - 1 /\ From(i) \in 0 .. n - 1
    <3>1. OtherByte(i) \in 0 .. n - 1
      BY <1>1, <1>3, <1>6, ByteStays
    <3>2. PICK j \in 0 .. n - 1 : j = OtherByte(i)
      BY <3>1
    <3>3. OtherHalf(j) \in 0 .. n - 1
      BY <1>1, <1>3, <1>6, HalfStays
    <3> QED BY <3>1, <3>2, <3>3, <2>1
  <2>3. Wanted(p + i) = Byte(OtherHalf(OtherByte(p + i)))
    BY <1>1, <1>6 DEF Wanted, SwapAsAsked
  <2>4. OtherHalf(OtherByte(p + i)) = p + From(i)
    BY <2>1, <2>2, <1>1, ByteMoves, HalfMoves
  <2> QED BY <2>2, <2>3, <2>4, <1>2, <1>5
<1>7. CASE halfwords /\ ~bytes
  <2>1. From(i) = OtherHalf(i)
    BY <1>1, <1>3, <1>7 DEF From
  <2>2. From(i) \in 0 .. n - 1
    BY <2>1, <1>1, <1>3, <1>7, HalfStays
  <2>3. Wanted(p + i) = Byte(OtherHalf(p + i))
    BY <1>1, <1>7 DEF Wanted, SwapAsAsked
  <2>4. OtherHalf(p + i) = p + From(i)
    BY <2>1, <1>1, HalfMoves
  <2> QED BY <2>2, <2>3, <2>4, <1>2, <1>5
<1>8. CASE ~halfwords /\ bytes
  <2>1. From(i) = OtherByte(i)
    BY <1>1, <1>4, <1>8 DEF From
  <2>2. From(i) \in 0 .. n - 1
    BY <2>1, <1>1, <1>4, <1>8, ByteStays
  <2>3. Wanted(p + i) = Byte(OtherByte(p + i))
    BY <1>1, <1>8 DEF Wanted, SwapAsAsked
  <2>4. OtherByte(p + i) = p + From(i)
    BY <2>1, <1>1, ByteMoves
  <2> QED BY <2>2, <2>3, <2>4, <1>2, <1>5
<1>9. CASE ~halfwords /\ ~bytes
  <2>1. From(i) = i
    BY <1>9 DEF From
  <2>2. Wanted(p + i) = Byte(p + i)
    BY <1>1, <1>9 DEF Wanted, SwapAsAsked
  <2> QED BY <2>1, <2>2, <1>1, <1>2, <1>5
<1> QED BY <1>6, <1>7, <1>8, <1>9

(* Appending to a sequence leaves what was in it.                          *)
LEMMA Appending ==
  ASSUME NEW S, NEW s \in Seq(S), NEW t \in Seq(S)
  PROVE  /\ s \o t \in Seq(S)
         /\ Len(s \o t) = Len(s) + Len(t)
         /\ \A k \in 1 .. Len(s) : (s \o t)[k] = s[k]
         /\ \A k \in 1 .. Len(t) : (s \o t)[Len(s) + k] = t[k]
<1>1. /\ s \o t \in Seq(S)
      /\ Len(s \o t) = Len(s) + Len(t)
      /\ \A i \in 1 .. Len(s) + Len(t) :
            (s \o t)[i] = IF i <= Len(s) THEN s[i] ELSE t[i - Len(s)]
  BY ConcatProperties
<1>2. \A k \in 1 .. Len(t) : (s \o t)[Len(s) + k] = t[k]
  <2> SUFFICES ASSUME NEW k \in 1 .. Len(t) PROVE (s \o t)[Len(s) + k] = t[k]
    OBVIOUS
  <2>1. /\ Len(s) + k \in 1 .. Len(s) + Len(t)
        /\ ~(Len(s) + k <= Len(s))
        /\ (Len(s) + k) - Len(s) = k
    OBVIOUS
  <2>2. QED
    BY <1>1, <2>1
<1>3. QED
  BY <1>1, <1>2

(* What write(2) behind the end of the file makes of it                    *)
LEMMA WriteAtLemma ==
  ASSUME disk \in Seq(Nat), NEW p \in Nat, p >= Len(disk),
         NEW data \in Seq(Nat)
  PROVE  /\ WriteAt(p, data) \in Seq(Nat)
         /\ Len(WriteAt(p, data)) = p + Len(data)
         /\ \A k \in 1 .. Len(disk) : WriteAt(p, data)[k] = disk[k]
         /\ \A k \in Len(disk) + 1 .. p : WriteAt(p, data)[k] = 0
         /\ \A k \in 1 .. Len(data) : WriteAt(p, data)[p + k] = data[k]
<1>1. /\ Hole(p) \in Seq(Nat)
      /\ Len(Hole(p)) = p - Len(disk)
      /\ \A k \in 1 .. p - Len(disk) : Hole(p)[k] = 0
  BY DEF Hole
<1>2. /\ disk \o Hole(p) \in Seq(Nat)
      /\ Len(disk \o Hole(p)) = p
      /\ \A k \in 1 .. Len(disk) : (disk \o Hole(p))[k] = disk[k]
      /\ \A k \in Len(disk) + 1 .. p : (disk \o Hole(p))[k] = 0
  <2>1. PICK h \in Seq(Nat) : h = Hole(p)
    BY <1>1
  <2>2. /\ disk \o h \in Seq(Nat)
        /\ Len(disk \o h) = Len(disk) + Len(h)
        /\ \A k \in 1 .. Len(disk) : (disk \o h)[k] = disk[k]
        /\ \A k \in 1 .. Len(h) : (disk \o h)[Len(disk) + k] = h[k]
    BY Appending
  <2>3. Len(h) = p - Len(disk) /\ \A k \in 1 .. Len(h) : h[k] = 0
    BY <1>1, <2>1
  <2>4. Len(disk) + Len(h) = p
    BY <2>3
  <2>5. ASSUME NEW k \in Len(disk) + 1 .. p PROVE (disk \o h)[k] = 0
    <3>1. k - Len(disk) \in 1 .. Len(h) /\ Len(disk) + (k - Len(disk)) = k
      BY <2>3
    <3> QED BY <2>2, <2>3, <3>1
  <2> QED BY <2>1, <2>2, <2>4, <2>5
<1>3. PICK d \in Seq(Nat) : d = disk \o Hole(p)
  BY <1>2
<1>4. WriteAt(p, data) = d \o data
  BY <1>3 DEF WriteAt
<1>5. Len(d) = p
  BY <1>2, <1>3
<1>6. d \o data \in Seq(Nat) /\ Len(d \o data) = p + Len(data)
  <2>1. d \o data \in Seq(Nat) /\ Len(d \o data) = Len(d) + Len(data)
    OBVIOUS
  <2> QED BY <2>1, <1>5
<1>7. \A k \in 1 .. p : (d \o data)[k] = d[k]
  BY <1>5
<1>8. ASSUME NEW k \in 1 .. Len(data)
      PROVE  (d \o data)[p + k] = data[k]
  <2>1. p + k \in 1 .. Len(d) + Len(data) /\ ~(p + k <= Len(d))
    BY <1>5
  <2>2. (d \o data)[p + k] = data[(p + k) - Len(d)]
    BY <2>1, SMT
  <2> QED BY <2>2, <1>5
<1>9. \A k \in 1 .. Len(disk) : (d \o data)[k] = disk[k]
  BY <1>2, <1>3, <1>5, <1>7
<1>10. \A k \in Len(disk) + 1 .. p : (d \o data)[k] = 0
  BY <1>2, <1>3, <1>5, <1>7
<1> QED BY <1>4, <1>6, <1>8, <1>9, <1>10

-------------------------------------------------------------------------------
(* What is true of the file as it is on the disk, before and after the     *)
(* buffer is emptied                                                       *)
Placement(d, p, hole) ==
  /\ d \in Seq(Nat) /\ p \in Nat /\ hole \in Nat
  /\ p = Len(d)
  /\ \A k \in 1 .. p : d[k] = Wanted(k - 1)
  /\ \A k \in p .. p + hole - 1 : Wanted(k) = 0

LEMMA PlacementHolds ==
  ASSUME IInv, Running
  PROVE  Placement(disk, pos, delayed) /\ pos + delayed + outputSize = copied
BY DEF IInv, TypeOK, DiskIsPrefix, Placement

LEMMA ChunkIsWanted ==
  ASSUME IInv, Running, phase = "copy", outputSize = Block \/ copied = size
  PROVE  /\ Chunk(outputSize) \in Seq(Nat)
         /\ Len(Chunk(outputSize)) = outputSize
         /\ \A k \in 1 .. outputSize :
              Chunk(outputSize)[k] = Wanted(pos + delayed + (k - 1))
<1>1. outputSize \in Nat
  BY DiskOutputAssumption DEF IInv, TypeOK
<1>2. \A k \in 1 .. outputSize : /\ k - 1 \in 0 .. outputSize - 1
                                 /\ Swapped[k - 1] \in Nat
                                 /\ Swapped[k - 1] = Wanted(pos + delayed + (k - 1))
  BY <1>1, SwappedIsWanted
<1> QED BY <1>1, <1>2 DEF Chunk

(* The buffer is written behind the hole that was put off.                 *)
LEMMA WritesBuffer ==
  ASSUME IInv, Running, phase = "copy", outputSize = Block \/ copied = size,
         disk' = WriteAt(pos + delayed, Chunk(outputSize)),
         pos' = pos + (delayed + outputSize)
  PROVE  Placement(disk', pos', 0) /\ pos' = copied
<1>1. Placement(disk, pos, delayed) /\ pos + delayed + outputSize = copied
  BY PlacementHolds
<1>2. outputSize \in Nat
  BY DiskOutputAssumption DEF IInv, TypeOK
<1>3. /\ pos + delayed \in Nat /\ pos + delayed >= Len(disk)
      /\ Len(disk) = pos /\ disk \in Seq(Nat) /\ pos \in Nat /\ delayed \in Nat
  BY <1>1 DEF Placement
<1>4. /\ disk' \in Seq(Nat)
      /\ Len(disk') = pos + delayed + outputSize
      /\ \A k \in 1 .. pos : disk'[k] = disk[k]
      /\ \A k \in pos + 1 .. pos + delayed : disk'[k] = 0
      /\ \A k \in 1 .. outputSize : disk'[pos + delayed + k] = Chunk(outputSize)[k]
  <2>1. PICK data \in Seq(Nat) : data = Chunk(outputSize) /\ Len(data) = outputSize
    BY ChunkIsWanted
  <2>2. /\ WriteAt(pos + delayed, data) \in Seq(Nat)
        /\ Len(WriteAt(pos + delayed, data)) = pos + delayed + Len(data)
        /\ \A k \in 1 .. Len(disk) : WriteAt(pos + delayed, data)[k] = disk[k]
        /\ \A k \in Len(disk) + 1 .. pos + delayed : WriteAt(pos + delayed, data)[k] = 0
        /\ \A k \in 1 .. Len(data) : WriteAt(pos + delayed, data)[pos + delayed + k] = data[k]
    BY <1>3, WriteAtLemma
  <2>3. disk' = WriteAt(pos + delayed, data)
    BY <2>1
  <2> QED BY <2>1, <2>2, <2>3, <1>3
<1>5. pos' \in Nat /\ pos' = Len(disk') /\ pos' = copied
  BY <1>1, <1>2, <1>3, <1>4
<1>6. ASSUME NEW k \in 1 .. pos'
      PROVE  disk'[k] = Wanted(k - 1)
  <2>1. CASE k <= pos
    BY <2>1, <1>1, <1>3, <1>4 DEF Placement
  <2>2. CASE pos < k /\ k <= pos + delayed
    <3>1. k - 1 \in pos .. pos + delayed - 1 /\ k \in pos + 1 .. pos + delayed
      BY <2>2, <1>3
    <3> QED BY <3>1, <1>1, <1>4 DEF Placement
  <2>3. CASE pos + delayed < k
    <3>1. PICK j \in 1 .. outputSize : k = pos + delayed + j
      <4>1. k - (pos + delayed) \in 1 .. outputSize
        BY <2>3, <1>2, <1>3
      <4>2. k = pos + delayed + (k - (pos + delayed))
        BY <1>3
      <4> QED BY <4>1, <4>2
    <3>2. disk'[k] = Chunk(outputSize)[j]
      BY <3>1, <1>4
    <3>3. Chunk(outputSize)[j] = Wanted(pos + delayed + (j - 1))
      BY ChunkIsWanted
    <3>4. pos + delayed + (j - 1) = k - 1
      BY <3>1, <1>3
    <3> QED BY <3>2, <3>3, <3>4
  <2> QED BY <2>1, <2>2, <2>3, <1>3
<1>7. 0 \in Nat /\ \A k \in pos' .. pos' + 0 - 1 : Wanted(k) = 0
  BY <1>5
<1> QED BY <1>4, <1>5, <1>6, <1>7 DEF Placement

(* A hole at the end of the file is ended by a zero byte.                  *)
LEMMA EndsHole ==
  ASSUME IInv, Running, NEW n \in Nat \ {0},
         \A k \in pos .. pos + n - 1 : Wanted(k) = 0,
         disk' = WriteAt(pos + n - 1, << 0 >>),
         pos' = pos + n
  PROVE  Placement(disk', pos', 0)
<1>1. Placement(disk, pos, delayed)
  BY PlacementHolds
<1>2. /\ pos + n - 1 \in Nat /\ pos + n - 1 >= Len(disk)
      /\ Len(disk) = pos /\ disk \in Seq(Nat) /\ pos \in Nat
  BY <1>1 DEF Placement
<1>3. << 0 >> \in Seq(Nat) /\ Len(<< 0 >>) = 1 /\ << 0 >>[1] = 0
  OBVIOUS
<1>4. /\ disk' \in Seq(Nat)
      /\ Len(disk') = pos + n - 1 + 1
      /\ \A k \in 1 .. pos : disk'[k] = disk[k]
      /\ \A k \in pos + 1 .. pos + n - 1 : disk'[k] = 0
      /\ disk'[pos + n - 1 + 1] = 0
  <2>1. PICK data \in Seq(Nat) : data = << 0 >>
    BY <1>3
  <2>2. /\ WriteAt(pos + n - 1, data) \in Seq(Nat)
        /\ Len(WriteAt(pos + n - 1, data)) = pos + n - 1 + Len(data)
        /\ \A k \in 1 .. Len(disk) : WriteAt(pos + n - 1, data)[k] = disk[k]
        /\ \A k \in Len(disk) + 1 .. pos + n - 1 : WriteAt(pos + n - 1, data)[k] = 0
        /\ \A k \in 1 .. Len(data) : WriteAt(pos + n - 1, data)[pos + n - 1 + k] = data[k]
    BY <1>2, WriteAtLemma
  <2>3. 1 \in 1 .. Len(data) /\ data[1] = 0 /\ Len(data) = 1
    BY <2>1, <1>3
  <2>4. disk' = WriteAt(pos + n - 1, data)
    BY <2>1
  <2> QED BY <2>2, <2>3, <2>4, <1>2
<1>5. pos' \in Nat /\ pos' = Len(disk')
  BY <1>2, <1>4
<1>6. ASSUME NEW k \in 1 .. pos'
      PROVE  disk'[k] = Wanted(k - 1)
  <2>1. CASE k <= pos
    BY <2>1, <1>1, <1>2, <1>4 DEF Placement
  <2>2. CASE pos < k
    <3>1. k - 1 \in pos .. pos + n - 1
      BY <2>2, <1>2
    <3>2. k \in pos + 1 .. pos + n - 1 \/ k = pos + n - 1 + 1
      BY <2>2, <1>2
    <3> QED BY <3>1, <3>2, <1>4
  <2> QED BY <2>1, <2>2, <1>2
<1>7. 0 \in Nat /\ \A k \in pos' .. pos' + 0 - 1 : Wanted(k) = 0
  BY <1>5
<1> QED BY <1>4, <1>5, <1>6, <1>7 DEF Placement

(* One emptying of the buffer, sparse or not                               *)
LEMMA EmptyingKeeps ==
  ASSUME IInv, Running, phase = "copy",
         NEW flush \in BOOLEAN,
         outputSize = Block \/ (flush /\ copied = size),
         Written(flush)
  PROVE  /\ Placement(disk', pos', delayed')
         /\ pos' + delayed' = copied
         /\ flush \/ ~sparse => delayed' = 0
<1> USE DiskOutputAssumption
<1>1. Placement(disk, pos, delayed) /\ pos + delayed + outputSize = copied
  BY PlacementHolds
<1>2. /\ outputSize \in Nat /\ pos \in Nat /\ delayed \in Nat /\ copied \in Nat
      /\ Block \in Nat \ {0}
      /\ Len(disk) = pos
  BY <1>1 DEF IInv, TypeOK, Placement
<1>3. CASE ~sparse
  <2>1. delayed = 0
    BY <1>3 DEF IInv, Bookkeeping
  <2>2. /\ disk' = WriteAt(pos + delayed, Chunk(outputSize))
        /\ pos' = pos + (delayed + outputSize)
        /\ delayed' = 0
    BY <1>3, <2>1, <1>2 DEF Written, PlainWrite
  <2>3. Placement(disk', pos', 0) /\ pos' = copied
    BY <2>2, WritesBuffer
  <2> QED BY <2>2, <2>3, <1>2
<1>4. CASE sparse
  <2>1. SparseWrite(flush)
    BY <1>4 DEF Written
  <2>2. AllZeros => \A k \in pos .. pos + (delayed + outputSize) - 1 : Wanted(k) = 0
    <3>1. SUFFICES ASSUME AllZeros, NEW k \in pos .. pos + (delayed + outputSize) - 1
                   PROVE  Wanted(k) = 0
      OBVIOUS
    <3>2. CASE k \in pos .. pos + delayed - 1
      BY <3>2, <1>1 DEF Placement
    <3>3. CASE k \notin pos .. pos + delayed - 1
      <4>1. PICK i \in 0 .. outputSize - 1 : k = pos + delayed + i
        <5>1. k - (pos + delayed) \in 0 .. outputSize - 1
          BY <3>3, <1>2
        <5>2. k = pos + delayed + (k - (pos + delayed))
          BY <1>2
        <5> QED BY <5>1, <5>2
      <4>2. i \in Cells /\ Swapped[i] = 0
        BY <3>1, <1>2 DEF AllZeros, Cells
      <4> QED BY <4>1, <4>2, SwappedIsWanted
    <3> QED BY <3>2, <3>3
  <2>3. CASE AllZeros /\ ~flush /\ delayed' = delayed + outputSize /\ UNCHANGED <<disk, pos>>
    <3>1. delayed + outputSize \in Nat /\ pos + (delayed + outputSize) = copied
      BY <1>1, <1>2
    <3>2. Placement(disk, pos, delayed + outputSize)
      BY <2>2, <2>3, <1>1, <3>1 DEF Placement
    <3> QED BY <2>3, <3>1, <3>2, <1>4
  <2>4. CASE /\ AllZeros /\ flush /\ delayed' = 0
             /\ disk' = WriteAt(pos + (delayed + outputSize) - 1, << 0 >>)
             /\ pos' = pos + (delayed + outputSize)
    <3>1. delayed + outputSize \in Nat \ {0} /\ pos + (delayed + outputSize) = copied
      BY <2>4, <1>1, <1>2 DEF AllZeros
    <3>2. Placement(disk', pos', 0)
      BY <2>2, <2>4, <3>1, EndsHole
    <3> QED BY <2>4, <3>1, <3>2, <1>2
  <2>5. CASE /\ disk' = WriteAt(pos + delayed, Chunk(outputSize))
             /\ pos' = pos + (delayed + outputSize)
             /\ delayed' = 0
    <3>1. Placement(disk', pos', 0) /\ pos' = copied
      BY <2>5, WritesBuffer
    <3> QED BY <2>5, <3>1, <1>2
  <2>6. CASE /\ outputSize = 0 /\ flush /\ delayed # 0 /\ delayed' = 0
             /\ disk' = WriteAt(pos + delayed - 1, << 0 >>)
             /\ pos' = pos + delayed
    <3>1. delayed \in Nat \ {0} /\ pos + delayed = copied
      BY <2>6, <1>1, <1>2
    <3>2. \A k \in pos .. pos + delayed - 1 : Wanted(k) = 0
      BY <1>1 DEF Placement
    <3>3. Placement(disk', pos', 0)
      BY <2>6, <3>1, <3>2, EndsHole
    <3> QED BY <2>6, <3>1, <3>3, <1>2
  <2>7. CASE outputSize = 0 /\ ~(flush /\ delayed # 0) /\ UNCHANGED <<disk, pos, delayed>>
    <3>1. flush /\ delayed = 0
      BY <2>7, <1>2
    <3> QED BY <2>7, <3>1, <1>1, <1>2, <1>4
  <2> QED BY <2>1, <2>3, <2>4, <2>5, <2>6, <2>7 DEF SparseWrite
<1> QED BY <1>3, <1>4

-------------------------------------------------------------------------------
(* The steps keep the types of the variables.                              *)
BooleansTyped ==
  /\ {sparse, toStdout, seekable} \subseteq BOOLEAN
  /\ {swapHalfwords, swapBytes} \subseteq BOOLEAN
  /\ {halfwords, bytes, fdOpen} \subseteq BOOLEAN

OthersTyped ==
  /\ size \in Nat
  /\ zeros \subseteq Nat
  /\ disk \in Seq(Nat)
  /\ pos \in Nat
  /\ buffer \in [Cells -> Nat]
  /\ outputSize \in 0 .. Block
  /\ delayed \in Nat
  /\ copied \in 0 .. size
  /\ left \in 0 .. size
  /\ files \in Nat
  /\ phase \in {"closed", "copy"}
  /\ status \in {"running", "exit", "panic"}

LEMMA TypedInParts == TypeOK <=> BooleansTyped /\ OthersTyped
BY Zenon DEF TypeOK, BooleansTyped, OthersTyped

LEMMA FromStays ==
  ASSUME TypeOK, NEW i \in Cells
  PROVE  From(i) \in Cells
<1>1. Block \in Nat /\ outputSize \in 0 .. Block /\ i \in 0 .. Block - 1
  BY DiskOutputAssumption DEF TypeOK, Cells
<1>2. PICK m \in Nat : m = 4 * (outputSize \div 4) /\ m % 4 = 0 /\ m % 2 = 0 /\ m <= Block
  BY <1>1
<1>3. PICK h \in Nat : h = 2 * (outputSize \div 2) /\ h % 2 = 0 /\ h <= Block
  BY <1>1
<1>4. CASE halfwords /\ i < m
  <2>1. OtherByte(i) \in 0 .. m - 1 /\ i \in 0 .. m - 1
    BY <1>1, <1>2, <1>4, ByteStays
  <2>2. OtherHalf(IF bytes THEN OtherByte(i) ELSE i) \in 0 .. m - 1
    BY <2>1, <1>2, HalfStays
  <2> QED BY <2>2, <1>1, <1>2, <1>4 DEF From, Cells
<1>5. CASE ~halfwords /\ bytes /\ i < h
  <2>1. OtherByte(i) \in 0 .. h - 1
    BY <1>1, <1>3, <1>5, ByteStays
  <2> QED BY <2>1, <1>1, <1>3, <1>5 DEF From, Cells
<1>6. CASE ~(halfwords /\ i < m) /\ ~(~halfwords /\ bytes /\ i < h)
  BY <1>2, <1>3, <1>6 DEF From
<1> QED BY <1>4, <1>5, <1>6

LEMMA SwappedTyped ==
  ASSUME TypeOK
  PROVE  /\ Swapped \in [Cells -> Nat]
         /\ \A n \in 0 .. Block : Chunk(n) \in Seq(Nat)
<1>1. \A i \in Cells : buffer[From(i)] \in Nat
  BY FromStays DEF TypeOK
<1>2. Swapped \in [Cells -> Nat]
  BY <1>1 DEF Swapped
<1>3. \A n \in 0 .. Block : \A k \in 1 .. n : k - 1 \in Cells
  BY DiskOutputAssumption DEF Cells
<1> QED BY <1>2, <1>3 DEF Chunk

(* A write that fails ends the program; what it left on the disk has a     *)
(* place behind what was there.                                            *)
LEMMA FailureKeeps ==
  ASSUME IInv, Running, WriteFails
  PROVE  IInv'
<1> USE DiskOutputAssumption
<1>1. /\ status' \in {"exit", "panic"} /\ buffer' = Swapped
      /\ UNCHANGED <<options, source, outputSize, delayed, copied, left, phase>>
  BY DEF WriteFails
<1>2. ~Running'
  BY <1>1 DEF Running
<1>3. disk' \in Seq(Nat) /\ pos' \in Nat
  <2>1. CASE UNCHANGED <<disk, pos>>
    BY <2>1 DEF IInv, TypeOK
  <2>2. ASSUME NEW n \in 1 .. outputSize - 1,
               disk' = WriteAt(pos + delayed, Chunk(n)),
               pos' = pos + delayed + n
        PROVE  disk' \in Seq(Nat) /\ pos' \in Nat
    <3>1. Placement(disk, pos, delayed)
      BY PlacementHolds
    <3>2. n \in 0 .. Block /\ outputSize \in Nat
      BY DEF IInv, TypeOK
    <3>3. PICK data \in Seq(Nat) : data = Chunk(n)
      BY <3>2, SwappedTyped DEF IInv
    <3>4. pos + delayed \in Nat /\ pos + delayed >= Len(disk) /\ disk \in Seq(Nat)
      BY <3>1 DEF Placement
    <3>5. WriteAt(pos + delayed, data) \in Seq(Nat)
      BY <3>4, WriteAtLemma
    <3> QED BY <2>2, <3>2, <3>3, <3>4, <3>5
  <2> QED BY <2>1, <2>2 DEF WriteFails
<1>4. TypeOK'
  BY <1>1, <1>3, SwappedTyped DEF IInv, TypeOK, options, source, swapping, Cells
<1> QED BY <1>2, <1>4 DEF IInv, DiskIsPrefix, Bookkeeping

(* What is wanted depends on the file and the options only.                *)
LEMMA WantedStays ==
  ASSUME UNCHANGED <<size, zeros, swapHalfwords, swapBytes>>, NEW k
  PROVE  Wanted(k)' = Wanted(k) /\ Byte(k)' = Byte(k)
BY DEF Wanted, Byte, OtherHalf, OtherByte

-------------------------------------------------------------------------------
LEMMA InitHolds == Init => IInv
<1> USE DiskOutputAssumption
<1> SUFFICES ASSUME Init PROVE IInv
  OBVIOUS
<1>1. TypeOK
  <2>1. BooleansTyped
    BY Zenon DEF Init, BooleansTyped
  <2>2. OthersTyped
    BY DEF Init, OthersTyped, Cells
  <2> QED BY <2>1, <2>2, TypedInParts
<1>2. DiskIsPrefix
  BY DEF Init, DiskIsPrefix
<1>3. Bookkeeping
  BY DEF Init, Bookkeeping
<1> QED BY <1>1, <1>2, <1>3 DEF IInv

LEMMA OpenKeeps ==
  ASSUME IInv, NEW n \in 0 .. MaxLen, NEW z \in SUBSET Nat, OpenFile(n, z)
  PROVE  IInv'
<1> USE DiskOutputAssumption
<1>1. /\ Running /\ phase = "closed"
      /\ delayed = 0 /\ outputSize = 0 /\ left = 0
  BY DEF OpenFile, IInv, Bookkeeping
<1>2. TypeOK'
  BY DEF OpenFile, SetSwapping, IInv, TypeOK, options, Cells
<1>3. DiskIsPrefix'
  BY <1>1 DEF OpenFile, DiskIsPrefix
<1>4. SwapAsAsked'
  BY DEF OpenFile, SetSwapping, SwapAsAsked, options
<1>5. Bookkeeping'
  BY <1>1, <1>4 DEF OpenFile, Bookkeeping, IInv, TypeOK
<1> QED BY <1>2, <1>3, <1>5 DEF IInv

LEMMA RequestKeeps ==
  ASSUME IInv, NEW n \in 1 .. size - copied, Request(n)
  PROVE  IInv'
<1>1. UNCHANGED <<size, zeros, swapHalfwords, swapBytes>>
  BY DEF Request, options, source
<1>2. TypeOK'
  BY DEF Request, IInv, TypeOK, options, source, swapping, Cells
<1>3. DiskIsPrefix'
  BY <1>1, WantedStays DEF Request, IInv, DiskIsPrefix, Running
<1>4. SwapAsAsked <=> SwapAsAsked'
  BY DEF Request, SwapAsAsked, options, source, swapping
<1>5. Bookkeeping'
  <2>1. /\ Running /\ phase = "copy" /\ copied + n <= size /\ left' = n
        /\ UNCHANGED <<sparse, pos, delayed, copied, size, phase, status>>
    BY DEF Request, options, source
  <2>2. (~sparse => delayed = 0) /\ SwapAsAsked /\ (pos + delayed) % 4 = 0
    BY <2>1 DEF IInv, Bookkeeping
  <2>3. SwapAsAsked'
    BY <2>2, <1>4, Zenon
  <2>4. phase' = "copy" /\ copied' + left' <= size' /\ (pos' + delayed') % 4 = 0
    BY <2>1, <2>2
  <2>5. (~sparse => delayed = 0)'
    BY <2>1, <2>2, Zenon
  <2> QED BY <2>3, <2>4, <2>5 DEF Bookkeeping
<1> QED BY <1>2, <1>3, <1>5 DEF IInv

LEMMA StoreKeeps ==
  ASSUME IInv, Store
  PROVE  IInv'
<1> USE DiskOutputAssumption
<1>1. /\ UNCHANGED <<size, zeros, swapHalfwords, swapBytes>>
      /\ UNCHANGED <<sparse, disk, pos, delayed, phase, status, files>>
      /\ Running /\ left > 0
  BY DEF Store, options, source
<1>2. /\ outputSize \in 0 .. Block /\ Block \in Nat /\ left \in 0 .. size
      /\ copied \in 0 .. size /\ size \in Nat /\ buffer \in [Cells -> Nat]
      /\ zeros \subseteq Nat /\ pos \in Nat /\ delayed \in Nat
      /\ phase \in {"closed", "copy"}
  BY DEF IInv, TypeOK
<1>3. PICK n \in Nat : /\ n = Least(left, Space) /\ n <= left /\ n <= Block - outputSize
                      /\ buffer' = Placed(n) /\ outputSize' = outputSize + n
                      /\ copied' = copied + n /\ left' = left - n
  <2>1. Least(left, Space) \in Nat /\ Least(left, Space) <= left
                                  /\ Least(left, Space) <= Block - outputSize
    BY <1>2 DEF Least, Space
  <2> QED BY <2>1 DEF Store
<1>11. n \in Nat /\ n <= left /\ n <= Block - outputSize
  BY <1>3
<1>4. phase = "copy" /\ copied + left <= size
  BY <1>1, <1>2 DEF IInv, Bookkeeping
<1>5. /\ pos + delayed + outputSize = copied
      /\ \A i \in 0 .. outputSize - 1 : buffer[i] = Byte(pos + delayed + i)
  BY <1>1 DEF IInv, DiskIsPrefix
<1>6. \A i \in 0 .. outputSize + n - 1 :
        Placed(n)[i] = Byte(pos + delayed + i)
  <2>1. SUFFICES ASSUME NEW i \in 0 .. outputSize + n - 1
                 PROVE  Placed(n)[i] = Byte(pos + delayed + i)
    OBVIOUS
  <2>2. i \in Cells
    BY <1>2, <1>11 DEF Cells
  <2>3. CASE i < outputSize
    <3>1. Placed(n)[i] = buffer[i]
      BY <2>2, <2>3, <1>2 DEF Placed, Cells
    <3> QED BY <3>1, <2>3, <1>2, <1>5
  <2>4. CASE outputSize <= i
    <3>1. i < outputSize + n
      BY <1>2
    <3>2. Placed(n)[i] = Byte(copied + (i - outputSize))
      BY <2>2, <2>4, <3>1, Zenon DEF Placed
    <3>3. copied + (i - outputSize) = pos + delayed + i
      BY <1>2, <1>5
    <3> QED BY <3>2, <3>3
  <2> QED BY <2>3, <2>4, <1>2
<1>7. Placed(n) \in [Cells -> Nat]
  <2>1. ASSUME NEW i \in Cells, outputSize <= i
        PROVE  Byte(copied + (i - outputSize)) \in Nat
    <3>1. copied + (i - outputSize) \in Nat
      BY <2>1, <1>2 DEF Cells
    <3> QED BY <3>1 DEF Byte
  <2>2. ASSUME NEW i \in Cells
        PROVE  (IF outputSize <= i /\ i < outputSize + n
                THEN Byte(copied + (i - outputSize)) ELSE buffer[i]) \in Nat
    BY <2>1, <1>2, Zenon
  <2> QED BY <2>2 DEF Placed
<1>8. TypeOK'
  <2>1. BooleansTyped'
    BY Zenon, TypedInParts DEF Store, options, source, swapping, IInv, BooleansTyped
  <2>2. outputSize' \in 0 .. Block /\ copied' \in 0 .. size /\ left' \in 0 .. size
    BY <1>2, <1>3, <1>4
  <2>3. OthersTyped'
    BY <2>2, <1>1, <1>3, <1>7 DEF IInv, TypeOK, OthersTyped, Cells
  <2>4. (BooleansTyped /\ OthersTyped)'
    BY <2>1, <2>3, Zenon
  <2> QED BY <2>4, Zenon DEF TypeOK, BooleansTyped, OthersTyped
<1>9. DiskIsPrefix'
  <2>1. pos' = Len(disk') /\ pos' + delayed' + outputSize' = copied'
    <3>1. pos = Len(disk)
      BY <1>1 DEF IInv, DiskIsPrefix
    <3>2. pos + delayed + (outputSize + n) = copied + n
      BY <1>2, <1>5, <1>11
    <3> QED BY <3>1, <3>2, <1>1, <1>3
  <2>2. \A i \in 0 .. outputSize' - 1 : buffer'[i] = Byte(pos' + delayed' + i)
    <3>1. buffer' = Placed(n) /\ outputSize' = outputSize + n
      BY <1>3
    <3>2. pos' = pos /\ delayed' = delayed
      BY <1>1
    <3>3. ASSUME NEW i \in 0 .. outputSize' - 1
          PROVE  buffer'[i] = Byte(pos' + delayed' + i)
      <4>1. i \in 0 .. outputSize + n - 1
        BY <3>1, <1>2, <1>11
      <4>2. Placed(n)[i] = Byte(pos + delayed + i)
        BY <4>1, <1>6, Zenon
      <4>3. buffer'[i] = Placed(n)[i] /\ pos' + delayed' + i = pos + delayed + i
        BY <3>1, <3>2, Zenon
      <4> QED BY <4>2, <4>3, Zenon
    <3> QED BY <3>3
  <2>3. /\ \A k \in 1 .. pos' : disk'[k] = Wanted(k - 1)
        /\ \A k \in pos' .. pos' + delayed' - 1 : Wanted(k) = 0
    BY <1>1 DEF IInv, DiskIsPrefix
  <2>4. \A k : Wanted(k)' = Wanted(k) /\ Byte(k)' = Byte(k)
    BY <1>1, WantedStays
  <2> QED BY <2>1, <2>2, <2>3, <2>4 DEF DiskIsPrefix
<1>10. Bookkeeping'
  <2>1. (~sparse => delayed = 0) /\ SwapAsAsked /\ (pos + delayed) % 4 = 0
    BY <1>1, <1>4 DEF IInv, Bookkeeping
  <2>2. SwapAsAsked'
    BY <2>1, Zenon DEF Store, SwapAsAsked, options, source, swapping
  <2>3. phase' = "copy" /\ copied' + left' <= size' /\ (pos' + delayed') % 4 = 0
    BY <2>1, <1>1, <1>2, <1>3, <1>4
  <2>4. (~sparse => delayed = 0)'
    BY <2>1, <1>1, Zenon
  <2> QED BY <2>2, <2>3, <2>4 DEF Bookkeeping
<1> QED BY <1>8, <1>9, <1>10 DEF IInv

LEMMA EmptyKeeps ==
  ASSUME IInv, Empty
  PROVE  IInv'
<1> USE DiskOutputAssumption
<1>1. CASE WriteFails
  BY <1>1, FailureKeeps DEF Empty
<1>2. CASE /\ Written(FALSE) /\ buffer' = Swapped /\ outputSize' = 0
           /\ UNCHANGED <<options, source, copied, left, phase, status>>
  <2>1. /\ Running /\ left > 0 /\ outputSize = Block
        /\ copied \in 0 .. size /\ left \in 0 .. size /\ size \in Nat
        /\ Block \in Nat
        /\ phase \in {"closed", "copy"}
    BY DEF Empty, Space, IInv, TypeOK
  <2>2. /\ UNCHANGED <<size, zeros, swapHalfwords, swapBytes, halfwords, bytes>>
        /\ UNCHANGED <<sparse, toStdout, seekable, fdOpen, files, copied, left>>
        /\ UNCHANGED <<phase, status>>
        /\ buffer' = Swapped /\ outputSize' = 0
    BY <1>2 DEF options, source, swapping
  <2>3. phase = "copy" /\ copied + left <= size /\ (pos + delayed) % 4 = 0
        /\ SwapAsAsked /\ pos + delayed + outputSize = copied
    BY <2>1 DEF IInv, Bookkeeping, DiskIsPrefix
  <2>4. /\ Placement(disk', pos', delayed')
        /\ pos' + delayed' = copied
        /\ ~sparse => delayed' = 0
    BY <1>2, <2>1, <2>3, EmptyingKeeps
  <2>5. pos' \in Nat /\ delayed' \in Nat /\ disk' \in Seq(Nat) /\ pos' = Len(disk')
    BY <2>4 DEF Placement
  <2>6. TypeOK'
    <3>1. BooleansTyped /\ OthersTyped
      BY TypedInParts DEF IInv
    <3>2. BooleansTyped'
      BY <2>2, <3>1, Zenon DEF BooleansTyped
    <3>3. Swapped \in [Cells -> Nat]
      BY SwappedTyped DEF IInv
    <3>4. outputSize' \in 0 .. Block
      BY <2>1, <2>2
    <3>5. OthersTyped'
      BY <2>2, <2>5, <3>1, <3>3, <3>4, Zenon DEF OthersTyped, Cells
    <3> QED BY <3>2, <3>5, Zenon DEF TypeOK, BooleansTyped, OthersTyped
  <2>7. DiskIsPrefix'
    <3>1. /\ \A k \in 1 .. pos' : disk'[k] = Wanted(k - 1)
          /\ \A k \in pos' .. pos' + delayed' - 1 : Wanted(k) = 0
      BY <2>4 DEF Placement
    <3>2. \A k : Wanted(k)' = Wanted(k) /\ Byte(k)' = Byte(k)
      BY <2>2, WantedStays
    <3>3. pos' + delayed' + outputSize' = copied'
      BY <2>2, <2>4, <2>5
    <3>4. 0 .. outputSize' - 1 = {}
      BY <2>2
    <3> QED BY <2>5, <3>1, <3>2, <3>3, <3>4 DEF DiskIsPrefix
  <2>8. Bookkeeping'
    <3>1. SwapAsAsked'
      BY <2>2, <2>3, Zenon DEF SwapAsAsked
    <3>2. copied % 4 = 0
      <4>1. PICK p \in Nat : p = pos + delayed
        BY DEF IInv, TypeOK
      <4>2. p % 4 = 0 /\ p + Block = copied
        BY <4>1, <2>1, <2>3
      <4> QED BY <4>2
    <3>3. phase' = "copy" /\ copied' + left' <= size' /\ (pos' + delayed') % 4 = 0
      BY <2>2, <2>3, <2>4, <3>2
    <3>4. (~sparse => delayed = 0)'
      BY <2>2, <2>4, Zenon
    <3> QED BY <3>1, <3>3, <3>4 DEF Bookkeeping
  <2> QED BY <2>6, <2>7, <2>8 DEF IInv
<1> QED BY <1>1, <1>2 DEF Empty

LEMMA FlushKeeps ==
  ASSUME IInv, FlushAndClose
  PROVE  IInv'
<1> USE DiskOutputAssumption
<1>1. CASE WriteFails
  BY <1>1, FailureKeeps DEF FlushAndClose
<1>2. CASE /\ Written(TRUE) /\ buffer' = Swapped /\ outputSize' = 0
           /\ fdOpen' = FALSE /\ phase' = "closed"
           /\ UNCHANGED <<options, size, zeros, swapping, files, copied, left, status>>
  <2>1. /\ Running /\ phase = "copy" /\ left = 0 /\ copied = size
        /\ size \in Nat /\ Block \in Nat
    BY DEF FlushAndClose, IInv, TypeOK
  <2>2. /\ UNCHANGED <<size, zeros, swapHalfwords, swapBytes, halfwords, bytes>>
        /\ UNCHANGED <<sparse, toStdout, seekable, files, copied, left, status>>
        /\ buffer' = Swapped /\ outputSize' = 0
    BY <1>2 DEF options, swapping
  <2>3. /\ Placement(disk', pos', delayed')
        /\ pos' + delayed' = copied
        /\ delayed' = 0
    BY <1>2, <2>1, EmptyingKeeps
  <2>4. pos' \in Nat /\ delayed' \in Nat /\ disk' \in Seq(Nat) /\ pos' = Len(disk')
    BY <2>3 DEF Placement
  <2>5. TypeOK'
    <3>1. BooleansTyped /\ OthersTyped
      BY TypedInParts DEF IInv
    <3>2. BooleansTyped'
      BY <1>2, <2>2, <3>1, Zenon DEF BooleansTyped
    <3>3. Swapped \in [Cells -> Nat]
      BY SwappedTyped DEF IInv
    <3>4. outputSize' \in 0 .. Block
      BY <2>1, <2>2
    <3>5. OthersTyped'
      BY <1>2, <2>2, <2>4, <3>1, <3>3, <3>4, Zenon DEF OthersTyped, Cells
    <3> QED BY <3>2, <3>5, Zenon DEF TypeOK, BooleansTyped, OthersTyped
  <2>6. DiskIsPrefix'
    <3>1. /\ \A k \in 1 .. pos' : disk'[k] = Wanted(k - 1)
          /\ \A k \in pos' .. pos' + delayed' - 1 : Wanted(k) = 0
      BY <2>3 DEF Placement
    <3>2. \A k : Wanted(k)' = Wanted(k) /\ Byte(k)' = Byte(k)
      BY <2>2, WantedStays
    <3>3. pos' + delayed' + outputSize' = copied'
      BY <2>2, <2>3, <2>4
    <3>4. 0 .. outputSize' - 1 = {}
      BY <2>2
    <3> QED BY <2>4, <3>1, <3>2, <3>3, <3>4 DEF DiskIsPrefix
  <2>7. Bookkeeping'
    BY <1>2, <2>1, <2>2, <2>3 DEF Bookkeeping
  <2> QED BY <2>5, <2>6, <2>7 DEF IInv
<1> QED BY <1>1, <1>2 DEF FlushAndClose

LEMMA StepKeeps == IInv /\ [Next]_vars => IInv'
<1> SUFFICES ASSUME IInv, [Next]_vars PROVE IInv'
  OBVIOUS
<1>1. CASE OpenFiles
  <2>1. PICK n \in 0 .. MaxLen, z \in Patterns : OpenFile(n, z \cap (0 .. n - 1))
    BY <1>1 DEF OpenFiles
  <2>2. z \cap (0 .. n - 1) \in SUBSET Nat
    BY DiskOutputAssumption
  <2> QED BY <2>1, <2>2, OpenKeeps
<1>2. CASE Requests
  BY <1>2, RequestKeeps DEF Requests
<1>3. CASE Store
  BY <1>3, StoreKeeps
<1>4. CASE Empty
  BY <1>4, EmptyKeeps
<1>5. CASE FlushAndClose
  BY <1>5, FlushKeeps
<1>6. CASE UNCHANGED vars
  <2>1. UNCHANGED <<size, zeros, swapHalfwords, swapBytes, halfwords, bytes>>
        /\ UNCHANGED <<sparse, toStdout, seekable, fdOpen, files, copied, left>>
        /\ UNCHANGED <<phase, status, buffer, outputSize, pos, delayed, disk>>
    BY <1>6 DEF vars, options, source, swapping
  <2>2. TypeOK'
    BY <2>1, ZenonT(60) DEF IInv, TypeOK, Cells
  <2>3. \A k : Wanted(k)' = Wanted(k) /\ Byte(k)' = Byte(k)
    BY <2>1, WantedStays
  <2>4. DiskIsPrefix'
    BY <2>1, <2>3 DEF IInv, DiskIsPrefix, Running
  <2>5. Bookkeeping'
    BY <2>1, Zenon DEF IInv, Bookkeeping, SwapAsAsked, Running
  <2> QED BY <2>2, <2>4, <2>5 DEF IInv
<1> QED BY <1>1, <1>2, <1>3, <1>4, <1>5, <1>6 DEF Next, Iterate

-------------------------------------------------------------------------------
(* The types of the variables, for a program that writes any number of     *)
(* files.                                                                  *)
THEOREM TypeCorrect == Spec => []TypeOK
<1>1. IInv => TypeOK
  BY DEF IInv
<1> QED BY <1>1, InitHolds, StepKeeps, PTL DEF Spec

(* What is on the disk, in the hole that is put off and in the buffer is   *)
(* the file as far as it was handed over (disk_buffered_write,             *)
(* disk_empty_output_buffer and sparse_write), with its bytes swapped.     *)
THEOREM BufferedBytesAreTheFile == Spec => []DiskIsPrefix
<1>1. IInv => DiskIsPrefix
  BY DEF IInv
<1> QED BY <1>1, InitHolds, StepKeeps, PTL DEF Spec

(* A file that was closed is whole.                                        *)
THEOREM ClosedFilesAreWhole == Spec => []ClosedIsWhole
<1>1. IInv => ClosedIsWhole
  BY DEF IInv, TypeOK, DiskIsPrefix, Bookkeeping, ClosedIsWhole
<1> QED BY <1>1, InitHolds, StepKeeps, PTL DEF Spec

(* No hole and no byte is carried over to the next file, though their      *)
(* count and the buffer outlive a file.                                    *)
THEOREM NothingIsCarriedOver == Spec => []NothingCarriedOver
<1>1. IInv => NothingCarriedOver
  BY DEF IInv, Bookkeeping, NothingCarriedOver
<1> QED BY <1>1, InitHolds, StepKeeps, PTL DEF Spec
===============================================================================
