---------------------------- MODULE InputTapeProofs ----------------------------
(***************************************************************************)
(* What holds of the input buffer for every block size, buffer size and    *)
(* archive: the window is a faithful picture of the archive, a look-ahead  *)
(* at the start of an archive has room, and the reader implements the      *)
(* byte stream.                                                            *)
(***************************************************************************)
EXTENDS InputTape, TLAPS

(* BytesAccounted and WindowIsStream support each other: a read stores the *)
(* bytes from fdPos on behind a window that ends at fdPos.  While the      *)
(* look-ahead of an archive without junk runs, either nothing was taken or *)
(* the archive is shorter than the identification of a format.             *)
HeaderFirst ==
  /\ phase = "detect" /\ junk = 0 =>
       /\ inBuff = taken
       /\ taken > 0 \/ call.op = "read" => fdPos = len /\ len < MagicSize
  /\ call.op = "peek" =>
       /\ phase = "detect"
       /\ call.left <= PeekSize
       /\ call.left < PeekSize => fdPos = len /\ call.left = inputSize
  /\ call.op # "none" /\ call.op # "peek" /\ phase = "detect" => call.op = "read"
  /\ call.left <= call.total

IInv == TypeOK /\ BytesAccounted /\ WindowIsStream

PInv == HeaderFirst /\ HeaderFirstFits

-------------------------------------------------------------------------------
(* The cells from .. to - 1 of b hold the bytes from offset t on.          *)
Holds(b, from, to, t) == \A i \in Int : from <= i /\ i < to => b[i] = t + (i - from)

(* A read of r bytes stored right behind the window extends it.            *)
LEMMA StoredExtends ==
  ASSUME NEW b \in [Cells -> {Blank} \cup (0 .. len)],
         NEW from \in Nat, NEW to \in Nat, NEW t \in Nat, NEW r \in Nat,
         fdPos \in Nat, len \in Nat, BufSize \in Nat,
         from <= to, to + r <= BufSize,
         fdPos = t + (to - from), fdPos + r <= len,
         Holds(b, from, to, t)
  PROVE  /\ Stored(b, to, r) \in [Cells -> {Blank} \cup (0 .. len)]
         /\ Holds(Stored(b, to, r), from, to + r, t)
<1>1. Stored(b, to, r) \in [Cells -> {Blank} \cup (0 .. len)]
  BY DEF Stored, Cells, Blank
<1>2. ASSUME NEW i \in Int, from <= i, i < to + r
      PROVE  Stored(b, to, r)[i] = t + (i - from)
  <2>1. i \in Cells
    BY <1>2 DEF Cells
  <2>2. CASE i < to
    BY <1>2, <2>1, <2>2 DEF Stored, Holds
  <2>3. CASE i >= to
    BY <1>2, <2>1, <2>3 DEF Stored
  <2>4. QED
    BY <2>2, <2>3
<1>3. QED
  BY <1>1, <1>2 DEF Holds

LEMMA ReadCountsBounded ==
  ASSUME NEW n \in Nat \ {0}, len \in Nat, fdPos \in 0 .. len, NEW r \in ReadCounts(n)
  PROVE  r \in Nat /\ r <= n /\ fdPos + r <= len
BY DEF ReadCounts, Least

LEMMA BufSizeFacts == BufSize \in Nat /\ Half \in Nat /\ BufSize = 2 * Half
BY InputTapeAssumption DEF BufSize

LEMMA InitIInv == Init => IInv
<1> SUFFICES ASSUME Init PROVE IInv
  OBVIOUS
<1>1. TypeOK
  BY BufSizeFacts DEF Init, TypeOK, Cells, Blank, Idle
<1>2. BytesAccounted /\ WindowIsStream
  BY BufSizeFacts DEF Init, BytesAccounted, WindowIsStream
<1>3. QED
  BY <1>1, <1>2 DEF IInv

(* WindowIsStream, said of the cells.                                      *)
LEMMA WindowCells ==
  ASSUME inBuff \in Nat, inputSize \in Nat, taken \in Nat, WindowIsStream
  PROVE  /\ inBuff + inputSize <= BufSize
         /\ Holds(buffer, inBuff, inBuff + inputSize, taken)
<1>1. ASSUME NEW i \in Int, inBuff <= i, i < inBuff + inputSize
      PROVE  buffer[i] = taken + (i - inBuff)
  <2>1. i - inBuff \in 0 .. inputSize - 1 /\ inBuff + (i - inBuff) = i
    BY <1>1
  <2>2. QED
    BY <2>1 DEF WindowIsStream
<1>2. QED
  BY <1>1 DEF WindowIsStream, Holds

LEMMA HoldsFromZero ==
  ASSUME NEW b, NEW ib \in Nat, NEW sz \in Nat, NEW t \in Nat,
         NEW end, end = ib + sz, Holds(b, ib, end, t)
  PROVE  \A k \in 0 .. sz - 1 : b[ib + k] = t + k
<1>1. ASSUME NEW k \in 0 .. sz - 1
      PROVE  b[ib + k] = t + k
  <2>1. /\ ib + k \in Int
        /\ ib <= ib + k
        /\ ib + k < ib + sz
        /\ t + ((ib + k) - ib) = t + k
    OBVIOUS
  <2>2. QED
    BY <2>1 DEF Holds
<1>2. QED
  BY <1>1

LEMMA WindowCellsNext ==
  ASSUME inBuff' \in Nat, inputSize' \in Nat, taken' \in Nat,
         inBuff' + inputSize' <= BufSize,
         Holds(buffer', inBuff', inBuff' + inputSize', taken')
  PROVE  WindowIsStream'
<1>1. \A k \in 0 .. inputSize' - 1 : buffer'[inBuff' + k] = taken' + k
  <2> DEFINE b == buffer'  ib == inBuff'  sz == inputSize'  t == taken'  end == ib + sz
  <2>1. ib \in Nat /\ sz \in Nat /\ t \in Nat /\ end = ib + sz /\ Holds(b, ib, end, t)
    OBVIOUS
  <2>2. \A k \in 0 .. sz - 1 : b[ib + k] = t + k
    <3> HIDE DEF b, ib, sz, t, end
    <3>1. QED
      BY <2>1, HoldsFromZero
  <2>3. QED
    BY <2>2
<1>2. QED
  BY <1>1 DEF WindowIsStream, BufSize

(* Shifting the buffer moves the window down by half a buffer and keeps it *)
(* a picture of the same bytes: the window is shorter than the half, so    *)
(* the half above it holds all of it.                                      *)
LEMMA ShiftKeepsWindow ==
  ASSUME IInv, PeekInBuff >= 0
  PROVE  /\ PeekBuffer \in [Cells -> {Blank} \cup (0 .. len)]
         /\ PeekInBuff \in 0 .. BufSize
         /\ PeekInBuff + inputSize <= BufSize
         /\ Holds(PeekBuffer, PeekInBuff, PeekInBuff + inputSize, taken)
<1> USE BufSizeFacts
<1>1. CASE ~MustShift
  BY <1>1, WindowCells DEF PeekBuffer, PeekInBuff, IInv, TypeOK
<1>2. CASE MustShift
  <2>1. Shifted \in [Cells -> {Blank} \cup (0 .. len)]
    BY DEF Shifted, Cells, IInv, TypeOK
  <2>2. PeekInBuff = inBuff - Half /\ PeekBuffer = Shifted
    BY <1>2 DEF PeekInBuff, PeekBuffer
  <2>3. inBuff + inputSize = BufSize
    BY <1>2 DEF MustShift, AppendAt, IInv, TypeOK, WindowIsStream
  <2>4. ASSUME NEW i \in Int, inBuff - Half <= i, i < inBuff - Half + inputSize
        PROVE  Shifted[i] = taken + (i - (inBuff - Half))
    <3>1. /\ i \in Cells /\ i < Half
          /\ inBuff <= i + Half /\ i + Half < inBuff + inputSize
      BY <2>2, <2>3, <2>4 DEF Cells, IInv, TypeOK
    <3>2. Shifted[i] = buffer[i + Half]
      BY <3>1 DEF Shifted
    <3>3. buffer[i + Half] = taken + (i + Half - inBuff)
      <4>1. Holds(buffer, inBuff, inBuff + inputSize, taken)
        BY WindowCells DEF IInv, TypeOK
      <4>2. QED
        BY <3>1, <4>1, i + Half \in Int DEF Holds, IInv, TypeOK
    <3>4. QED
      BY <3>2, <3>3 DEF IInv, TypeOK
  <2>5. PeekInBuff \in 0 .. BufSize /\ PeekInBuff + inputSize <= BufSize
    BY <2>2, <2>3 DEF IInv, TypeOK
  <2>6. Holds(Shifted, inBuff - Half, inBuff - Half + inputSize, taken)
    BY <2>4 DEF Holds
  <2>7. QED
    BY <2>1, <2>2, <2>5, <2>6
<1>3. QED
  BY <1>1, <1>2

LEMMA PeekReadKeepsIInv == IInv /\ PeekRead => IInv'
<1> SUFFICES ASSUME IInv, PeekRead PROVE IInv'
  OBVIOUS
<1> USE BufSizeFacts
<1>1. CASE \E why \in {"panic", "exit"} : Stop(why)
  BY <1>1 DEF Stop, IInv, TypeOK, BytesAccounted, WindowIsStream, archive, window
<1>2. ASSUME PeekInBuff >= 0, BufSize - PeekAppend >= IoBlock,
             NEW r \in ReadCounts(IoBlock), r > 0,
             buffer' = Stored(PeekBuffer, PeekAppend, r),
             inBuff' = PeekInBuff, inputSize' = inputSize + r,
             inputBytes' = inputBytes + r, fdPos' = fdPos + r,
             UNCHANGED <<archive, taken, given, summed, phase, call, status>>
      PROVE  IInv'
  <2> USE <1>2
  <2>1. r \in Nat /\ r <= IoBlock /\ fdPos + r <= len
    BY ReadCountsBounded, InputTapeAssumption DEF IInv, TypeOK
  <2>2. /\ PeekInBuff \in Nat /\ inputSize \in Nat /\ taken \in Nat /\ len \in Nat
        /\ fdPos \in Nat /\ fdPos = taken + inputSize
        /\ PeekInBuff + inputSize + r <= BufSize
    BY <2>1, ShiftKeepsWindow, InputTapeAssumption
       DEF IInv, TypeOK, BytesAccounted, PeekAppend
  <2>3. /\ buffer' \in [Cells -> {Blank} \cup (0 .. len)]
        /\ Holds(buffer', PeekInBuff, PeekInBuff + inputSize + r, taken)
    <3>1. Holds(PeekBuffer, PeekInBuff, PeekAppend, taken) /\ PeekAppend \in Nat
      BY <2>2, ShiftKeepsWindow DEF PeekAppend
    <3>2. fdPos = taken + (PeekAppend - PeekInBuff) /\ PeekAppend + r <= BufSize
      BY <2>2 DEF PeekAppend
    <3>3. PeekInBuff <= PeekAppend
      BY <2>2 DEF PeekAppend
    <3>4. QED
      BY <2>1, <2>2, <3>1, <3>2, <3>3, ShiftKeepsWindow, StoredExtends DEF PeekAppend
  <2>4. TypeOK'
    BY <2>1, <2>2, <2>3, ReadCountsBounded DEF TypeOK, IInv, archive, BytesAccounted, Cells, BufSize
  <2>5. BytesAccounted'
    BY <2>1, <2>2 DEF BytesAccounted, IInv, TypeOK
  <2>6. WindowIsStream'
    BY <2>1, <2>2, <2>3, WindowCellsNext
  <2>7. QED
    BY <2>4, <2>5, <2>6 DEF IInv
<1>3. ASSUME PeekInBuff >= 0, buffer' = PeekBuffer, inBuff' = PeekInBuff,
             call' = [call EXCEPT !.left = inputSize],
             UNCHANGED <<archive, fdPos, inputSize, inputBytes, taken,
                         given, summed, phase, status>>
      PROVE  IInv'
  <2> USE <1>3
  <2>1. /\ PeekBuffer \in [Cells -> {Blank} \cup (0 .. len)]
        /\ PeekInBuff \in 0 .. BufSize
        /\ PeekInBuff + inputSize <= BufSize
        /\ Holds(PeekBuffer, PeekInBuff, PeekInBuff + inputSize, taken)
    BY ShiftKeepsWindow
  <2>2. call' \in [op : {"none", "peek", "read", "toss", "copy"}, total : Nat, left : Nat]
    <3>1. call \in [op : {"none", "peek", "read", "toss", "copy"}, total : Nat, left : Nat]
          /\ inputSize \in Nat
      BY DEF IInv, TypeOK
    <3>2. QED
      BY <3>1
  <2>3. TypeOK'
    BY <2>1, <2>2 DEF IInv, TypeOK, archive, Cells, BufSize
  <2>4. WindowIsStream'
    BY <2>1, WindowCellsNext DEF IInv, TypeOK
  <2>5. BytesAccounted'
    BY DEF IInv, BytesAccounted
  <2>6. QED
    BY <2>3, <2>4, <2>5 DEF IInv
<1>4. QED
  BY <1>1, <1>2, <1>3 DEF PeekRead, Counted

(* A refill replaces a window that is empty.                               *)
LEMMA FillKeepsIInv == IInv /\ Fill => IInv'
<1> SUFFICES ASSUME IInv, Fill PROVE IInv'
  OBVIOUS
<1> USE BufSizeFacts
<1>1. CASE Stop("exit")
  BY <1>1 DEF Stop, IInv, TypeOK, BytesAccounted, WindowIsStream, archive, window
<1>2. ASSUME NEW r \in ReadCounts(Wanted), r > 0,
             buffer' = Stored(buffer, 0, r),
             inBuff' = 0, inputSize' = r,
             inputBytes' = inputBytes + r, fdPos' = fdPos + r,
             UNCHANGED <<archive, taken, given, summed, phase, call, status>>
      PROVE  IInv'
  <2> USE <1>2
  <2>1. r \in Nat /\ r <= BufSize /\ fdPos + r <= len
    <3>1. Wanted \in Nat /\ Wanted <= IoBlock
      BY InputTapeAssumption DEF Wanted, Least, IInv, TypeOK
    <3>2. len \in Nat /\ fdPos \in 0 .. len /\ IoBlock \in Nat /\ IoBlock <= Half
      BY InputTapeAssumption DEF IInv, TypeOK
    <3>3. r \in Nat /\ r <= Wanted /\ fdPos + r <= len
      BY <3>1, <3>2 DEF ReadCounts, Least
    <3>4. QED
      BY <3>1, <3>2, <3>3
  <2>2. /\ taken \in Nat /\ len \in Nat /\ fdPos \in Nat /\ fdPos = taken
        /\ inputSize = 0
    BY DEF IInv, TypeOK, BytesAccounted, Fill, Counted
  <2>3. /\ buffer' \in [Cells -> {Blank} \cup (0 .. len)]
        /\ Holds(buffer', 0, r, taken)
    <3>1. buffer \in [Cells -> {Blank} \cup (0 .. len)]
      BY DEF IInv, TypeOK
    <3>2. Holds(buffer, 0, 0, taken)
      BY DEF Holds
    <3>3. Stored(buffer, 0, r) \in [Cells -> {Blank} \cup (0 .. len)]
      BY <2>1, <2>2, <3>1, <3>2, StoredExtends
    <3>4. Holds(Stored(buffer, 0, r), 0, r, taken)
      BY <2>1, <2>2 DEF Holds, Stored, Cells
    <3>5. QED
      BY <3>3, <3>4
  <2>4. TypeOK'
    BY <2>1, <2>2, <2>3 DEF TypeOK, IInv, archive, BytesAccounted, Cells, BufSize
  <2>5. BytesAccounted'
    BY <2>1, <2>2 DEF BytesAccounted, IInv, TypeOK
  <2>6. WindowIsStream'
    BY <2>1, <2>2, <2>3, WindowCellsNext
  <2>7. QED
    BY <2>4, <2>5, <2>6 DEF IInv
<1>3. QED
  BY <1>1, <1>2 DEF Fill, Counted

(* What a reader hands out: the bytes that follow those handed out before. *)
LEMMA SliceIsStream ==
  ASSUME IInv, NEW n \in 0 .. inputSize
  PROVE  /\ Slice(inBuff, n) = [k \in 1 .. n |-> taken + k - 1]
         /\ Slice(inBuff, n) \in Seq(0 .. len)
         /\ Slice(inBuff, n) \in Seq({Blank} \cup (0 .. len))
         /\ taken + n <= len
<1>1. ASSUME NEW k \in 1 .. n
      PROVE  buffer[inBuff + k - 1] = taken + k - 1 /\ taken + k - 1 \in 0 .. len
  <2>1. k - 1 \in 0 .. inputSize - 1 /\ inBuff + k - 1 = inBuff + (k - 1)
    BY <1>1 DEF IInv, TypeOK
  <2>2. buffer[inBuff + k - 1] = taken + (k - 1)
    BY <2>1 DEF IInv, WindowIsStream
  <2>3. QED
    BY <2>1, <2>2 DEF IInv, TypeOK, BytesAccounted
<1>2. Slice(inBuff, n) = [k \in 1 .. n |-> taken + k - 1]
  BY <1>1 DEF Slice
<1>3. /\ [k \in 1 .. n |-> taken + k - 1] \in Seq(0 .. len)
      /\ [k \in 1 .. n |-> taken + k - 1] \in Seq({Blank} \cup (0 .. len))
  <2>1. n \in Nat
    BY DEF IInv, TypeOK
  <2>2. QED
    BY <1>1, <2>1
<1>4. QED
  BY <1>2, <1>3 DEF IInv, TypeOK, BytesAccounted

(* The start of the buffer, which a verification sums: any of its cells.   *)
LEMMA StartOfBuffer ==
  ASSUME IInv, NEW n \in 0 .. inputSize
  PROVE  Slice(0, n) \in Seq({Blank} \cup (0 .. len))
<1>1. n \in Nat /\ n <= BufSize /\ buffer \in [Cells -> {Blank} \cup (0 .. len)]
  BY BufSizeFacts DEF IInv, TypeOK
<1>2. ASSUME NEW k \in 1 .. n
      PROVE  buffer[0 + k - 1] \in {Blank} \cup (0 .. len)
  <2>1. 0 + k - 1 \in Cells
    BY <1>1, BufSizeFacts DEF Cells
  <2>2. QED
    BY <1>1, <2>1, Zenon
<1>3. QED
  BY <1>1, <1>2 DEF Slice

LEMMA DeliverKeepsIInv == IInv /\ Deliver => IInv'
<1> SUFFICES ASSUME IInv, Deliver PROVE IInv'
  OBVIOUS
<1> USE BufSizeFacts
<1> DEFINE n == Least(call.left, inputSize)
<1>1. n \in 0 .. inputSize /\ n <= call.left /\ n \in Nat
  BY DEF Least, IInv, TypeOK
<1>2. /\ given' = Slice(inBuff, n)
      /\ summed' = Summed(n)
      /\ taken' = taken + n /\ inBuff' = inBuff + n /\ inputSize' = inputSize - n
      /\ call' = [call EXCEPT !.left = @ - n]
      /\ UNCHANGED <<archive, fdPos, buffer, inputBytes, phase, status>>
  BY DEF Deliver
<1> HIDE DEF n
<1>3. given' \in Seq(0 .. len) /\ summed' \in Seq({Blank} \cup (0 .. len))
  <2>1. Slice(inBuff, n) \in Seq(0 .. len)
    BY <1>1, SliceIsStream
  <2>2. summed \in Seq({Blank} \cup (0 .. len))
    BY DEF IInv, TypeOK
  <2>3. Slice(0, n) \in Seq({Blank} \cup (0 .. len))
    BY <1>1, StartOfBuffer
  <2>4. Slice(inBuff, n) \in Seq({Blank} \cup (0 .. len))
    BY <1>1, SliceIsStream
  <2>5. /\ summed \o Slice(inBuff, n) \in Seq({Blank} \cup (0 .. len))
        /\ summed \o Slice(0, n) \in Seq({Blank} \cup (0 .. len))
    BY <2>2, <2>3, <2>4
  <2>6. Summed(n) \in Seq({Blank} \cup (0 .. len))
    BY <2>2, <2>5, Zenon DEF Summed
  <2>7. QED
    BY <1>2, <2>1, <2>6, Zenon
<1>4. call' \in [op : {"none", "peek", "read", "toss", "copy"}, total : Nat, left : Nat]
  <2>1. call \in [op : {"none", "peek", "read", "toss", "copy"}, total : Nat, left : Nat]
    BY DEF IInv, TypeOK
  <2>2. call.left - n \in Nat
    BY <1>1, <2>1
  <2>3. QED
    BY <1>2, <2>1, <2>2
<1>5. /\ inBuff' \in 0 .. BufSize /\ inputSize' \in 0 .. BufSize /\ taken' \in 0 .. len
      /\ inBuff' + inputSize' <= BufSize
      /\ inputBytes = taken' + inputSize' /\ inputBytes = fdPos
  <2>1. /\ inBuff \in Nat /\ inputSize \in Nat /\ taken \in Nat /\ len \in Nat
        /\ fdPos \in Nat /\ fdPos <= len
        /\ inBuff + inputSize <= BufSize /\ inputBytes = fdPos
        /\ inputBytes = taken + inputSize
    BY DEF IInv, TypeOK, BytesAccounted, WindowIsStream
  <2>2. /\ inBuff + n \in 0 .. BufSize /\ inputSize - n \in 0 .. BufSize
        /\ taken + n \in 0 .. len
        /\ (inBuff + n) + (inputSize - n) <= BufSize
        /\ inputBytes = (taken + n) + (inputSize - n)
    BY <1>1, <2>1
  <2>3. QED
    BY <1>2, <2>1, <2>2
<1>6. TypeOK'
  BY <1>2, <1>3, <1>4, <1>5 DEF IInv, TypeOK, archive, Cells, BufSize
<1>7. WindowIsStream'
  <2>1. Holds(buffer, inBuff, inBuff + inputSize, taken)
    BY WindowCells DEF IInv, TypeOK
  <2>2. Holds(buffer, inBuff + n, inBuff + inputSize, taken + n)
    BY <1>1, <2>1 DEF Holds, IInv, TypeOK
  <2>3. inBuff' + inputSize' = inBuff + inputSize
    BY <1>1, <1>2 DEF IInv, TypeOK
  <2>4. Holds(buffer', inBuff', inBuff' + inputSize', taken')
    BY <1>2, <2>2, <2>3
  <2>5. QED
    BY <1>5, <2>4, WindowCellsNext DEF IInv, TypeOK
<1>8. BytesAccounted'
  BY <1>2, <1>5 DEF BytesAccounted
<1>9. QED
  BY <1>6, <1>7, <1>8 DEF IInv

(* The steps that only start and end calls.                                *)
LEMMA CallStepKeepsIInv ==
  IInv /\ (BeginPeek \/ PeekReturn \/ Return \/ Requests \/ UNCHANGED vars) => IInv'
<1> SUFFICES ASSUME IInv, BeginPeek \/ PeekReturn \/ Return \/ Requests \/ UNCHANGED vars
             PROVE  IInv'
  OBVIOUS
<1>1. UNCHANGED <<archive, window, taken>>
  BY DEF BeginPeek, PeekReturn, Return, Requests, Request, vars
<1>2. WindowIsStream' /\ BytesAccounted'
  BY <1>1 DEF IInv, WindowIsStream, BytesAccounted, window, BufSize
<1>3. TypeOK'
  <2>1. /\ given' = given /\ status' = status
        /\ summed' = summed \/ summed' = << >>
        /\ phase' = phase \/ phase' = "body"
    BY DEF BeginPeek, PeekReturn, Return, Requests, Request, vars
  <2>2. call' \in [op : {"none", "peek", "read", "toss", "copy"}, total : Nat, left : Nat]
    BY InputTapeAssumption
       DEF BeginPeek, PeekReturn, Return, Requests, Request, Requested, vars, IInv, TypeOK, Idle
  <2>3. summed' \in Seq({Blank} \cup (0 .. len))
    <3>1. << >> \in Seq({Blank} \cup (0 .. len))
      OBVIOUS
    <3>2. summed \in Seq({Blank} \cup (0 .. len))
      BY DEF IInv, TypeOK
    <3>3. QED
      BY <2>1, <3>1, <3>2
  <2>4. len' = len /\ junk' = junk /\ shortReads' = shortReads /\ special' = special
        /\ checksums' = checksums
    BY <1>1 DEF archive
  <2>5. /\ fdPos' = fdPos /\ buffer' = buffer /\ inBuff' = inBuff
        /\ inputSize' = inputSize /\ inputBytes' = inputBytes /\ taken' = taken
    BY <1>1 DEF window
  <2>6. QED
    BY <2>1, <2>2, <2>3, <2>4, <2>5 DEF IInv, TypeOK, Cells, BufSize
<1>4. QED
  BY <1>2, <1>3 DEF IInv

LEMMA StepKeepsIInv == IInv /\ [Next]_vars => IInv'
BY PeekReadKeepsIInv, FillKeepsIInv, DeliverKeepsIInv, CallStepKeepsIInv
   DEF Next, Iterate

(* The types of the variables, the picture of the archive in the window    *)
(* and the count of its bytes, for every block size and every archive.     *)
THEOREM InputTapeInvariant == Spec => [](TypeOK /\ WindowIsStream /\ BytesAccounted)
<1>1. IInv => TypeOK /\ WindowIsStream /\ BytesAccounted
  BY DEF IInv
<1>2. QED
  BY InitIInv, StepKeepsIInv, <1>1, PTL DEF Spec

(* The number of bytes that the program reports is the number of bytes it  *)
(* read, and every byte that was read is handed out or in the window.      *)
THEOREM InputBytesAreAccounted == Spec => []BytesAccounted
<1>1. TypeOK /\ WindowIsStream /\ BytesAccounted => BytesAccounted
  OBVIOUS
<1>2. QED
  BY InputTapeInvariant, <1>1, PTL

-------------------------------------------------------------------------------
(* The checksum of a file: the bytes that copy_files_tape_to_disk added    *)
(* are those it handed out, because they come from the window.             *)
SumCoversIn(sum, from, to) ==
  /\ Len(sum) = to - from
  /\ \A k \in 1 .. Len(sum) : sum[k] = from + k - 1

LEMMA SumGrows ==
  ASSUME NEW sum \in Seq({Blank} \cup (0 .. len)), NEW from \in Int, NEW at \in Nat, NEW n \in Nat,
         len \in Nat, SumCoversIn(sum, from, at),
         NEW piece, piece = [k \in 1 .. n |-> at + k - 1]
  PROVE  SumCoversIn(sum \o piece, from, at + n)
<1>1. /\ piece \in Seq(Int) /\ Len(piece) = n
      /\ \A k \in 1 .. n : piece[k] = at + (k - 1)
  <2>1. \A k \in 1 .. n : at + k - 1 = at + (k - 1) /\ at + k - 1 \in Int
    OBVIOUS
  <2> QED BY <2>1
<1>2. /\ Len(sum) = at - from /\ Len(sum) \in Nat
      /\ \A k \in 1 .. Len(sum) : sum[k] = from + k - 1
  BY DEF SumCoversIn
<1>3. PICK m \in Nat : m = Len(sum)
  BY <1>2
<1>4. sum \in Seq(Int)
  BY DEF Blank
<1>5. /\ Len(sum \o piece) = m + n
      /\ \A k \in 1 .. m : (sum \o piece)[k] = sum[k]
      /\ \A k \in m + 1 .. m + n : (sum \o piece)[k] = piece[k - m]
  BY <1>1, <1>3, <1>4
<1>6. ASSUME NEW k \in 1 .. m + n
      PROVE  (sum \o piece)[k] = from + k - 1
  <2>1. CASE k <= m
    BY <2>1, <1>2, <1>3, <1>5
  <2>2. CASE k > m
    <3>1. k \in m + 1 .. m + n /\ k - m \in 1 .. n
      BY <2>2
    <3>2. (sum \o piece)[k] = at + ((k - m) - 1)
      BY <3>1, <1>1, <1>5
    <3>3. m = at - from
      BY <1>2, <1>3
    <3>4. at + ((k - m) - 1) = from + k - 1
      BY <3>3
    <3> QED BY <3>2, <3>4, Zenon
  <2>3. k <= m \/ k > m
    OBVIOUS
  <2> QED BY <2>1, <2>2, <2>3, Zenon
<1>7. m + n = (at + n) - from
  BY <1>2, <1>3
<1> QED BY <1>5, <1>6, <1>7 DEF SumCoversIn

LEMMA DeliverKeepsSum ==
  ASSUME IInv, CrcCoversFile, Deliver
  PROVE  CrcCoversFile'
<1> SUFFICES ASSUME call.op = "copy", checksums = "copied"
             PROVE  CrcCoversFile'
  BY DEF Deliver, CrcCoversFile, IInv, TypeOK, archive
<1> DEFINE n == Least(call.left, inputSize)
<1>1. /\ n \in Nat /\ n <= inputSize
      /\ inputSize \in Nat /\ taken \in Nat /\ len \in Nat
      /\ call.left \in Nat /\ call.total \in Nat
      /\ call \in [op : {"none", "peek", "read", "toss", "copy"}, total : Nat, left : Nat]
  BY DEF IInv, TypeOK, Least
<1>2. /\ summed' = summed \o Slice(inBuff, n) /\ taken' = taken + n
      /\ call' = [call EXCEPT !.left = @ - n]
  BY DEF Deliver, Summed
<1>3. /\ call'.left = call.left - n /\ call'.total = call.total
  BY <1>1, <1>2
<1>4. PICK piece : piece = Slice(inBuff, n)
  OBVIOUS
<1>5. piece = [k \in 1 .. n |-> taken + k - 1]
  BY <1>1, <1>4, SliceIsStream
<1>6. PICK from \in Int : from = taken - (call.total - call.left)
  BY <1>1
<1>7. SumCoversIn(summed, from, taken)
  BY <1>6 DEF CrcCoversFile, SumCovers, SumCoversIn
<1>9. SumCoversIn(summed \o piece, from, taken + n)
  <2>1. summed \in Seq({Blank} \cup (0 .. len))
    BY DEF IInv, TypeOK
  <2> HIDE DEF n
  <2> QED BY <1>1, <1>5, <1>6, <1>7, <2>1, SumGrows
<1>10. from = taken' - (call'.total - call'.left)
  BY <1>1, <1>2, <1>3, <1>6
<1> QED BY <1>2, <1>4, <1>9, <1>10 DEF CrcCoversFile, SumCovers, SumCoversIn

LEMMA OthersKeepSum ==
  ASSUME IInv, CrcCoversFile, [Next]_vars, ~Deliver
  PROVE  CrcCoversFile'
<1>1. CASE BeginPeek
  BY <1>1 DEF BeginPeek, CrcCoversFile
<1>2. CASE PeekRead
  BY <1>2 DEF PeekRead, Stop, CrcCoversFile, SumCovers, IInv, TypeOK, archive
<1>3. CASE PeekReturn
  BY <1>3 DEF PeekReturn, CrcCoversFile, Idle
<1>4. CASE Fill
  BY <1>4 DEF Fill, Stop, CrcCoversFile, SumCovers, archive
<1>5. CASE Return
  BY <1>5 DEF Return, CrcCoversFile, Idle
<1>6. CASE Requests
  <2>1. PICK op \in Requested, n \in 1 .. MaxRequest : Request(op, n)
    BY <1>6 DEF Requests
  <2>2. /\ op = "copy" => summed' = << >>
        /\ call'.op = op /\ call'.total = n /\ call'.left = n /\ taken' = taken
        /\ Len(<< >>) = 0
    BY <2>1 DEF Request
  <2>3. n - n = 0 /\ 1 .. 0 = {} /\ taken - 0 = taken /\ taken - taken = 0
    BY InputTapeAssumption DEF IInv, TypeOK
  <2> QED BY <2>2, <2>3 DEF CrcCoversFile, SumCovers
<1>7. CASE UNCHANGED vars
  BY <1>7 DEF vars, CrcCoversFile, SumCovers, archive
<1> QED BY <1>1, <1>2, <1>3, <1>4, <1>5, <1>6, <1>7 DEF Next, Iterate

(* What is compared with the checksum of the header of a file that is      *)
(* extracted is the sum over the bytes of the file, each once.             *)
THEOREM CrcSumsTheFile == Spec => []CrcCoversFile
<1>1. Init => IInv /\ CrcCoversFile
  BY InitIInv DEF Init, Idle, CrcCoversFile
<1>2. IInv /\ CrcCoversFile /\ [Next]_vars => IInv' /\ CrcCoversFile'
  BY StepKeepsIInv, DeliverKeepsSum, OthersKeepSum
<1>3. QED
  BY <1>1, <1>2, PTL DEF Spec

-------------------------------------------------------------------------------
(* The look-ahead at the start of an archive.  Before a byte is taken the  *)
(* window starts at cell 0 and holds less than the look-ahead asks for, so *)
(* a block fits behind it; a byte is taken only when the archive is at its *)
(* end, shorter than the identification of a format.                       *)
LEMMA InitPInv == Init => PInv
BY BufSizeFacts, InputTapeAssumption DEF Init, PInv, HeaderFirst, HeaderFirstFits, Idle

LEMMA StepKeepsHeaderFirst == IInv /\ HeaderFirst /\ [Next]_vars => HeaderFirst'
<1> SUFFICES ASSUME IInv, HeaderFirst, [Next]_vars PROVE HeaderFirst'
  OBVIOUS
<1> USE BufSizeFacts, InputTapeAssumption
<1>0. /\ inBuff \in Nat /\ inputSize \in Nat /\ taken \in Nat /\ len \in Nat /\ junk \in Nat
      /\ fdPos \in Nat /\ fdPos <= len /\ fdPos = taken + inputSize
      /\ call \in [op : {"none", "peek", "read", "toss", "copy"}, total : Nat, left : Nat]
      /\ PeekSize \in Nat /\ PeekSize <= Half /\ MagicSize \in Nat /\ MagicSize <= PeekSize
      /\ MagicSize > 0
  BY DEF IInv, TypeOK, BytesAccounted
<1>1. CASE PeekRead
  <2>1. CASE \E why \in {"panic", "exit"} : Stop(why)
    BY <2>1 DEF Stop, HeaderFirst, archive, window
  <2>2. ASSUME NEW r \in ReadCounts(IoBlock), r > 0, inBuff' = PeekInBuff,
               inputSize' = inputSize + r, fdPos' = fdPos + r,
               UNCHANGED <<archive, taken, given, summed, phase, call, status>>
        PROVE  HeaderFirst'
    <3>1. len' = len /\ junk' = junk /\ taken' = taken /\ phase' = phase /\ call' = call
      BY <2>2 DEF archive
    <3>2. call.op = "peek" /\ inputSize < call.left /\ fdPos # len
      BY <1>0, <1>1, <2>2 DEF PeekRead, ReadCounts, Least
    <3>3. call.left = PeekSize /\ (phase = "detect" /\ junk = 0 => taken = 0 /\ inBuff = 0)
      BY <1>0, <3>2 DEF HeaderFirst
    <3>4. phase = "detect" /\ junk = 0 => PeekInBuff = 0
      BY <1>0, <3>2, <3>3 DEF PeekInBuff, MustShift, AppendAt
    <3>5. QED
      BY <1>0, <2>2, <3>1, <3>2, <3>3, <3>4 DEF HeaderFirst
  <2>3. ASSUME 0 \in ReadCounts(IoBlock), inBuff' = PeekInBuff,
               call' = [call EXCEPT !.left = inputSize],
               UNCHANGED <<archive, fdPos, inputSize, inputBytes, taken,
                           given, summed, phase, status>>
        PROVE  HeaderFirst'
    <3>1. /\ len' = len /\ junk' = junk /\ taken' = taken /\ phase' = phase
          /\ fdPos' = fdPos /\ inputSize' = inputSize
      BY <2>3 DEF archive
    <3>2. call.op = "peek" /\ inputSize < call.left /\ fdPos = len
      BY <1>0, <1>1, <2>3 DEF PeekRead, ReadCounts, Least
    <3>3. call'.op = "peek" /\ call'.left = inputSize /\ call'.total = call.total
      BY <1>0, <2>3, <3>2
    <3>4. phase = "detect" /\ junk = 0 => PeekInBuff = inBuff
      BY <1>0, <3>2 DEF HeaderFirst, PeekInBuff, MustShift, AppendAt
    <3>5. QED
      BY <1>0, <2>3, <3>1, <3>2, <3>3, <3>4 DEF HeaderFirst
  <2>4. QED
    BY <1>1, <2>1, <2>2, <2>3 DEF PeekRead
<1>2. CASE Fill
  <2>1. CASE Stop("exit")
    BY <2>1 DEF Stop, HeaderFirst, archive, window
  <2>2. ASSUME NEW r \in ReadCounts(Wanted), r > 0, inBuff' = 0, inputSize' = r,
               fdPos' = fdPos + r,
               UNCHANGED <<archive, taken, given, summed, phase, call, status>>
        PROVE  HeaderFirst'
    <3>1. len' = len /\ junk' = junk /\ taken' = taken /\ phase' = phase /\ call' = call
      BY <2>2 DEF archive
    <3>2. fdPos # len
      <4>1. Wanted \in Nat
        BY <1>0 DEF Wanted, Least
      <4>2. QED
        BY <1>0, <2>2, <4>1 DEF ReadCounts, Least
    <3>3. call.op \in {"read", "toss", "copy"}
      BY <1>2 DEF Fill, Reading
    <3>4. ~(phase = "detect" /\ junk = 0)
      BY <3>2, <3>3 DEF HeaderFirst
    <3>5. QED
      BY <1>0, <3>1, <3>3, <3>4 DEF HeaderFirst
  <2>3. QED
    BY <1>2, <2>1, <2>2 DEF Fill
<1>3. CASE Deliver
  <2> DEFINE n == Least(call.left, inputSize)
  <2>1. n \in Nat /\ n <= call.left /\ n > 0
    BY <1>0, <1>3 DEF Least, Deliver, Reading
  <2>2. /\ taken' = taken + n /\ inBuff' = inBuff + n
        /\ call' = [call EXCEPT !.left = @ - n]
        /\ UNCHANGED <<archive, fdPos, phase>>
    BY <1>3 DEF Deliver
  <2> HIDE DEF n
  <2>3. len' = len /\ junk' = junk /\ phase' = phase /\ fdPos' = fdPos
    BY <2>2 DEF archive
  <2>4. call'.op = call.op /\ call.op \in {"read", "toss", "copy"}
        /\ call'.left = call.left - n /\ call'.total = call.total
    BY <1>0, <1>3, <2>2 DEF Deliver, Reading
  <2>5. QED
    BY <1>0, <2>1, <2>2, <2>3, <2>4 DEF HeaderFirst
<1>4. CASE BeginPeek \/ Return \/ Requests
  <2>1. UNCHANGED <<archive, window, taken, phase>>
    BY <1>4 DEF BeginPeek, Return, Requests, Request, Requested
  <2>2. \/ call' = Idle
        \/ phase = "detect" /\ call' = [op |-> "peek", total |-> PeekSize, left |-> PeekSize]
           /\ call = Idle
        \/ phase = "body" /\ call'.op \in {"read", "toss", "copy"}
           /\ call'.left = call'.total /\ call'.left \in Nat
    BY <1>4 DEF BeginPeek, Return, Requests, Request, Requested
  <2>3. /\ len' = len /\ junk' = junk /\ taken' = taken /\ phase' = phase
        /\ fdPos' = fdPos /\ inBuff' = inBuff /\ inputSize' = inputSize
    BY <2>1 DEF archive, window
  <2>4. CASE call' = Idle
    BY <1>0, <2>3, <2>4 DEF HeaderFirst, Idle
  <2>5. CASE phase = "detect" /\ call' = [op |-> "peek", total |-> PeekSize, left |-> PeekSize]
    BY <1>0, <2>3, <2>5 DEF HeaderFirst
  <2>6. CASE phase = "body" /\ call'.op \in {"read", "toss", "copy"} /\ call'.left = call'.total
                 /\ call'.left \in Nat
    BY <1>0, <2>3, <2>6 DEF HeaderFirst
  <2>7. QED
    BY <2>2, <2>4, <2>5, <2>6
<1>5. CASE PeekReturn
  <2>1. UNCHANGED <<archive, window, taken>>
    BY <1>5 DEF PeekReturn
  <2>2. \/ phase' = "body" /\ call' = Idle
        \/ /\ taken # junk \/ call.left < MagicSize
           /\ phase' = phase /\ call' = [op |-> "read", total |-> 1, left |-> 1]
    BY <1>5 DEF PeekReturn
  <2>3. call.op = "peek"
    BY <1>5 DEF PeekReturn
  <2>4. QED
    BY <1>0, <2>1, <2>2, <2>3 DEF HeaderFirst, archive, window, Idle
<1>6. CASE UNCHANGED vars
  BY <1>6 DEF vars, HeaderFirst, archive, window
<1>7. QED
  BY <1>1, <1>2, <1>3, <1>4, <1>5, <1>6 DEF Next, Iterate

LEMMA StepKeepsFits == IInv /\ PInv /\ [Next]_vars => HeaderFirstFits'
<1> SUFFICES ASSUME IInv, PInv, [Next]_vars, junk = 0, PeekSize + IoBlock <= BufSize + 1
             PROVE  status' # "panic"
  BY DEF HeaderFirstFits, BufSize, Next, Iterate, PeekRead, PeekReturn, Fill, Deliver,
         Return, BeginPeek, Requests, Request, Stop, archive, vars
<1> USE BufSizeFacts, InputTapeAssumption
<1>0. /\ inBuff \in Nat /\ inputSize \in Nat /\ taken \in Nat /\ len \in Nat
      /\ fdPos \in Nat /\ fdPos <= len /\ fdPos = taken + inputSize
      /\ call \in [op : {"none", "peek", "read", "toss", "copy"}, total : Nat, left : Nat]
      /\ status # "panic"
  BY DEF IInv, TypeOK, BytesAccounted, PInv, HeaderFirstFits
<1>1. CASE PeekRead
  <2>1. call.op = "peek" /\ inputSize < call.left /\ call.left <= PeekSize /\ inBuff = taken
        /\ (taken > 0 => fdPos = len /\ len < MagicSize)
    BY <1>1 DEF PeekRead, PInv, HeaderFirst
  <2>2. inBuff + inputSize <= PeekSize - 1
    BY <1>0, <2>1
  <2>3. ~MustShift /\ PeekInBuff = inBuff /\ PeekAppend = inBuff + inputSize
    BY <1>0, <2>2 DEF MustShift, AppendAt, PeekInBuff, PeekAppend
  <2>4. QED
    <3>1. ~(PeekInBuff < 0 \/ BufSize - PeekAppend < IoBlock)
      BY <1>0, <2>2, <2>3
    <3>2. UNCHANGED status \/ Stop("exit")
      BY <1>1, <3>1 DEF PeekRead
    <3>3. QED
      BY <1>0, <3>2 DEF Stop
<1>2. CASE ~PeekRead
  BY <1>0, <1>2 DEF Next, Iterate, PeekReturn, Fill, Deliver, Return, BeginPeek,
                    Requests, Request, Stop, vars
<1>3. QED
  BY <1>1, <1>2

(* An archive that begins with its header is never refused by a panic of   *)
(* the look-ahead.                                                         *)
THEOREM HeaderFirstNeverPanics == Spec => []HeaderFirstFits
<1>1. Init => IInv /\ PInv
  BY InitIInv, InitPInv
<1>2. IInv /\ PInv /\ [Next]_vars => (IInv /\ PInv)'
  BY StepKeepsIInv, StepKeepsHeaderFirst, StepKeepsFits DEF PInv
<1>3. PInv => HeaderFirstFits
  BY DEF PInv
<1>4. QED
  BY <1>1, <1>2, <1>3, PTL DEF Spec

-------------------------------------------------------------------------------
(* The look-ahead over junk, when whole blocks are read.  Until a format   *)
(* is found the window and the reads both end at borders of blocks, so     *)
(* that there is room for a block, or none at all and the window is moved. *)
Even == ~shortReads /\ Blocks(len) /\ Blocks(Half)

EndsAtBlock(n) == \E q \in Nat : n = q * IoBlock

BlockInv ==
  Even =>
    /\ status # "panic"
    /\ phase = "detect" => EndsAtBlock(fdPos) /\ EndsAtBlock(inBuff + inputSize)

LEMMA NextBlock ==
  ASSUME NEW n \in Nat, EndsAtBlock(n)
  PROVE  EndsAtBlock(n + IoBlock)
<1>1. PICK q \in Nat : n = q * IoBlock
  BY DEF EndsAtBlock
<1>2. q + 1 \in Nat /\ n + IoBlock = (q + 1) * IoBlock
  BY <1>1, InputTapeAssumption
<1>3. QED
  BY <1>2 DEF EndsAtBlock

(* Between two borders of blocks lies a block.                             *)
LEMMA RoomForBlock ==
  ASSUME NEW m \in Nat, NEW n \in Nat, m < n, EndsAtBlock(m), EndsAtBlock(n)
  PROVE  m + IoBlock <= n
<1>1. PICK q \in Nat : m = q * IoBlock
  BY DEF EndsAtBlock
<1>2. PICK r \in Nat : n = r * IoBlock
  BY DEF EndsAtBlock
<1>3. IoBlock \in Nat /\ IoBlock > 0
  BY InputTapeAssumption
<1>4. q < r
  BY <1>1, <1>2, <1>3
<1>5. PICK d \in Nat : r = q + 1 + d
  <2>1. r - (q + 1) \in Nat /\ r = q + 1 + (r - (q + 1))
    BY <1>4
  <2>2. QED
    BY <2>1
<1>6. r * IoBlock = q * IoBlock + IoBlock + d * IoBlock
  BY <1>3, <1>5
<1>7. d * IoBlock >= 0
  BY <1>3
<1>8. QED
  BY <1>1, <1>2, <1>3, <1>6, <1>7

LEMMA BufferEnds ==
  ASSUME Even
  PROVE  EndsAtBlock(len) /\ EndsAtBlock(Half) /\ EndsAtBlock(BufSize)
<1>1. EndsAtBlock(len) /\ EndsAtBlock(Half)
  BY DEF Even, Blocks, EndsAtBlock
<1>2. PICK q \in Nat : Half = q * IoBlock
  BY <1>1 DEF EndsAtBlock
<1>3. 2 * q \in Nat /\ BufSize = (2 * q) * IoBlock
  BY <1>2, BufSizeFacts, InputTapeAssumption
<1>4. QED
  BY <1>1, <1>3 DEF EndsAtBlock

(* A read at the border of a block is one of a block, or of nothing.       *)
LEMMA ReadsBlock ==
  ASSUME IInv, Even, EndsAtBlock(fdPos), NEW r \in ReadCounts(IoBlock), r > 0
  PROVE  r = IoBlock
<1>1. /\ fdPos \in Nat /\ len \in Nat /\ fdPos <= len
      /\ IoBlock \in Nat /\ ~shortReads
  BY InputTapeAssumption DEF IInv, TypeOK, Even
<1>2. fdPos # len /\ r = Least(IoBlock, len - fdPos)
  BY <1>1 DEF ReadCounts, Least
<1>3. fdPos + IoBlock <= len
  BY <1>1, <1>2, BufferEnds, RoomForBlock
<1>4. QED
  BY <1>1, <1>2, <1>3 DEF Least

LEMMA EvenStays == [Next]_vars => (Even' <=> Even)
<1>1. [Next]_vars => UNCHANGED <<len, shortReads>>
  BY DEF Next, Iterate, PeekRead, PeekReturn, Fill, Deliver, Return,
         BeginPeek, Requests, Request, Stop, archive, vars
<1>2. ASSUME len' = len PROVE Blocks(len)' <=> Blocks(len)
  BY <1>2 DEF Blocks
<1>3. ASSUME shortReads' = shortReads PROVE (~shortReads)' <=> ~shortReads
  BY <1>3, Zenon
<1>4. QED
  BY <1>1, <1>2, <1>3, Zenon DEF Even

LEMMA StepKeepsBlocks == IInv /\ HeaderFirst /\ BlockInv /\ [Next]_vars => BlockInv'
<1> SUFFICES ASSUME IInv, HeaderFirst, BlockInv, [Next]_vars, Even
             PROVE  BlockInv'
  BY EvenStays DEF BlockInv
<1> USE BufSizeFacts, InputTapeAssumption
<1>0. /\ inBuff \in Nat /\ inputSize \in Nat /\ fdPos \in Nat
      /\ inBuff + inputSize <= BufSize
      /\ call.left \in Nat /\ status # "panic"
  BY DEF IInv, TypeOK, WindowIsStream, BlockInv
<1>1. CASE PeekRead
  <2>1. /\ phase = "detect" /\ inputSize < call.left /\ call.left <= PeekSize
        /\ EndsAtBlock(fdPos) /\ EndsAtBlock(AppendAt)
    BY <1>1 DEF PeekRead, HeaderFirst, BlockInv, AppendAt
  <2>2. /\ PeekInBuff \in Nat /\ PeekAppend \in Nat
        /\ EndsAtBlock(PeekAppend) /\ PeekAppend < BufSize
    <3>1. CASE MustShift
      <4>1. inBuff + inputSize = BufSize
        BY <1>0, <3>1 DEF MustShift, AppendAt
      <4>2. PeekInBuff = inBuff - Half /\ PeekInBuff \in Nat /\ PeekAppend = Half
        BY <1>0, <2>1, <3>1, <4>1 DEF PeekInBuff, PeekAppend
      <4>3. QED
        BY <4>2, BufferEnds
    <3>2. CASE ~MustShift
      BY <1>0, <2>1, <3>2 DEF MustShift, PeekInBuff, PeekAppend, AppendAt
    <3>3. QED
      BY <3>1, <3>2
  <2>3. ~(PeekInBuff < 0 \/ BufSize - PeekAppend < IoBlock)
    BY <2>2, BufferEnds, RoomForBlock
  <2>4. CASE Stop("exit")
    BY <1>0, <2>4 DEF Stop, BlockInv, archive, window
  <2>5. ASSUME NEW r \in ReadCounts(IoBlock), r > 0, inBuff' = PeekInBuff,
               inputSize' = inputSize + r, fdPos' = fdPos + r, UNCHANGED <<phase, status>>
        PROVE  BlockInv'
    <3>1. r = IoBlock
      BY <2>1, <2>5, ReadsBlock
    <3>2. inBuff' + inputSize' = PeekAppend + IoBlock
      BY <1>0, <2>2, <2>5, <3>1 DEF PeekAppend
    <3>3. EndsAtBlock(fdPos + IoBlock) /\ EndsAtBlock(PeekAppend + IoBlock)
      BY <1>0, <2>1, <2>2, NextBlock
    <3>4. EndsAtBlock(fdPos)' /\ EndsAtBlock(inBuff + inputSize)'
      BY <2>5, <3>1, <3>2, <3>3 DEF EndsAtBlock
    <3>5. QED
      BY <1>0, <2>5, <3>4 DEF BlockInv
  <2>6. ASSUME inBuff' = PeekInBuff, UNCHANGED <<fdPos, inputSize, phase, status>>
        PROVE  BlockInv'
    <3>1. inBuff' + inputSize' = PeekAppend
      BY <2>6 DEF PeekAppend
    <3>2. EndsAtBlock(fdPos)' /\ EndsAtBlock(inBuff + inputSize)'
      BY <2>1, <2>2, <2>6, <3>1 DEF EndsAtBlock
    <3>3. QED
      BY <1>0, <2>6, <3>2 DEF BlockInv
  <2>7. QED
    BY <1>1, <2>3, <2>4, <2>5, <2>6 DEF PeekRead
<1>2. CASE Fill
  <2>1. CASE Stop("exit")
    BY <1>0, <2>1 DEF Stop, BlockInv, archive, window
  <2>2. ASSUME NEW r \in ReadCounts(Wanted), r > 0, inBuff' = 0, inputSize' = r,
               fdPos' = fdPos + r, UNCHANGED <<phase, status>>
        PROVE  BlockInv'
    <3>1. SUFFICES ASSUME phase = "detect"
                   PROVE  EndsAtBlock(fdPos)' /\ EndsAtBlock(inBuff + inputSize)'
      BY <1>0, <2>2 DEF BlockInv
    <3>2. call.op = "read"
      BY <1>2, <3>1 DEF Fill, Reading, HeaderFirst
    <3>3. EndsAtBlock(fdPos) /\ r \in ReadCounts(IoBlock)
      BY <2>2, <3>1, <3>2 DEF BlockInv, Wanted
    <3>4. r = IoBlock
      BY <2>2, <3>3, ReadsBlock
    <3>5. EndsAtBlock(fdPos + IoBlock) /\ EndsAtBlock(0 + IoBlock)
      <4>1. EndsAtBlock(0)
        BY DEF EndsAtBlock
      <4>2. QED
        BY <1>0, <3>3, <4>1, NextBlock
    <3>6. QED
      BY <2>2, <3>4, <3>5 DEF EndsAtBlock
  <2>3. QED
    BY <1>2, <2>1, <2>2 DEF Fill
<1>3. CASE Deliver
  <2> DEFINE n == Least(call.left, inputSize)
  <2>1. n \in Nat /\ n <= inputSize
    BY <1>0 DEF Least
  <2>2. /\ inBuff' = inBuff + n /\ inputSize' = inputSize - n
        /\ UNCHANGED <<fdPos, phase, status>>
    BY <1>3 DEF Deliver
  <2> HIDE DEF n
  <2>3. inBuff' + inputSize' = inBuff + inputSize
    BY <1>0, <2>1, <2>2
  <2>4. QED
    BY <1>0, <2>2, <2>3 DEF BlockInv, EndsAtBlock
<1>4. CASE BeginPeek \/ PeekReturn \/ Return \/ Requests \/ UNCHANGED vars
  <2>1. UNCHANGED <<fdPos, inBuff, inputSize, status>> /\ (phase' = phase \/ phase' = "body")
    BY <1>4 DEF BeginPeek, PeekReturn, Return, Requests, Request, vars, window
  <2>2. QED
    BY <1>0, <2>1 DEF BlockInv, EndsAtBlock
<1>5. QED
  BY <1>1, <1>2, <1>3, <1>4 DEF Next, Iterate

(* The look-ahead has room for the archives that writers make: those that  *)
(* begin with their header, however short the reads, and those of whole    *)
(* blocks, whatever precedes the header.                                   *)
THEOREM LookAheadFits == Spec => []PeekFits
<1>1. Init => IInv /\ PInv /\ BlockInv
  <2>1. Init => BlockInv
    <3>1. EndsAtBlock(0) /\ 0 + 0 = 0
      BY InputTapeAssumption DEF EndsAtBlock
    <3>2. QED
      BY <3>1 DEF Init, BlockInv
  <2>2. QED
    BY <2>1, InitIInv, InitPInv
<1>2. IInv /\ PInv /\ BlockInv /\ [Next]_vars => (IInv /\ PInv /\ BlockInv)'
  BY StepKeepsIInv, StepKeepsHeaderFirst, StepKeepsFits, StepKeepsBlocks DEF PInv
<1>3. PInv /\ BlockInv => PeekFits
  BY DEF PInv, BlockInv, PeekFits, WholeBlocksFit, Even
<1>4. QED
  BY <1>1, <1>2, <1>3, PTL DEF Spec

-------------------------------------------------------------------------------
(* Every step hands out the bytes that come next, or none.                 *)
LEMMA StepIsStreamStep == IInv /\ [Next]_vars => [Stream!Next]_<<len, taken, given>>
<1> SUFFICES ASSUME IInv, [Next]_vars
             PROVE  Stream!Next \/ UNCHANGED <<len, taken, given>>
  OBVIOUS
<1>1. CASE Deliver
  <2> DEFINE n == Least(call.left, inputSize)
  <2>1. n \in 1 .. inputSize
    BY <1>1 DEF Least, Deliver, Reading, IInv, TypeOK
  <2>2. given' = Slice(inBuff, n) /\ taken' = taken + n /\ len' = len
    BY <1>1 DEF Deliver, archive
  <2> HIDE DEF n
  <2>3. n \in 0 .. inputSize /\ inputSize \in Nat /\ taken \in Nat /\ len \in Nat
    BY <2>1 DEF IInv, TypeOK
  <2>4. Slice(inBuff, n) = [k \in 1 .. n |-> taken + k - 1] /\ taken + n <= len
    BY <2>3, SliceIsStream
  <2>5. n \in 1 .. (len - taken)
    BY <2>1, <2>3, <2>4
  <2>6. QED
    BY <2>2, <2>4, <2>5 DEF Stream!Next, Stream!Deliver
<1>2. CASE ~Deliver
  BY <1>2 DEF Next, Iterate, PeekRead, PeekReturn, Fill, Return, BeginPeek,
              Requests, Request, Stop, archive, vars
<1>3. QED
  BY <1>1, <1>2

(* The buffered reader, look-ahead included, implements the byte stream:   *)
(* for every block size, every archive and every pattern of short reads.   *)
THEOREM InputTapeImplementsByteStream == Spec => ImplementsByteStream
<1>1. Init => Stream!Init
  BY DEF Init, Stream!Init, InputTapeAssumption
<1>2. QED
  BY <1>1, InitIInv, StepKeepsIInv, StepIsStreamStep, PTL
     DEF Spec, ImplementsByteStream, Stream!Spec
===============================================================================
