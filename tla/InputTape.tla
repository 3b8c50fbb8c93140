------------------------------- MODULE InputTape -------------------------------
(***************************************************************************)
(* The input side of util.rs: the TapeInput buffer, its three readers      *)
(* (tape_buffered_read, tape_toss_input, copy_files_tape_to_disk) and the  *)
(* look-ahead tape_buffered_peek by which read_in_header (copyin.rs)       *)
(* recognises the format of an archive and skips what precedes it.         *)
(*                                                                         *)
(* A byte is represented by its offset in the archive, so that the content *)
(* of the buffer says which byte each cell holds.  A call of a reader is a *)
(* loop; every iteration is a step, because each may read from the file.   *)
(***************************************************************************)
EXTENDS Integers, Sequences

CONSTANTS
  IoBlock,     \* io_block_size: -B, -C and --block-size
  Half,        \* half of input_buffer_size
  PeekSize,    \* what read_in_header peeks at: 512, a tar header
  MagicSize,   \* the bytes that identify a format
  MaxLen,      \* longest archive considered
  MaxRequest   \* largest single request considered

Blank == -1
BufSize == 2 * Half
Cells == 0 .. BufSize - 1

ASSUME InputTapeAssumption ==
  /\ IoBlock \in Nat \ {0}
  /\ Half \in Nat
  /\ IoBlock <= Half
  /\ PeekSize \in 1 .. Half
  /\ MagicSize \in 1 .. PeekSize
  /\ MaxLen \in Nat
  /\ MaxRequest \in Nat

VARIABLES
  len, junk, shortReads, special,  \* the archive: fixed in a behaviour
  checksums,   \* which bytes are added to the crc: fixed in a behaviour
  fdPos,       \* offset of the file descriptor
  buffer,      \* input_buffer
  inBuff,      \* in_buff
  inputSize,   \* input_size
  inputBytes,  \* input_bytes
  taken,       \* bytes handed out so far
  given,       \* the bytes handed out last
  summed,      \* the bytes added to the crc since it was set to zero
  phase,       \* read_in_header still looks for a format: "detect"
  call,        \* the reader that runs: [op, total, left]
  status

archive == <<len, junk, shortReads, special, checksums>>
window == <<fdPos, buffer, inBuff, inputSize, inputBytes>>
vars == <<archive, window, taken, given, summed, phase, call, status>>

Idle == [op |-> "none", total |-> 0, left |-> 0]
Running == status = "running"

Least(a, b) == IF a < b THEN a ELSE b

(* An archive that starts with junk bytes and has a header after them.  A  *)
(* read may return less than it was asked for when the archive is a pipe.  *)
(* With -c the format is known and read_in_header does not look ahead; a   *)
(* crc archive is known by the look-ahead alone.  Its sum is made where a  *)
(* file is copied, or, with --only-verify-crc, where it is skipped.        *)
Init ==
  /\ len \in 0 .. MaxLen
  /\ junk \in 0 .. len
  /\ shortReads \in BOOLEAN
  /\ special \in BOOLEAN
  /\ checksums \in {"none", "copied", "tossed"}
  /\ fdPos = 0
  /\ buffer = [i \in Cells |-> Blank]
  /\ inBuff = 0
  /\ inputSize = 0
  /\ inputBytes = 0
  /\ taken = 0
  /\ given = << >>
  /\ summed = << >>
  /\ phase \in {"detect", "body"}
  /\ phase = "body" => checksums = "none"
  /\ call = Idle
  /\ status = "running"

-------------------------------------------------------------------------------
(* rmtread(n): zero at the end of the archive, which is also where reading *)
(* it fails for good; otherwise at most n bytes.                           *)
ReadCounts(n) ==
  LET most == Least(n, len - fdPos)
  IN  IF most = 0 THEN {0}
      ELSE IF shortReads THEN 1 .. most ELSE {most}

Stored(b, at, r) ==
  [i \in Cells |-> IF at <= i /\ i < at + r THEN fdPos + (i - at) ELSE b[i]]

(* error(PAXEXIT_FAILURE, ...): the process ends.  get_next_reel ends it   *)
(* too: the descriptor it opens is never the one it was called with.       *)
StopIgnored(why) == UNCHANGED vars  \* Mistake: the loop tries again
Stop(why) ==
  /\ status' = why
  /\ UNCHANGED <<archive, window, taken, given, summed, phase, call>>

(* input_buffer.copy_within(half.., 0), when nothing fits after the window *)
AppendAt == inBuff + inputSize
MustShiftEarly == AppendAt + IoBlock > Half  \* Mistake: half the room is left
MustShift == AppendAt >= BufSize
NotShifted == buffer  \* Mistake: in_buff moves and the bytes do not
Shifted == [i \in Cells |-> IF i < Half THEN buffer[i + Half] ELSE buffer[i]]
PeekBuffer == IF MustShift THEN Shifted ELSE buffer
PeekInBuff == IF MustShift THEN inBuff - Half ELSE inBuff
PeekAppend == PeekInBuff + inputSize

(* Every reader adds what it read to input_bytes.                          *)
CountedBlock(r) == inputBytes + IoBlock  \* Mistake: what was asked for counts
Counted(r) == inputBytes + r

(* tape_buffered_peek: one read of its loop.  Slicing io_block_size bytes  *)
(* out of what remains of the buffer panics when less remains.             *)
PeekRead ==
  /\ Running
  /\ call.op = "peek"
  /\ inputSize < call.left
  /\ \/ /\ PeekInBuff < 0 \/ BufSize - PeekAppend < IoBlock
        /\ Stop("panic")
     \/ /\ PeekInBuff >= 0
        /\ BufSize - PeekAppend >= IoBlock
        /\ \E r \in ReadCounts(IoBlock) :
             \/ /\ r > 0
                /\ buffer' = Stored(PeekBuffer, PeekAppend, r)
                /\ inBuff' = PeekInBuff
                /\ inputSize' = inputSize + r
                /\ inputBytes' = Counted(r)
                /\ fdPos' = fdPos + r
                /\ UNCHANGED <<archive, taken, given, summed, phase, call, status>>
             \/ /\ r = 0
                /\ special
                /\ Stop("exit")
             \/ /\ r = 0
                /\ ~special
                /\ buffer' = PeekBuffer
                /\ inBuff' = PeekInBuff
                /\ call' = [call EXCEPT !.left = inputSize]
                /\ UNCHANGED <<archive, fdPos, inputSize, inputBytes, taken,
                               given, summed, phase, status>>

(* read_in_header, format unknown: peek, then either a format is found or  *)
(* one byte is dropped.  Nothing is recognised before the first header.    *)
BeginPeek ==
  /\ Running
  /\ phase = "detect"
  /\ call = Idle
  /\ call' = [op |-> "peek", total |-> PeekSize, left |-> PeekSize]
  /\ UNCHANGED <<archive, window, taken, given, summed, phase, status>>

PeekReturn ==
  /\ Running
  /\ call.op = "peek"
  /\ inputSize >= call.left
  /\ \/ /\ taken = junk
        /\ call.left >= MagicSize
        /\ phase' = "body"
        /\ call' = Idle
     \/ /\ taken # junk \/ call.left < MagicSize
        /\ phase' = phase
        /\ call' = [op |-> "read", total |-> 1, left |-> 1]
  /\ UNCHANGED <<archive, window, taken, given, summed, status>>

-------------------------------------------------------------------------------
(* tape_fill_input_buffer(num_bytes): tape_toss_input asks for the size of *)
(* its whole request, the two others for a block.  Nothing read is fatal.  *)
Wanted == IF call.op = "toss" THEN Least(call.total, IoBlock) ELSE IoBlock

Reading == Running /\ call.op \in {"read", "toss", "copy"} /\ call.left > 0

Fill ==
  /\ Reading
  /\ inputSize = 0
  /\ \E r \in ReadCounts(Wanted) :
       \/ /\ r = 0
          /\ Stop("exit")
       \/ /\ r > 0
          /\ buffer' = Stored(buffer, 0, r)
          /\ inBuff' = 0
          /\ inputSize' = r
          /\ inputBytes' = Counted(r)
          /\ fdPos' = fdPos + r
          /\ UNCHANGED <<archive, taken, given, summed, phase, call, status>>

SliceAtStart(at, n) == [k \in 1 .. n |-> buffer[k - 1]]  \* Mistake: in_buff is ignored
Slice(at, n) == [k \in 1 .. n |-> buffer[at + k - 1]]

(* The bytes of the crc.  A copy adds those that it writes; with           *)
(* --only-verify-crc tape_toss_input adds as many, but those at the start  *)
(* of the buffer, whatever in_buff is.                                     *)
Summed(n) ==
  CASE call.op = "copy" /\ checksums = "copied" -> summed \o Slice(inBuff, n)
    [] call.op = "toss" /\ checksums = "tossed" -> summed \o Slice(0, n)
    [] OTHER -> summed

(* One iteration of a reader: hand out what the window has.                *)
Deliver ==
  LET n == Least(call.left, inputSize)
  IN  /\ Reading
      /\ inputSize > 0
      /\ given' = Slice(inBuff, n)
      /\ summed' = Summed(n)
      /\ taken' = taken + n
      /\ inBuff' = inBuff + n
      /\ inputSize' = inputSize - n
      /\ call' = [call EXCEPT !.left = @ - n]
      /\ UNCHANGED <<archive, fdPos, buffer, inputBytes, phase, status>>

Return ==
  /\ Running
  /\ call.op \in {"read", "toss", "copy"}
  /\ call.left = 0
  /\ call' = Idle
  /\ UNCHANGED <<archive, window, taken, given, summed, phase, status>>

(* The extraction of an archive: any request of any size.  The crc is set  *)
(* to zero before a file is copied, and only there.  With                  *)
(* --only-verify-crc nothing is copied.                                    *)
Requested ==
  IF checksums = "tossed" THEN {"read", "toss"} ELSE {"read", "toss", "copy"}

RequestKeepsSum(op, n) ==  \* Mistake: set_crc(0) is forgotten
  /\ Running
  /\ phase = "body"
  /\ call = Idle
  /\ call' = [op |-> op, total |-> n, left |-> n]
  /\ UNCHANGED <<archive, window, taken, given, summed, phase, status>>

Request(op, n) ==
  /\ Running
  /\ phase = "body"
  /\ call = Idle
  /\ call' = [op |-> op, total |-> n, left |-> n]
  /\ summed' = IF op = "copy" THEN << >> ELSE summed
  /\ UNCHANGED <<archive, window, taken, given, phase, status>>

Requests == \E op \in Requested, n \in 1 .. MaxRequest : Request(op, n)

Iterate == PeekRead \/ PeekReturn \/ Fill \/ Deliver \/ Return

Next == BeginPeek \/ Iterate \/ Requests

Spec == Init /\ [][Next]_vars

(* A reader is a loop of a running program: it goes on until it returns.   *)
FairSpec == Spec /\ WF_vars(Iterate)

-------------------------------------------------------------------------------
TypeOK ==
  /\ len \in 0 .. MaxLen
  /\ junk \in 0 .. len
  /\ shortReads \in BOOLEAN
  /\ special \in BOOLEAN
  /\ checksums \in {"none", "copied", "tossed"}
  /\ fdPos \in 0 .. len
  /\ buffer \in [Cells -> {Blank} \cup (0 .. len)]
  /\ inBuff \in 0 .. BufSize
  /\ inputSize \in 0 .. BufSize
  /\ inputBytes \in 0 .. len
  /\ taken \in 0 .. len
  /\ given \in Seq(0 .. len)
  /\ summed \in Seq({Blank} \cup (0 .. len))
  /\ phase \in {"detect", "body"}
  /\ call \in [op : {"none", "peek", "read", "toss", "copy"}, total : Nat, left : Nat]
  /\ status \in {"running", "exit", "panic"}

(* The window [in_buff, in_buff + input_size) lies in the buffer and holds *)
(* exactly the bytes that follow those handed out, after any sequence of   *)
(* refills, look-aheads and shifts: otherwise an archive is extracted with *)
(* bytes lost, repeated or exchanged.                                      *)
WindowIsStream ==
  /\ inBuff + inputSize <= BufSize
  /\ \A k \in 0 .. inputSize - 1 : buffer[inBuff + k] = taken + k

(* input_bytes, from which the block count and the position to append at   *)
(* are computed, counts every byte read, whichever function read it.       *)
BytesAccounted ==
  /\ inputBytes = fdPos
  /\ inputBytes = taken + inputSize

(* A look-ahead that starts at the first byte of the archive finds room:   *)
(* an archive that begins with its header is never refused by a panic,     *)
(* whatever the sizes of the reads of a pipe.                              *)
HeaderFirstFits ==
  junk = 0 /\ PeekSize + IoBlock <= BufSize + 1 => status # "panic"

(* When whole blocks are read and they divide the half of the buffer, the  *)
(* shift keeps in_buff above zero (the subtraction is unsigned) and makes  *)
(* room for one more block, however many bytes of junk were skipped.       *)
Blocks(n) == \E q \in 0 .. n : n = q * IoBlock
WholeBlocksFit ==
  ~shortReads /\ Blocks(len) /\ Blocks(Half) => status # "panic"

(* The look-ahead stays in the buffer for the archives that writers make.  *)
PeekFits == HeaderFirstFits /\ WholeBlocksFit

(* The bytes from .. to - 1 of the archive.                                *)
SumCovers(from, to) ==
  /\ Len(summed) = to - from
  /\ \A k \in 1 .. Len(summed) : summed[k] = from + k - 1

(* A file of a crc archive that is extracted: the sum compared with        *)
(* c_chksum is over the bytes of the file, each once, also when the file   *)
(* spans several buffers or follows one that was skipped.  A file that is  *)
(* only verified is not covered: VerificationCoversFile is about it.       *)
CrcCoversFile ==
  call.op = "copy" /\ checksums = "copied" =>
    SumCovers(taken - (call.total - call.left), taken)

(* The reader implements a byte stream.                                    *)
Stream == INSTANCE ByteStream WITH pos <- taken, out <- given
ImplementsByteStream == Stream!Spec

(* Every reader returns, or the process ends with a message: at the end of *)
(* the archive no loop waits for bytes that will not come.                 *)
CallsReturn == call.op # "none" ~> (call.op = "none" \/ ~Running)

(* copyin.rs:1166 announces "premature end of archive" for an archive that *)
(* ends in the look-ahead: the look-ahead should get there.                *)
NeverPanics == status # "panic"

(* doc/cpio.md:361 and 481 promise that --only-verify-crc verifies the     *)
(* checksum of each file: the sum should be over the bytes of the file.    *)
(* The code sums other bytes, starts no file from zero, and compares       *)
(* c_chksum with a constant 0 in the end (copyin.rs:211 and 1679).         *)
VerificationCoversFile ==
  call.op = "toss" /\ checksums = "tossed" =>
    SumCovers(taken - (call.total - call.left), taken)
===============================================================================
