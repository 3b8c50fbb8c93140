------------------------------ MODULE DiskOutput ------------------------------
(***************************************************************************)
(* How util.rs writes the files it extracts or copies: the TapeOutput      *)
(* buffer used as a disk buffer (disk_buffered_write,                      *)
(* disk_empty_output_buffer), in which halfwords and bytes are swapped     *)
(* before it is written, and, with --sparse, sparse_write, which seeks     *)
(* over blocks of zeros and remembers in the static DELAYED_SEEK_COUNT the *)
(* part of a hole that it has not sought over yet.                         *)
(*                                                                         *)
(* A byte of a file is 0, or the number of its position when it is not     *)
(* zero: byte k of the file is k + 1 unless k is in zeros.                 *)
(***************************************************************************)
EXTENDS Integers, Sequences

CONSTANTS
  Block,      \* DISK_IO_BLOCK_SIZE, and DISKBLOCKSIZE of sparse_write
  MaxLen,     \* longest file considered
  Patterns,   \* where files have bytes that are zero
  MaxFiles    \* files written one after the other

Cells == 0 .. Block - 1

ASSUME DiskOutputAssumption ==
  /\ Block \in Nat \ {0}
  /\ Block % 4 = 0      \* words of four bytes, in which halves are swapped
  /\ MaxLen \in Nat
  /\ Patterns \subseteq SUBSET Nat
  /\ MaxFiles \in Nat

VARIABLES
  sparse, toStdout, seekable,  \* --sparse, --to-stdout and what stdout is
  swapHalfwords, swapBytes,    \* --swap-halfwords, --swap-bytes
  size, zeros,  \* the file to write: its size, and which bytes are zero
  halfwords, bytes,  \* set_swapping_halfwords, set_swapping_bytes
  disk,         \* the bytes of the file that is written
  pos,          \* offset of its descriptor
  fdOpen,       \* the descriptor is open
  buffer,       \* output_buffer
  outputSize,   \* output_size, equal to out_buff
  delayed,      \* DELAYED_SEEK_COUNT: it outlives the file
  copied,       \* bytes of the file handed to disk_buffered_write
  left,         \* bytes_left of its call
  files,        \* files opened
  phase,        \* "closed" or "copy"
  status

options == <<sparse, toStdout, seekable, swapHalfwords, swapBytes>>
swapping == <<halfwords, bytes>>
source == <<size, zeros, swapping, fdOpen, files>>
vars == <<options, source, disk, pos, buffer, outputSize, delayed, copied,
          left, phase, status>>

Running == status = "running"
Least(a, b) == IF a < b THEN a ELSE b
Space == Block - outputSize
Byte(k) == IF k \in zeros THEN 0 ELSE k + 1

Init ==
  /\ sparse \in BOOLEAN
  /\ toStdout \in BOOLEAN
  /\ seekable \in BOOLEAN
  /\ ~toStdout => seekable
  /\ swapHalfwords \in BOOLEAN
  /\ swapBytes \in BOOLEAN
  /\ halfwords = FALSE
  /\ bytes = FALSE
  /\ size = 0
  /\ zeros = {}
  /\ disk = << >>
  /\ pos = 0
  /\ fdOpen = toStdout
  /\ buffer = [i \in Cells |-> 0]
  /\ outputSize = 0
  /\ delayed = 0
  /\ copied = 0
  /\ left = 0
  /\ files = 0
  /\ phase = "closed"
  /\ status = "running"

-------------------------------------------------------------------------------
(* Swapping is set off at every header, and on for a file of whole words.  *)
SwapUntilEnd(n) ==  \* Mistake: it is not set off
  /\ halfwords' = (halfwords \/ (swapHalfwords /\ n % 4 = 0))
  /\ bytes' = (bytes \/ (swapBytes /\ n % 2 = 0))
SetSwapping(n) ==
  /\ halfwords' = (swapHalfwords /\ n % 4 = 0)
  /\ bytes' = (swapBytes /\ n % 2 = 0)

(* A new file: try_existing_file has removed one of the same name.  With   *)
(* --to-stdout descriptor 1 is taken as it is.                             *)
OpenFile(n, z) ==
  /\ Running
  /\ phase = "closed"
  /\ files < MaxFiles
  /\ size' = n
  /\ zeros' = z
  /\ SetSwapping(n)
  /\ disk' = << >>
  /\ pos' = 0
  /\ fdOpen' = (fdOpen \/ ~toStdout)
  /\ copied' = 0
  /\ files' = files + 1
  /\ phase' = "copy"
  /\ UNCHANGED <<options, buffer, outputSize, delayed, left, status>>

OpenFiles ==
  \E n \in 0 .. MaxLen : \E z \in Patterns : OpenFile(n, z \cap (0 .. n - 1))

(* The copy loops hand over what the input buffer has.                     *)
Request(n) ==
  /\ Running
  /\ phase = "copy"
  /\ left = 0
  /\ copied + n <= size
  /\ left' = n
  /\ UNCHANGED <<options, source, disk, pos, buffer, outputSize, delayed,
                 copied, phase, status>>

Requests == \E n \in 1 .. size - copied : Request(n)

Placed(n) ==
  [i \in Cells |-> IF outputSize <= i /\ i < outputSize + n
                   THEN Byte(copied + (i - outputSize)) ELSE buffer[i]]

Store ==
  LET n == Least(left, Space)
  IN  /\ Running
      /\ left > 0
      /\ Space > 0
      /\ buffer' = Placed(n)
      /\ outputSize' = outputSize + n
      /\ copied' = copied + n
      /\ left' = left - n
      /\ UNCHANGED <<options, source, disk, pos, delayed, phase, status>>

-------------------------------------------------------------------------------
(* swahw_array and swab_array, over the words, or halfwords, of what the   *)
(* buffer holds: the cell of which the byte comes to cell i                *)
OtherHalf(i) == IF i % 4 < 2 THEN i + 2 ELSE i - 2
OtherByte(i) == IF i % 2 = 0 THEN i + 1 ELSE i - 1

From(i) ==
  CASE halfwords /\ i < 4 * (outputSize \div 4) ->
         OtherHalf(IF bytes THEN OtherByte(i) ELSE i)
    [] ~halfwords /\ bytes /\ i < 2 * (outputSize \div 2) -> OtherByte(i)
    [] OTHER -> i

Swapped == [i \in Cells |-> buffer[From(i)]]

Chunk(n) == [k \in 1 .. n |-> Swapped[k - 1]]
FirstIsZero == outputSize = Block /\ Swapped[0] = 0  \* Mistake: one byte is looked at
AllZeros == outputSize = Block /\ \A i \in Cells : Swapped[i] = 0

(* write(2) at offset p: what lies between the end and p reads as zeros.   *)
Hole(p) == [k \in 1 .. p - Len(disk) |-> 0]
WriteAt(p, data) == disk \o Hole(p) \o data

(* One call of sparse_write; the buffer is never longer than a block, so   *)
(* that its loop runs once.  A whole block of zeros is only counted.  A    *)
(* flush ends the hole with a zero byte, so that the file gets its length. *)
SparseWrite(flush) ==
  LET hole == delayed + outputSize
  IN  \/ /\ AllZeros /\ ~flush
         /\ delayed' = hole
         /\ UNCHANGED <<disk, pos>>
      \/ /\ AllZeros /\ flush
         /\ fdOpen /\ seekable
         /\ disk' = WriteAt(pos + hole - 1, <<0>>)
         /\ pos' = pos + hole
         /\ delayed' = 0
      \/ /\ ~AllZeros /\ outputSize > 0
         /\ fdOpen
         /\ outputSize = Block \/ delayed # 0 => seekable
         /\ disk' = WriteAt(pos + delayed, Chunk(outputSize))
         /\ pos' = pos + hole
         /\ delayed' = 0
      \/ /\ outputSize = 0
         /\ flush /\ delayed # 0 => fdOpen /\ seekable
         /\ IF flush /\ delayed # 0
            THEN disk' = WriteAt(pos + delayed - 1, <<0>>)
                 /\ pos' = pos + delayed /\ delayed' = 0
            ELSE UNCHANGED <<disk, pos, delayed>>

PlainWrite ==
  /\ fdOpen
  /\ disk' = WriteAt(pos, Chunk(outputSize))
  /\ pos' = pos + outputSize
  /\ delayed' = delayed

Written(flush) == IF sparse THEN SparseWrite(flush) ELSE PlainWrite

(* A write or a seek fails.  write(..).unwrap() panics on an error and     *)
(* notices a short count; sparse_write reports an error as a short count.  *)
WriteRetried == UNCHANGED vars  \* Mistake: the loop tries again
WriteFails ==
  /\ \/ status' = "exit" /\ outputSize > 0
     \/ status' = "panic" /\ ~sparse
  /\ \/ UNCHANGED <<disk, pos>>
     \/ /\ fdOpen
        /\ \E n \in 1 .. outputSize - 1 :
             /\ disk' = WriteAt(pos + delayed, Chunk(n))
             /\ pos' = pos + delayed + n
  /\ buffer' = Swapped
  /\ UNCHANGED <<options, source, outputSize, delayed, copied, left, phase>>

(* disk_empty_output_buffer from disk_buffered_write                       *)
Empty ==
  /\ Running
  /\ left > 0
  /\ Space = 0
  /\ \/ /\ Written(FALSE)
        /\ buffer' = Swapped
        /\ outputSize' = 0
        /\ UNCHANGED <<options, source, copied, left, phase, status>>
     \/ WriteFails

(* disk_empty_output_buffer(.., true) after the copy; then the File that   *)
(* was opened for the output is dropped, and its descriptor closed.        *)
FlushAndClose ==
  /\ Running
  /\ phase = "copy"
  /\ left = 0
  /\ copied = size
  /\ \/ /\ Written(TRUE)
        /\ buffer' = Swapped
        /\ outputSize' = 0
        /\ fdOpen' = FALSE
        /\ phase' = "closed"
        /\ UNCHANGED <<options, size, zeros, swapping, files, copied, left, status>>
     \/ WriteFails

Iterate == Store \/ Empty \/ FlushAndClose

Next == OpenFiles \/ Requests \/ Iterate

Spec == Init /\ [][Next]_vars

(* The copy loops run until the file is copied.                            *)
FairSpec == Spec /\ WF_vars(Iterate) /\ WF_vars(Requests)

-------------------------------------------------------------------------------
TypeOK ==
  /\ sparse \in BOOLEAN
  /\ toStdout \in BOOLEAN
  /\ seekable \in BOOLEAN
  /\ swapHalfwords \in BOOLEAN
  /\ swapBytes \in BOOLEAN
  /\ halfwords \in BOOLEAN
  /\ bytes \in BOOLEAN
  /\ fdOpen \in BOOLEAN
  /\ size \in Nat
  /\ zeros \subseteq Nat
  /\ disk \in Seq(Nat)
  /\ pos \in Nat
  /\ buffer \in [Cells -> Nat]
  /\ outputSize \in 0 .. Block
  /\ delayed \in Nat
  /\ copied \in 0 .. size
  /\ left \in 0 .. size
  /\ files \in Nat
  /\ phase \in {"closed", "copy"}
  /\ status \in {"running", "exit", "panic"}

(* What the options ask for: the file of which the halves of each word, or *)
(* the bytes of each halfword, are exchanged, if it consists of such.      *)
Wanted(k) ==
  LET b == IF swapBytes /\ size % 2 = 0 THEN OtherByte(k) ELSE k
  IN  Byte(IF swapHalfwords /\ size % 4 = 0 THEN OtherHalf(b) ELSE b)

(* Between the end of the file and the first byte in the buffer there are  *)
(* only zeros, as many as DELAYED_SEEK_COUNT says: a block is not written  *)
(* twice, at another place, or left out where data and holes alternate,    *)
(* and swapping it buffer by buffer swaps the file.                        *)
DiskIsPrefix ==
  Running =>
    /\ pos = Len(disk)
    /\ pos + delayed + outputSize = copied
    /\ \A k \in 1 .. pos : disk[k] = Wanted(k - 1)
    /\ \A k \in pos .. pos + delayed - 1 : Wanted(k) = 0
    /\ \A i \in 0 .. outputSize - 1 : buffer[i] = Byte(pos + delayed + i)

(* A file that was closed has its whole length and content, also when it   *)
(* ends in a hole.                                                         *)
ClosedIsWhole ==
  Running /\ phase = "closed" =>
    /\ Len(disk) = size
    /\ \A k \in 1 .. size : disk[k] = Wanted(k - 1)

(* The static count and the buffer carry nothing from one file to the      *)
(* next, which would start behind a hole of its predecessor.               *)
NothingCarriedOver ==
  Running /\ phase = "closed" => delayed = 0 /\ outputSize = 0

(* The copy of a file ends.                                                *)
CopyEnds == phase = "copy" ~> (phase = "closed" \/ ~Running)

(* doc/cpio.md:379: --to-stdout extracts files to the standard output.     *)
(* Every file, the second one included, finds it open.                     *)
OutputOpen == phase = "copy" => fdOpen
===============================================================================
