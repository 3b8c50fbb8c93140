------------------------------ MODULE OutputTape ------------------------------
(***************************************************************************)
(* The output side of util.rs: the TapeOutput buffer of an archive that is *)
(* being written, its writer tape_buffered_write, and the way              *)
(* process_copy_out (copyout.rs) ends an archive: the rest of the block is *)
(* filled with nuls and the buffer is emptied a last time.                 *)
(*                                                                         *)
(* A byte handed to the writer is represented by its position in the       *)
(* stream of all the bytes handed to it, a padding byte by Nul.  A call is *)
(* a loop; every iteration is a step, because each may write to the file.  *)
(*                                                                         *)
(* TapeInit, tapeVars and so on are named so that a module can extend this *)
(* one together with Headers.                                              *)
(***************************************************************************)
EXTENDS Integers, Sequences

CONSTANTS
  IoBlock,     \* io_block_size, which is also output_buffer_size
  MaxLen,      \* longest stream considered
  MaxRequest   \* largest single request considered

Nul == -1
BufferCells == 0 .. IoBlock - 1

ASSUME OutputTapeAssumption ==
  /\ IoBlock \in Nat \ {0}
  /\ MaxLen \in Nat
  /\ MaxRequest \in Nat

VARIABLES
  file,         \* the bytes in the archive file
  buffer,       \* output_buffer
  outBuff,      \* out_buff
  outputSize,   \* output_size
  outputBytes,  \* output_bytes
  handed,       \* bytes of the stream handed to the writer so far
  padded,       \* nuls handed to it after the stream
  left,         \* bytes_left of the call that runs
  tapePhase,    \* "copy", then "pad", then "empty", then "done"
  status

tape == <<file, buffer, outBuff, outputSize, outputBytes>>
tapeVars == <<tape, handed, padded, left, tapePhase, status>>

Running == status = "running"
Least(a, b) == IF a < b THEN a ELSE b
SpaceShort == IoBlock - 1 - outputSize       \* Mistake: a block is one short
Space == IoBlock - outputSize

TapeInit ==
  /\ file = << >>
  /\ buffer = [i \in BufferCells |-> Nul]
  /\ outBuff = 0
  /\ outputSize = 0
  /\ outputBytes = 0
  /\ handed = 0
  /\ padded = 0
  /\ left = 0
  /\ tapePhase = "copy"
  /\ status = "running"

-------------------------------------------------------------------------------
(* process_copy_out writes a header, a piece of a file or an alignment.    *)
Request(n) ==
  /\ Running
  /\ tapePhase = "copy"
  /\ left = 0
  /\ handed + n <= MaxLen
  /\ left' = n
  /\ UNCHANGED <<tape, handed, padded, tapePhase, status>>

Requests == \E n \in 1 .. MaxRequest : Request(n)

(* One iteration of tape_buffered_write that has room: the next bytes of   *)
(* the request, or nuls when write_nuls_to_file makes the call.            *)
NextByte(k) == IF tapePhase = "copy" THEN handed + k ELSE Nul

PlacedAtStart(n) ==  \* Mistake: out_buff is ignored
  [i \in BufferCells |-> IF i < n THEN NextByte(i) ELSE buffer[i]]

Placed(n) ==
  [i \in BufferCells |-> IF outBuff <= i /\ i < outBuff + n
                         THEN NextByte(i - outBuff) ELSE buffer[i]]

PieceShort == Least(left, Space - 1)  \* Mistake: the last cell is never used
Piece == Least(left, Space)

Store ==
  LET n == Piece
  IN  /\ Running
      /\ left > 0
      /\ Space > 0
      /\ buffer' = Placed(n)
      /\ outBuff' = outBuff + n
      /\ outputSize' = outputSize + n
      /\ left' = left - n
      /\ IF tapePhase = "copy"
         THEN handed' = handed + n /\ padded' = padded
         ELSE padded' = padded + n /\ handed' = handed
      /\ UNCHANGED <<file, outputBytes, tapePhase, status>>

(* tape_empty_output_buffer.  rmtwrite may write less than it was given:   *)
(* then the process ends, at once or in get_next_reel.                     *)
Written(n) == [k \in 1 .. n |-> buffer[k - 1]]

Emptied ==
  /\ file' = file \o Written(outputSize)
  /\ outputBytes' = outputBytes + outputSize
  /\ outBuff' = 0
  /\ outputSize' = 0
  /\ UNCHANGED <<buffer, handed, padded, left, status>>

ShortWrite ==
  /\ \E n \in 0 .. outputSize - 1 : file' = file \o Written(n)
  /\ status' = "exit"
  /\ UNCHANGED <<buffer, outBuff, outputSize, outputBytes, handed, padded, left, tapePhase>>

Empty ==
  /\ Running
  /\ left > 0
  /\ Space = 0
  /\ \/ Emptied /\ tapePhase' = tapePhase
     \/ ShortWrite

(* The trailer has been written: tape_clear_rest_of_block, and then the    *)
(* last tape_empty_output_buffer.                                          *)
ClearRestOfBlock ==
  /\ Running
  /\ tapePhase = "copy"
  /\ left = 0
  /\ handed > 0
  /\ tapePhase' = "pad"
  /\ left' = Space
  /\ UNCHANGED <<tape, handed, padded, status>>

ClearedIsDone ==  \* Mistake: the last block stays in the buffer
  /\ Running
  /\ tapePhase = "pad"
  /\ left = 0
  /\ tapePhase' = "done"
  /\ UNCHANGED <<tape, handed, padded, left, status>>

Cleared ==
  /\ Running
  /\ tapePhase = "pad"
  /\ left = 0
  /\ tapePhase' = "empty"
  /\ UNCHANGED <<tape, handed, padded, left, status>>

LastEmpty ==
  /\ Running
  /\ tapePhase = "empty"
  /\ \/ Emptied /\ tapePhase' = "done"
     \/ outputSize > 0 /\ ShortWrite

Iterate == Store \/ Empty \/ Cleared \/ LastEmpty

TapeNext == Requests \/ ClearRestOfBlock \/ Iterate

TapeSpec == TapeInit /\ [][TapeNext]_tapeVars

(* The writer is a loop of a running program: it goes on until it returns. *)
FairTapeSpec == TapeSpec /\ WF_tapeVars(Iterate)

-------------------------------------------------------------------------------
TapeTypeOK ==
  /\ file \in Seq(Nat \cup {Nul})
  /\ buffer \in [BufferCells -> Nat \cup {Nul}]
  /\ outBuff \in 0 .. IoBlock
  /\ outputSize \in 0 .. IoBlock
  /\ outputBytes \in Nat
  /\ handed \in Nat
  /\ padded \in Nat
  /\ left \in Nat
  /\ tapePhase \in {"copy", "pad", "empty", "done"}
  /\ status \in {"running", "exit"}

Streamed(k) == IF k < handed THEN k ELSE Nul

(* The file followed by the buffer is the stream handed to the writer and  *)
(* its padding: no byte is lost, repeated or moved where a request crosses *)
(* the end of a block, and a failed write leaves a prefix of the stream.   *)
FileIsStream ==
  /\ \A k \in 1 .. Len(file) : file[k] = Streamed(k - 1)
  /\ Running =>
       /\ Len(file) + outputSize = handed + padded
       /\ \A i \in 0 .. outputSize - 1 : buffer[i] = Streamed(Len(file) + i)

(* A tape is written in whole blocks, and the count of blocks printed at   *)
(* the end, computed from output_bytes, is the length of the file.         *)
WholeBlocks ==
  Running => /\ outputBytes = Len(file)
             /\ \E n \in 0 .. Len(file) : Len(file) = n * IoBlock

(* A finished archive holds the whole stream and less than one block of    *)
(* padding: a buffer that the trailer filled exactly gets no block of nuls *)
(* of its own, and one that it filled in part is not left behind.          *)
DoneIsPadded ==
  tapePhase = "done" =>
    /\ Len(file) = handed + padded
    /\ padded < IoBlock

(* A call of the writer returns, also when its request spans several       *)
(* blocks, and an archive whose trailer is written is finished, or the     *)
(* process ends with a message.                                            *)
CallsReturn ==
  /\ left > 0 ~> (left = 0 \/ ~Running)
  /\ tapePhase = "pad" ~> (tapePhase = "done" \/ ~Running)
===============================================================================
