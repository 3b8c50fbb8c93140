---------------------------- MODULE ArchiveProofs ----------------------------
(***************************************************************************)
(* What holds of an archive, for every width of its fields, every list of  *)
(* files and every block size.                                             *)
(*                                                                         *)
(* First its bytes: the archive file is the stream that was written, in    *)
(* whole blocks, and a finished archive is padded by less than a block     *)
(* (OutputTape).                                                           *)
(*                                                                         *)
(* Then its headers (Headers): the loops of to_ascii and from_ascii, what  *)
(* is read of a header that was written, where the headers are in the      *)
(* archive (Layout), which files and which inode numbers they are of       *)
(* (WrittenHeaders, Numbered) and what has been read of them (Reading).    *)
(* ArchiveInv says all that of a state.                                    *)
(***************************************************************************)
EXTENDS Headers, OutputTape, SequenceTheorems, FiniteSetTheorems, WellFoundedInduction, TLAPS

LEMMA Appending ==
  ASSUME NEW S, NEW s \in Seq(S), NEW t \in Seq(S)
  PROVE  /\ s \o t \in Seq(S)
         /\ Len(s \o t) = Len(s) + Len(t)
         /\ \A k \in 1 .. Len(s) : (s \o t)[k] = s[k]
         /\ \A k \in 1 .. Len(t) : (s \o t)[Len(s) + k] = t[k]
<1>1. /\ s \o t \in Seq(S)
      /\ Len(s \o t) = Len(s) + Len(t)
      /\ \A i \in 1 .. Len(s) + Len(t) :
            (s \o t)[i] = IF i <= Len(s) THEN s[i] ELSE t[i - Len(s)]
  BY ConcatProperties
<1>2. \A k \in 1 .. Len(t) : (s \o t)[Len(s) + k] = t[k]
  <2> SUFFICES ASSUME NEW k \in 1 .. Len(t) PROVE (s \o t)[Len(s) + k] = t[k]
    OBVIOUS
  <2>1. /\ Len(s) + k \in 1 .. Len(s) + Len(t)
        /\ ~(Len(s) + k <= Len(s))
        /\ (Len(s) + k) - Len(s) = k
    OBVIOUS
  <2>2. QED
    BY <1>1, <2>1
<1>3. QED
  BY <1>1, <1>2

(* What tape_buffered_write leaves between its iterations: it empties a    *)
(* full buffer only when it has a byte to put in it, so that a call leaves *)
(* a byte in the buffer, and the padding fills the last block exactly.     *)
TapeBookkeeping ==
  Running =>
    /\ outBuff = outputSize
    /\ tapePhase = "copy" => padded = 0
    /\ tapePhase = "copy" /\ outputSize = 0 => left > 0 \/ handed = 0
    /\ tapePhase = "pad" => outputSize + left = IoBlock /\ padded + left < IoBlock
    /\ tapePhase = "empty" => outputSize = IoBlock /\ padded < IoBlock /\ left = 0
    /\ tapePhase = "done" => left = 0 /\ outputSize = 0

TapeInv == TapeTypeOK /\ FileIsStream /\ WholeBlocks /\ DoneIsPadded /\ TapeBookkeeping

-------------------------------------------------------------------------------
LEMMA InitTapeInv == TapeInit => TapeInv
<1> SUFFICES ASSUME TapeInit PROVE TapeInv
  OBVIOUS
<1> USE OutputTapeAssumption
<1>1. TapeTypeOK
  BY DEF TapeInit, TapeTypeOK, BufferCells, Nul
<1>2. FileIsStream /\ DoneIsPadded /\ TapeBookkeeping
  BY DEF TapeInit, FileIsStream, DoneIsPadded, TapeBookkeeping
<1>3. WholeBlocks
  <2>1. 0 \in 0 .. Len(file) /\ Len(file) = 0 * IoBlock /\ outputBytes = Len(file)
    BY DEF TapeInit
  <2>2. QED
    BY <2>1 DEF WholeBlocks
<1>4. QED
  BY <1>1, <1>2, <1>3 DEF TapeInv

(* What rmtwrite appends to the file, whether it writes the whole buffer   *)
(* or a part of it: the next bytes of the stream.                          *)
LEMMA AppendedIsStream ==
  ASSUME TapeTypeOK, FileIsStream, Running, NEW n \in 0 .. outputSize,
         file' = file \o Written(n), handed' = handed
  PROVE  /\ file' \in Seq(Nat \cup {Nul})
         /\ Len(file') = Len(file) + n
         /\ \A k \in 1 .. Len(file) : file'[k] = file[k]
         /\ \A k \in 1 .. Len(file') : file'[k] = Streamed(k - 1)'
<1> USE OutputTapeAssumption
<1>1. \A k \in 1 .. n : k - 1 \in BufferCells
  BY DEF TapeTypeOK, BufferCells
<1>2. Written(n) \in Seq(Nat \cup {Nul})
  BY <1>1 DEF Written, TapeTypeOK
<1>3. file \in Seq(Nat \cup {Nul}) /\ Len(Written(n)) = n /\ n \in Nat
      /\ file' = file \o Written(n)
  BY <1>2 DEF Written, TapeTypeOK
<1>4. /\ file' \in Seq(Nat \cup {Nul})
      /\ Len(file') = Len(file) + n
      /\ \A k \in 1 .. Len(file) : file'[k] = file[k]
      /\ \A k \in 1 .. n : file'[Len(file) + k] = Written(n)[k]
  <2> DEFINE S == Nat \cup {Nul}
  <2>1. PICK f \in Seq(S), w \in Seq(S) : f = file /\ w = Written(n)
    BY <1>2, <1>3
  <2> HIDE DEF S
  <2>2. /\ f \o w \in Seq(S) /\ Len(f \o w) = Len(f) + Len(w)
        /\ \A k \in 1 .. Len(f) : (f \o w)[k] = f[k]
        /\ \A k \in 1 .. Len(w) : (f \o w)[Len(f) + k] = w[k]
    BY Appending
  <2>3. Len(w) = n /\ file' = f \o w
    BY <1>3, <2>1
  <2> QED BY <2>1, <2>2, <2>3, Zenon DEF S
<1>5. ASSUME NEW k \in 1 .. Len(file')
      PROVE  file'[k] = Streamed(k - 1)'
  <2>1. CASE k <= Len(file)
    BY <1>4, <2>1 DEF FileIsStream, Streamed
  <2>2. CASE k > Len(file)
    <3>1. PICK j \in 1 .. n : k = Len(file) + j
      <4>1. k - Len(file) \in 1 .. n /\ k = Len(file) + (k - Len(file))
        BY <1>3, <1>4, <1>5, <2>2
      <4>2. QED
        BY <4>1
    <3>2. file'[k] = buffer[j - 1]
      BY <1>3, <1>4, <3>1 DEF Written
    <3>3. j - 1 \in 0 .. outputSize - 1 /\ Len(file) + (j - 1) = k - 1
      BY <1>3, <3>1 DEF TapeTypeOK
    <3>4. buffer[j - 1] = Streamed(k - 1)
      BY <3>3 DEF FileIsStream
    <3>5. QED
      BY <3>2, <3>4 DEF Streamed
  <2>3. QED
    BY <1>3, <1>4, <2>1, <2>2
<1>6. QED
  BY <1>4, <1>5

(* A write that falls short ends the process and leaves a prefix.          *)
LEMMA ShortWriteKeepsTapeInv ==
  ASSUME TapeInv, Running, ShortWrite
  PROVE  TapeInv'
<1> USE OutputTapeAssumption
<1>1. PICK n \in 0 .. outputSize - 1 : file' = file \o Written(n)
  BY DEF ShortWrite
<1>2. n \in 0 .. outputSize
  BY <1>1 DEF TapeInv, TapeTypeOK
<1>3. /\ file' \in Seq(Nat \cup {Nul})
      /\ \A k \in 1 .. Len(file') : file'[k] = Streamed(k - 1)'
  BY <1>1, <1>2, AppendedIsStream DEF TapeInv, ShortWrite
<1>4. TapeTypeOK'
  BY <1>3 DEF TapeInv, TapeTypeOK, ShortWrite, BufferCells
<1>5. FileIsStream' /\ WholeBlocks' /\ TapeBookkeeping'
  BY <1>3 DEF FileIsStream, WholeBlocks, TapeBookkeeping, ShortWrite, Running
<1>6. tapePhase # "done"
  BY DEF TapeInv, TapeBookkeeping, ShortWrite, TapeTypeOK
<1>7. DoneIsPadded'
  BY <1>6 DEF DoneIsPadded, ShortWrite
<1>8. QED
  BY <1>4, <1>5, <1>7 DEF TapeInv

(* A buffer written in full adds a block to the file.                      *)
LEMMA EmptiedFile ==
  ASSUME TapeInv, Running, Emptied, outputSize = IoBlock
  PROVE  /\ file' \in Seq(Nat \cup {Nul})
         /\ Len(file') = Len(file) + IoBlock
         /\ \A k \in 1 .. Len(file) : file'[k] = file[k]
         /\ FileIsStream'
         /\ WholeBlocks'
<1> USE OutputTapeAssumption
<1>1. /\ file' \in Seq(Nat \cup {Nul})
      /\ Len(file') = Len(file) + IoBlock
      /\ \A k \in 1 .. Len(file) : file'[k] = file[k]
      /\ \A k \in 1 .. Len(file') : file'[k] = Streamed(k - 1)'
  <2>1. outputSize \in 0 .. outputSize /\ file' = file \o Written(outputSize)
    BY DEF TapeInv, TapeTypeOK, Emptied
  <2>2. QED
    BY <2>1, AppendedIsStream DEF TapeInv, Emptied
<1>2. Len(file) \in Nat
  BY DEF TapeInv, TapeTypeOK
<1>3. FileIsStream'
  <2>1. Len(file) + outputSize = handed + padded
    BY DEF TapeInv, FileIsStream
  <2>2. Len(file') + outputSize' = handed' + padded'
    BY <1>1, <1>2, <2>1 DEF Emptied
  <2>3. \A i \in 0 .. outputSize' - 1 : buffer'[i] = Streamed(Len(file) + i)'
    BY DEF Emptied
  <2>4. QED
    BY <1>1, <2>2 DEF FileIsStream, Emptied
<1>4. WholeBlocks'
  <2>1. PICK n \in 0 .. Len(file) : Len(file) = n * IoBlock
    BY DEF TapeInv, WholeBlocks
  <2>2. n + 1 \in 0 .. Len(file') /\ Len(file') = (n + 1) * IoBlock
    <3>1. (n + 1) * IoBlock = n * IoBlock + IoBlock
      BY <2>1
    <3>2. Len(file') = (n + 1) * IoBlock
      BY <1>1, <2>1, <3>1
    <3>3. n + 1 \in 0 .. Len(file')
      <4>1. n \in Nat /\ n <= Len(file) /\ IoBlock \in Nat /\ IoBlock >= 1
        BY <1>2, <2>1
      <4>2. QED
        BY <1>1, <1>2, <4>1
    <3>4. QED
      BY <3>2, <3>3
  <2>3. outputBytes' = Len(file')
    BY <1>1 DEF Emptied, TapeInv, WholeBlocks
  <2>4. QED
    BY <2>2, <2>3 DEF WholeBlocks
<1>5. QED
  BY <1>1, <1>3, <1>4

LEMMA EmptyKeepsTapeInv ==
  ASSUME TapeInv, Empty
  PROVE  TapeInv'
<1> USE OutputTapeAssumption
<1>1. CASE ShortWrite
  BY <1>1, ShortWriteKeepsTapeInv DEF Empty
<1>2. CASE Emptied /\ tapePhase' = tapePhase
  <2>1. Running /\ outputSize = IoBlock /\ left > 0 /\ Emptied
    BY <1>2 DEF Empty, Space, TapeInv, TapeTypeOK
  <2>2. file' \in Seq(Nat \cup {Nul}) /\ FileIsStream' /\ WholeBlocks'
    BY <2>1, EmptiedFile
  <2>3. TapeTypeOK'
    BY <1>2, <2>2 DEF TapeInv, TapeTypeOK, Emptied, BufferCells
  <2>4. tapePhase = "copy"
    BY <2>1 DEF TapeInv, TapeBookkeeping, TapeTypeOK
  <2>5. TapeBookkeeping'
    BY <1>2, <2>1, <2>4 DEF TapeInv, TapeBookkeeping, Emptied, Running
  <2>6. DoneIsPadded'
    BY <1>2, <2>4 DEF DoneIsPadded
  <2>7. QED
    BY <2>2, <2>3, <2>5, <2>6 DEF TapeInv
<1>3. QED
  BY <1>1, <1>2 DEF Empty

LEMMA LastEmptyKeepsTapeInv ==
  ASSUME TapeInv, LastEmpty
  PROVE  TapeInv'
<1> USE OutputTapeAssumption
<1>1. CASE ShortWrite
  BY <1>1, ShortWriteKeepsTapeInv DEF LastEmpty
<1>2. CASE Emptied /\ tapePhase' = "done"
  <2>1. Running /\ outputSize = IoBlock /\ Emptied
    BY <1>2 DEF LastEmpty, TapeInv, TapeBookkeeping
  <2>2. /\ file' \in Seq(Nat \cup {Nul})
        /\ Len(file') = Len(file) + IoBlock
        /\ FileIsStream' /\ WholeBlocks'
    BY <2>1, EmptiedFile
  <2>3. TapeTypeOK'
    BY <1>2, <2>2 DEF TapeInv, TapeTypeOK, Emptied, BufferCells
  <2>4. TapeBookkeeping'
    BY <1>2, <2>1 DEF TapeInv, TapeBookkeeping, Emptied, Running, LastEmpty
  <2>5. DoneIsPadded'
    <3>1. Len(file) + IoBlock = handed + padded /\ padded < IoBlock
      BY <2>1 DEF TapeInv, FileIsStream, TapeBookkeeping, LastEmpty
    <3>2. handed' = handed /\ padded' = padded
      BY <2>1 DEF Emptied
    <3>3. Len(file') = handed' + padded' /\ padded' < IoBlock
      BY <2>2, <3>1, <3>2
    <3>4. QED
      BY <3>3 DEF DoneIsPadded
  <2>6. QED
    BY <2>2, <2>3, <2>4, <2>5 DEF TapeInv
<1>3. QED
  BY <1>1, <1>2 DEF LastEmpty

(* The bytes put in the buffer continue the stream.                        *)
LEMMA StoreKeepsTapeInv ==
  ASSUME TapeInv, Store
  PROVE  TapeInv'
<1> USE OutputTapeAssumption
<1> DEFINE n == Least(left, Space)
<1>1. /\ n \in Nat /\ n > 0 /\ n <= left /\ n <= IoBlock - outputSize
      /\ n = left \/ n = IoBlock - outputSize
  BY DEF Store, Piece, Least, Space, TapeInv, TapeTypeOK
<1>2. /\ Running /\ left > 0 /\ buffer' = Placed(n)
      /\ outBuff' = outBuff + n /\ outputSize' = outputSize + n /\ left' = left - n
      /\ file' = file /\ outputBytes' = outputBytes /\ tapePhase' = tapePhase /\ status' = status
      /\ tapePhase = "copy" => handed' = handed + n /\ padded' = padded
      /\ tapePhase # "copy" => padded' = padded + n /\ handed' = handed
  BY DEF Store, Piece
<1>3. /\ outBuff = outputSize /\ Len(file) + outputSize = handed + padded
      /\ tapePhase = "copy" => padded = 0
      /\ tapePhase \in {"copy", "pad"}
      /\ Len(file) \in Nat /\ handed \in Nat /\ padded \in Nat /\ outputSize \in Nat
  BY <1>2 DEF TapeInv, TapeBookkeeping, FileIsStream, TapeTypeOK
<1> HIDE DEF n
<1>4. TapeTypeOK'
  <2>1. Placed(n) \in [BufferCells -> Nat \cup {Nul}]
    BY <1>1, <1>3 DEF Placed, NextByte, TapeInv, TapeTypeOK, BufferCells
  <2>2. QED
    BY <1>1, <1>2, <1>3, <2>1 DEF TapeInv, TapeTypeOK, BufferCells
<1>5. FileIsStream'
  <2>1. Len(file') + outputSize' = handed' + padded'
    BY <1>1, <1>2, <1>3
  <2>2. ASSUME NEW k \in 1 .. Len(file)
        PROVE  file[k] = Streamed(k - 1)'
    <3>1. file[k] = Streamed(k - 1)
      BY DEF TapeInv, FileIsStream
    <3>2. CASE tapePhase = "copy"
      <4>1. k - 1 < handed /\ k - 1 < handed'
        BY <1>1, <1>2, <1>3, <3>2
      <4>2. QED
        BY <3>1, <4>1 DEF Streamed
    <3>3. CASE tapePhase = "pad"
      BY <1>2, <3>1, <3>3 DEF Streamed
    <3>4. QED
      BY <1>3, <3>2, <3>3
  <2>3. ASSUME NEW i \in 0 .. outputSize' - 1
        PROVE  buffer'[i] = Streamed(Len(file) + i)'
    <3>1. i \in BufferCells /\ buffer'[i] = IF outputSize <= i THEN NextByte(i - outBuff) ELSE buffer[i]
      BY <1>1, <1>2, <1>3, <2>3 DEF Placed, BufferCells, TapeInv, TapeTypeOK
    <3>2. i < outputSize => buffer[i] = Streamed(Len(file) + i)
      BY <1>2, <1>3, <2>3 DEF TapeInv, FileIsStream
    <3>. DEFINE at == Len(file) + i
    <3>0. Streamed(Len(file) + i)' = (IF at < handed' THEN at ELSE Nul)
      BY <1>2 DEF Streamed
    <3>. HIDE DEF at
    <3>3. CASE tapePhase = "copy"
      <4>1. /\ at < handed'
            /\ i < outputSize => at < handed
            /\ handed + (i - outBuff) = at
        BY <1>1, <1>2, <1>3, <2>3, <3>3 DEF at
      <4>2. buffer'[i] = at
        <5>1. CASE outputSize <= i
          BY <3>1, <3>3, <4>1, <5>1 DEF NextByte
        <5>2. CASE i < outputSize
          BY <1>3, <2>3, <3>1, <3>2, <4>1, <5>2 DEF Streamed, at
        <5>3. QED
          BY <1>3, <2>3, <5>1, <5>2
      <4>3. QED
        BY <3>0, <4>1, <4>2
    <3>4. CASE tapePhase = "pad"
      <4>1. handed' = handed /\ (outputSize <= i => ~(at < handed))
        BY <1>1, <1>2, <1>3, <2>3, <3>4 DEF at
      <4>2. CASE outputSize <= i
        BY <3>0, <3>1, <3>4, <4>1, <4>2 DEF NextByte
      <4>3. CASE i < outputSize
        BY <1>3, <2>3, <3>0, <3>1, <3>2, <4>1, <4>3 DEF Streamed, at
      <4>4. QED
        BY <1>3, <2>3, <4>2, <4>3
    <3>5. QED
      BY <1>3, <3>3, <3>4
  <2>4. QED
    BY <1>2, <2>1, <2>2, <2>3 DEF FileIsStream
<1>6. WholeBlocks'
  BY <1>2 DEF TapeInv, WholeBlocks, Running
<1>7. DoneIsPadded'
  BY <1>2, <1>3 DEF DoneIsPadded
<1>8. TapeBookkeeping'
  <2>1. tapePhase = "pad" => outputSize + left = IoBlock /\ padded + left < IoBlock
    BY <1>2 DEF TapeInv, TapeBookkeeping
  <2>2. left \in Nat
    BY DEF TapeInv, TapeTypeOK
  <2>3. QED
    BY <1>1, <1>2, <1>3, <2>1, <2>2 DEF TapeBookkeeping
<1>9. QED
  BY <1>4, <1>5, <1>6, <1>7, <1>8 DEF TapeInv

(* The other steps change neither the file nor the buffer.                 *)
LEMMA PhaseStepKeepsTapeInv ==
  ASSUME TapeInv, Requests \/ ClearRestOfBlock \/ Cleared
  PROVE  TapeInv'
<1> USE OutputTapeAssumption
<1>1. Running /\ left = 0 /\ UNCHANGED <<tape, handed, padded, status>>
  BY DEF Requests, Request, ClearRestOfBlock, Cleared
<1>2. FileIsStream' /\ WholeBlocks'
  BY <1>1 DEF TapeInv, FileIsStream, WholeBlocks, Streamed, Running, tape
<1>3. /\ tapePhase # "done" /\ tapePhase' # "done" /\ tapePhase' \in {"copy", "pad", "empty"}
      /\ left' \in Nat
  BY DEF Requests, Request, ClearRestOfBlock, Cleared, Space, TapeInv, TapeTypeOK
<1>4. TapeTypeOK' /\ DoneIsPadded'
  BY <1>1, <1>3 DEF TapeInv, TapeTypeOK, DoneIsPadded, tape, BufferCells
<1>5. TapeBookkeeping'
  <2>1. CASE Requests
    BY <1>1, <2>1 DEF Requests, Request, TapeInv, TapeBookkeeping, Running, tape
  <2>2. CASE ClearRestOfBlock
    BY <1>1, <2>2 DEF ClearRestOfBlock, Space, TapeInv, TapeTypeOK, TapeBookkeeping, Running, tape
  <2>3. CASE Cleared
    BY <1>1, <2>3 DEF Cleared, TapeInv, TapeTypeOK, TapeBookkeeping, Running, tape
  <2>4. QED
    BY <2>1, <2>2, <2>3
<1>6. QED
  BY <1>2, <1>4, <1>5 DEF TapeInv

LEMMA StepKeepsTapeInv == TapeInv /\ [TapeNext]_tapeVars => TapeInv'
<1> SUFFICES ASSUME TapeInv, [TapeNext]_tapeVars PROVE TapeInv'
  OBVIOUS
<1>1. CASE Store
  BY <1>1, StoreKeepsTapeInv
<1>2. CASE Empty
  BY <1>2, EmptyKeepsTapeInv
<1>3. CASE LastEmpty
  BY <1>3, LastEmptyKeepsTapeInv
<1>4. CASE Requests \/ ClearRestOfBlock \/ Cleared
  BY <1>4, PhaseStepKeepsTapeInv
<1>5. CASE UNCHANGED tapeVars
  BY <1>5 DEF tapeVars, tape, TapeInv, TapeTypeOK, FileIsStream, WholeBlocks, DoneIsPadded,
              TapeBookkeeping, Streamed, Running, BufferCells
<1>6. QED
  BY <1>1, <1>2, <1>3, <1>4, <1>5 DEF TapeNext, Iterate

-------------------------------------------------------------------------------
(* For every block size and every sequence of requests the archive file    *)
(* and the buffer hold the stream that tape_buffered_write was given, the  *)
(* file grows in whole blocks, and the end of process_copy_out pads it by  *)
(* less than a block.                                                      *)
THEOREM OutputTapeInvariant ==
  TapeSpec => [](TapeTypeOK /\ FileIsStream /\ WholeBlocks /\ DoneIsPadded)
<1>1. TapeInv => TapeTypeOK /\ FileIsStream /\ WholeBlocks /\ DoneIsPadded
  BY DEF TapeInv
<1>2. QED
  BY InitTapeInv, StepKeepsTapeInv, <1>1, PTL DEF TapeSpec

(* The archive file always ends at the border of a block.                  *)
THEOREM OutputBlocksAreWhole == TapeSpec => []WholeBlocks
<1>1. TapeTypeOK /\ FileIsStream /\ WholeBlocks /\ DoneIsPadded => WholeBlocks
  OBVIOUS
<1>2. QED
  BY OutputTapeInvariant, <1>1, PTL

(* What the end of the archive adds is less than a block of zeros.         *)
THEOREM OutputEndIsPadded == TapeSpec => []DoneIsPadded
<1>1. TapeTypeOK /\ FileIsStream /\ WholeBlocks /\ DoneIsPadded => DoneIsPadded
  OBVIOUS
<1>2. QED
  BY OutputTapeInvariant, <1>1, PTL

(* Induction on the natural numbers, as the existence of a least one.      *)
LEMMA LeastNatural ==
  ASSUME NEW T, T \subseteq Nat, T # {}
  PROVE  \E m \in T : \A k \in T : m <= k
<1> DEFINE R == OpToRel(<, Nat)
<1>1. IsWellFoundedOn(R, Nat)
  BY NatLessThanWellFounded
<1>2. \A k, m \in Nat : <<k, m>> \in R <=> k < m
  BY DEF OpToRel
<1> HIDE DEF R
<1>3. PICK m \in T : \A k \in T : <<k, m>> \notin R
  BY <1>1, WFMin
<1>4. SUFFICES ASSUME NEW k \in T PROVE m <= k
  BY <1>3
<1>5. ~(k < m)
  BY <1>2, <1>3
<1>6. k \in Nat /\ m \in Nat
  OBVIOUS
<1>7. QED
  BY <1>5, <1>6

(* What holds of 0 and goes from each number up to n to the next one holds *)
(* of all of them: T is the set of those of which it holds.                *)
LEMMA UpTo ==
  ASSUME NEW n \in Nat, NEW T, 0 \in T,
         \A k \in 1 .. n : k - 1 \in T => k \in T
  PROVE  \A k \in 0 .. n : k \in T
<1> DEFINE Wrong == {k \in 0 .. n : k \notin T}
<1>1. SUFFICES ASSUME Wrong # {} PROVE FALSE
  OBVIOUS
<1>2. Wrong \subseteq Nat
  OBVIOUS
<1>3. PICK m \in Wrong : \A k \in Wrong : m <= k
  BY <1>1, <1>2, LeastNatural, Zenon
<1>4. m \in 1 .. n /\ m \notin T
  OBVIOUS
<1>5. m - 1 \in 0 .. n /\ m - 1 \notin Wrong
  BY <1>3, <1>4
<1>6. QED
  BY <1>4, <1>5

(* A loop of n turns, of which the k-th takes x to F[k][x], has its values. *)
Loop(w, F, a, m) == w = [k \in 0 .. m |-> IF k = 0 THEN a ELSE F[k][w[k - 1]]]

LEMMA LoopExists ==
  ASSUME NEW n \in Nat, NEW F, NEW a
  PROVE  \E w : Loop(w, F, a, n)
<1> DEFINE T == {m \in 0 .. n : \E w : Loop(w, F, a, m)}
<1>1. 0 \in T
  <2>1. PICK w : w = [k \in 0 .. 0 |-> a]
    OBVIOUS
  <2>2. w = [k \in 0 .. 0 |-> IF k = 0 THEN a ELSE F[k][w[k - 1]]]
    BY <2>1
  <2> QED BY <2>2 DEF Loop
<1>2. ASSUME NEW m \in 1 .. n, m - 1 \in T PROVE m \in T
  <2>1. PICK v : Loop(v, F, a, m - 1)
    BY <1>2
  <2>2. v = [k \in 0 .. m - 1 |-> IF k = 0 THEN a ELSE F[k][v[k - 1]]]
    BY <2>1 DEF Loop
  <2>3. PICK w : w = [k \in 0 .. m |-> IF k = m THEN F[m][v[m - 1]] ELSE v[k]]
    OBVIOUS
  <2>4. ASSUME NEW k \in 0 .. m PROVE w[k] = IF k = 0 THEN a ELSE F[k][w[k - 1]]
    <3>1. CASE k = 0
      <4>1. w[k] = v[k] /\ 0 \in 0 .. m - 1
        BY <2>3, <3>1
      <4> QED BY <2>2, <3>1, <4>1
    <3>2. CASE k \in 1 .. m - 1
      <4>1. w[k] = v[k] /\ w[k - 1] = v[k - 1] /\ k \in 0 .. m - 1 /\ k # 0
        BY <2>3, <3>2
      <4>2. v[k] = IF k = 0 THEN a ELSE F[k][v[k - 1]]
        BY <2>2, <4>1
      <4> QED BY <4>1, <4>2
    <3>3. CASE k = m
      <4>1. w[k] = F[m][v[m - 1]] /\ w[m - 1] = v[m - 1]
        BY <2>3, <3>3
      <4> QED BY <3>3, <4>1
    <3> QED BY <3>1, <3>2, <3>3
  <2>5. w = [k \in 0 .. m |-> w[k]]
    BY <2>3
  <2>6. [k \in 0 .. m |-> w[k]] = [k \in 0 .. m |-> IF k = 0 THEN a ELSE F[k][w[k - 1]]]
    BY <2>4
  <2>7. Loop(w, F, a, m)
    BY <2>5, <2>6 DEF Loop
  <2> QED BY <2>7
<1> HIDE DEF T
<1>3. \A m \in 0 .. n : m \in T
  BY <1>1, <1>2, UpTo
<1>4. n \in T
  BY <1>3
<1> QED BY <1>4 DEF T

-------------------------------------------------------------------------------
(* Division                                                                *)
LEMMA Division ==
  ASSUME NEW x \in Nat, NEW b \in Nat, b > 0
  PROVE  /\ x \div b \in Nat /\ x % b \in 0 .. b - 1
         /\ (x \div b) * b + (x % b) = x
OBVIOUS

LEMMA Products ==
  ASSUME NEW x \in Nat, NEW y \in Nat
  PROVE  x * y \in Nat
OBVIOUS

LEMMA Multiples ==
  ASSUME NEW q \in Nat, NEW p \in Nat, NEW b \in Nat, q >= p
  PROVE  q * b >= p * b
OBVIOUS

LEMMA QuotientBelow ==
  ASSUME NEW x \in Nat, NEW b \in Nat, b > 0, NEW p \in Nat, x < b * p
  PROVE  x \div b < p
<1>1. (x \div b) * b + (x % b) = x /\ x \div b \in Nat /\ x % b \in Nat
  BY Division
<1>2. SUFFICES ASSUME x \div b >= p PROVE FALSE
  BY <1>1
<1>3. (x \div b) * b >= p * b
  BY <1>1, <1>2, Multiples
<1>4. QED
  BY <1>1, <1>3

LEMMA TwoDigits ==
  ASSUME NEW b \in Nat, NEW q \in Nat, NEW r \in 0 .. b - 1
  PROVE  (q * b + r) \div b = q /\ (q * b + r) % b = r
OBVIOUS

-------------------------------------------------------------------------------
(* The loops of to_ascii and from_ascii                                    *)
LEMMA RestIs ==
  ASSUME NEW v \in Nat, NEW n \in Nat, NEW base \in Nat, base > 0
  PROVE  /\ Rest(v, n, base)[0] = v
         /\ \A k \in 1 .. n : Rest(v, n, base)[k] = Rest(v, n, base)[k - 1] \div base
         /\ \A k \in 0 .. n : Rest(v, n, base)[k] \in Nat
<1> DEFINE Step(w) == [k \in 0 .. n |-> IF k = 0 THEN v ELSE w[k - 1] \div base]
           W == CHOOSE w : w = Step(w)
<1>1. Rest(v, n, base) = W
  BY DEF Rest
<1>2. \E w : w = Step(w)
  <2> DEFINE F == [k \in 1 .. n |-> [x \in Nat |-> x \div base]]
  <2> HIDE DEF F
  <2>1. PICK u : Loop(u, F, v, n)
    BY LoopExists
  <2>2. \A k \in 0 .. n : u[k] = IF k = 0 THEN v ELSE F[k][u[k - 1]]
    BY <2>1 DEF Loop
  <2>3. \A k \in 0 .. n : k \in {i \in 0 .. n : u[i] \in Nat}
    <3>1. 0 \in {i \in 0 .. n : u[i] \in Nat}
      BY <2>2
    <3>2. ASSUME NEW k \in 1 .. n, k - 1 \in {i \in 0 .. n : u[i] \in Nat}
          PROVE  k \in {i \in 0 .. n : u[i] \in Nat}
      <4>1. u[k] = F[k][u[k - 1]] /\ u[k - 1] \in Nat
        BY <2>2, <3>2
      <4>2. u[k] = u[k - 1] \div base
        BY <4>1 DEF F
      <4>3. PICK y \in Nat : y = u[k - 1]
        BY <4>1
      <4>4. y \div base \in Nat
        BY Division
      <4>5. u[k] \in Nat
        BY <4>2, <4>3, <4>4
      <4> QED BY <4>5
    <3> QED BY <3>1, <3>2, UpTo
  <2>4. ASSUME NEW k \in 1 .. n PROVE F[k][u[k - 1]] = u[k - 1] \div base
    <3>1. u[k - 1] \in Nat
      BY <2>3
    <3> QED BY <3>1 DEF F
  <2>5. u = [k \in 0 .. n |-> IF k = 0 THEN v ELSE F[k][u[k - 1]]]
    BY <2>1 DEF Loop
  <2>6. u = Step(u)
    BY <2>4, <2>5
  <2> QED BY <2>6
<1>3. W = Step(W)
  BY <1>2
<1> HIDE DEF W
<1>4. /\ W[0] = v
      /\ \A k \in 1 .. n : W[k] = W[k - 1] \div base
  BY <1>3
<1>5. \A k \in 0 .. n : k \in {i \in 0 .. n : W[i] \in Nat}
  <2>1. 0 \in {i \in 0 .. n : W[i] \in Nat}
    BY <1>4
  <2>2. ASSUME NEW k \in 1 .. n, k - 1 \in {i \in 0 .. n : W[i] \in Nat}
        PROVE  k \in {i \in 0 .. n : W[i] \in Nat}
    BY <2>2, <1>4, Division
  <2> QED BY <2>1, <2>2, UpTo
<1> QED BY <1>1, <1>4, <1>5

LEMMA ValuesIs ==
  ASSUME NEW base \in Nat, NEW n \in Nat
  PROVE  \E w \in [0 .. n -> Nat] :
           /\ w[0] = 1
           /\ \A k \in 1 .. n : w[k] = base * w[k - 1]
           /\ Values(base, n) = w[n]
<1> DEFINE Step(w) == [k \in 0 .. n |-> IF k = 0 THEN 1 ELSE base * w[k - 1]]
           W == CHOOSE w : w = Step(w)
<1>1. Values(base, n) = W[n]
  BY DEF Values
<1>2. \E w : w = Step(w)
  <2> DEFINE F == [k \in 1 .. n |-> [x \in Nat |-> base * x]]
  <2> HIDE DEF F
  <2>1. PICK u : Loop(u, F, 1, n)
    BY LoopExists
  <2>2. \A k \in 0 .. n : u[k] = IF k = 0 THEN 1 ELSE F[k][u[k - 1]]
    BY <2>1 DEF Loop
  <2>3. \A k \in 0 .. n : k \in {i \in 0 .. n : u[i] \in Nat}
    <3>1. 0 \in {i \in 0 .. n : u[i] \in Nat}
      BY <2>2
    <3>2. ASSUME NEW k \in 1 .. n, k - 1 \in {i \in 0 .. n : u[i] \in Nat}
          PROVE  k \in {i \in 0 .. n : u[i] \in Nat}
      <4>1. u[k] = F[k][u[k - 1]] /\ u[k - 1] \in Nat
        BY <2>2, <3>2
      <4>2. u[k] = base * u[k - 1]
        BY <4>1 DEF F
      <4> QED BY <4>1, <4>2, Products
    <3> QED BY <3>1, <3>2, UpTo
  <2>4. ASSUME NEW k \in 1 .. n PROVE F[k][u[k - 1]] = base * u[k - 1]
    <3>1. u[k - 1] \in Nat
      BY <2>3
    <3> QED BY <3>1 DEF F
  <2>5. u = [k \in 0 .. n |-> IF k = 0 THEN 1 ELSE F[k][u[k - 1]]]
    BY <2>1 DEF Loop
  <2>6. u = Step(u)
    BY <2>4, <2>5
  <2> QED BY <2>6
<1>3. W = Step(W)
  BY <1>2
<1> HIDE DEF W
<1>4. /\ W[0] = 1
      /\ \A k \in 1 .. n : W[k] = base * W[k - 1]
      /\ W = [k \in 0 .. n |-> W[k]]
  BY <1>3
<1>5. \A k \in 0 .. n : k \in {i \in 0 .. n : W[i] \in Nat}
  <2>1. 0 \in {i \in 0 .. n : W[i] \in Nat}
    BY <1>4
  <2>2. ASSUME NEW k \in 1 .. n, k - 1 \in {i \in 0 .. n : W[i] \in Nat}
        PROVE  k \in {i \in 0 .. n : W[i] \in Nat}
    <3>1. W[k - 1] \in Nat /\ W[k] = base * W[k - 1]
      BY <2>2, <1>4
    <3>2. PICK x \in Nat : x = W[k - 1]
      BY <3>1
    <3>3. base * x \in Nat
      BY Products
    <3> QED BY <3>1, <3>2, <3>3
  <2> QED BY <2>1, <2>2, UpTo
<1>6. W \in [0 .. n -> Nat]
  BY <1>4, <1>5
<1> QED BY <1>1, <1>4, <1>6

(* Few enough values leave nothing over.                                   *)
LEMMA NothingLeft ==
  ASSUME NEW v \in Nat, NEW n \in Nat, NEW base \in Nat, base > 0,
         v < Values(base, n)
  PROVE  Rest(v, n, base)[n] = 0
<1>1. PICK w \in [0 .. n -> Nat] :
        /\ w[0] = 1
        /\ \A k \in 1 .. n : w[k] = base * w[k - 1]
        /\ Values(base, n) = w[n]
  BY ValuesIs
<1>2. PICK r : r = Rest(v, n, base)
  OBVIOUS
<1>3. /\ r[0] = v
      /\ \A k \in 1 .. n : r[k] = r[k - 1] \div base
      /\ \A k \in 0 .. n : r[k] \in Nat
  <2>1. /\ Rest(v, n, base)[0] = v
        /\ \A k \in 1 .. n : Rest(v, n, base)[k] = Rest(v, n, base)[k - 1] \div base
        /\ \A k \in 0 .. n : Rest(v, n, base)[k] \in Nat
    BY RestIs
  <2> QED BY <1>2, <2>1, Zenon
<1> DEFINE T == {k \in 0 .. n : r[k] < w[n - k]}
<1>4. 0 \in T
  BY <1>1, <1>3
<1>5. ASSUME NEW k \in 1 .. n, k - 1 \in T PROVE k \in T
  <2>1. n - k \in 0 .. n /\ n - k + 1 \in 1 .. n /\ n - (k - 1) = n - k + 1
        /\ (n - k + 1) - 1 = n - k /\ k - 1 \in 0 .. n
    OBVIOUS
  <2>2. r[k - 1] < w[n - k + 1]
    BY <1>5, <2>1
  <2>3. w[n - k + 1] = base * w[n - k]
    BY <1>1, <2>1
  <2>4. r[k - 1] < base * w[n - k] /\ r[k - 1] \in Nat /\ w[n - k] \in Nat
    BY <1>1, <1>3, <2>1, <2>2, <2>3
  <2>5. r[k - 1] \div base < w[n - k]
    BY <2>4, QuotientBelow
  <2> QED BY <1>3, <2>1, <2>5
<1> HIDE DEF T
<1>6. \A k \in 0 .. n : k \in T
  BY <1>4, <1>5, UpTo
<1>7. r[n] < w[n - n]
  BY <1>6 DEF T
<1> QED BY <1>1, <1>2, <1>3, <1>7

LEMMA FromAsciiIs ==
  ASSUME NEW n \in Nat, NEW d \in [1 .. n -> Nat], NEW base \in Nat
  PROVE  \E w \in [0 .. n -> Nat] :
           /\ w[0] = 0
           /\ \A k \in 1 .. n : w[k] = w[k - 1] * base + d[k]
           /\ FromAscii(d, base) = w[n]
<1> DEFINE Step(w) == [k \in 0 .. n |-> IF k = 0 THEN 0 ELSE w[k - 1] * base + d[k]]
           W == CHOOSE w : w = Step(w)
<1>1. FromAscii(d, base) = W[n]
  <2>1. Len(d) = n
    OBVIOUS
  <2> QED BY <2>1 DEF FromAscii
<1>2. \E w : w = Step(w)
  <2> DEFINE F == [k \in 1 .. n |-> [x \in Nat |-> x * base + d[k]]]
  <2> HIDE DEF F
  <2>1. PICK u : Loop(u, F, 0, n)
    BY LoopExists
  <2>2. \A k \in 0 .. n : u[k] = IF k = 0 THEN 0 ELSE F[k][u[k - 1]]
    BY <2>1 DEF Loop
  <2>3. \A k \in 0 .. n : k \in {i \in 0 .. n : u[i] \in Nat}
    <3>1. 0 \in {i \in 0 .. n : u[i] \in Nat}
      BY <2>2
    <3>2. ASSUME NEW k \in 1 .. n, k - 1 \in {i \in 0 .. n : u[i] \in Nat}
          PROVE  k \in {i \in 0 .. n : u[i] \in Nat}
      <4>1. u[k] = F[k][u[k - 1]] /\ u[k - 1] \in Nat
        BY <2>2, <3>2
      <4>2. u[k] = u[k - 1] * base + d[k]
        BY <4>1 DEF F
      <4>3. PICK x \in Nat : x = u[k - 1]
        BY <4>1
      <4>4. x * base \in Nat /\ d[k] \in Nat
        BY Products
      <4>5. x * base + d[k] \in Nat
        BY <4>4
      <4> QED BY <4>2, <4>3, <4>5
    <3> QED BY <3>1, <3>2, UpTo
  <2>4. ASSUME NEW k \in 1 .. n PROVE F[k][u[k - 1]] = u[k - 1] * base + d[k]
    <3>1. u[k - 1] \in Nat
      BY <2>3
    <3> QED BY <3>1 DEF F
  <2>5. u = [k \in 0 .. n |-> IF k = 0 THEN 0 ELSE F[k][u[k - 1]]]
    BY <2>1 DEF Loop
  <2>6. u = Step(u)
    BY <2>4, <2>5
  <2> QED BY <2>6
<1>3. W = Step(W)
  BY <1>2
<1> HIDE DEF W
<1>4. /\ W[0] = 0
      /\ \A k \in 1 .. n : W[k] = W[k - 1] * base + d[k]
      /\ W = [k \in 0 .. n |-> W[k]]
  <2>1. \A k \in 0 .. n : W[k] = IF k = 0 THEN 0 ELSE W[k - 1] * base + d[k]
    BY <1>3
  <2> QED BY <1>3, <2>1
<1>5. \A k \in 0 .. n : k \in {i \in 0 .. n : W[i] \in Nat}
  <2>1. 0 \in {i \in 0 .. n : W[i] \in Nat}
    BY <1>4
  <2>2. ASSUME NEW k \in 1 .. n, k - 1 \in {i \in 0 .. n : W[i] \in Nat}
        PROVE  k \in {i \in 0 .. n : W[i] \in Nat}
    <3>1. W[k - 1] \in Nat /\ W[k] = W[k - 1] * base + d[k] /\ d[k] \in Nat
      BY <2>2, <1>4
    <3>2. PICK x \in Nat : x = W[k - 1]
      BY <3>1
    <3>3. PICK y \in Nat : y = x * base
      BY Products
    <3>4. y + d[k] \in Nat
      BY <3>1
    <3>5. W[k] \in Nat
      BY <3>1, <3>2, <3>3, <3>4, Zenon
    <3> QED BY <3>5
  <2> QED BY <2>1, <2>2, UpTo
<1>6. W \in [0 .. n -> Nat]
  BY <1>4, <1>5
<1> QED BY <1>1, <1>4, <1>6

LEMMA DigitsType ==
  ASSUME NEW v \in Nat, NEW n \in Nat, NEW base \in Nat, base > 0
  PROVE  ToAscii(v, n, base) \in [1 .. n -> 0 .. base - 1]
<1>1. ASSUME NEW k \in 1 .. n PROVE Rest(v, n, base)[n - k] % base \in 0 .. base - 1
  <2>1. Rest(v, n, base)[n - k] \in Nat
    BY RestIs
  <2> QED BY <2>1, Division
<1> QED BY <1>1 DEF ToAscii

(* from_ascii makes of the digits of a number the number again, if they    *)
(* were enough.                                                            *)
LEMMA RoundTrip ==
  ASSUME NEW v \in Nat, NEW n \in Nat, NEW base \in Nat, base > 0,
         ~Overflows(v, n, base)
  PROVE  FromAscii(ToAscii(v, n, base), base) = v
<1>1. PICK r : r = Rest(v, n, base)
  OBVIOUS
<1>2. /\ r[0] = v
      /\ \A k \in 1 .. n : r[k] = r[k - 1] \div base
      /\ \A k \in 0 .. n : r[k] \in Nat
  BY <1>1, RestIs
<1>3. PICK d \in [1 .. n -> Nat] : d = ToAscii(v, n, base)
  <2>1. ToAscii(v, n, base) \in [1 .. n -> 0 .. base - 1]
    BY DigitsType
  <2>2. PICK d : d = ToAscii(v, n, base)
    OBVIOUS
  <2>3. d \in [1 .. n -> Nat]
    BY <2>1, <2>2
  <2> QED BY <2>2, <2>3
<1>4. \A k \in 1 .. n : d[k] = r[n - k] % base
  BY <1>1, <1>3 DEF ToAscii
<1>5. PICK w \in [0 .. n -> Nat] :
        /\ w[0] = 0
        /\ \A k \in 1 .. n : w[k] = w[k - 1] * base + d[k]
        /\ FromAscii(d, base) = w[n]
  BY FromAsciiIs
<1> DEFINE T == {k \in 0 .. n : w[k] = r[n - k]}
<1>6. 0 \in T
  BY <1>1, <1>5 DEF Overflows
<1>7. ASSUME NEW k \in 1 .. n, k - 1 \in T PROVE k \in T
  <2>1. n - k \in 0 .. n /\ n - k + 1 \in 1 .. n /\ n - (k - 1) = n - k + 1
        /\ (n - k + 1) - 1 = n - k
    OBVIOUS
  <2>2. w[k - 1] = r[n - k] \div base
    BY <1>2, <1>7, <2>1
  <2>3. w[k] = (r[n - k] \div base) * base + (r[n - k] % base)
    BY <1>4, <1>5, <2>2
  <2>4. r[n - k] \in Nat
    BY <1>2, <2>1
  <2>5. (r[n - k] \div base) * base + (r[n - k] % base) = r[n - k]
    BY <2>4, Division
  <2> QED BY <2>3, <2>5
<1> HIDE DEF T
<1>8. \A k \in 0 .. n : k \in T
  BY <1>6, <1>7, UpTo
<1>9. w[n] = r[n - n]
  BY <1>8 DEF T
<1> QED BY <1>2, <1>3, <1>5, <1>9


-------------------------------------------------------------------------------
(* Device numbers, halfwords, and what a field has room for                *)
LEMMA Sizes ==
  /\ Byte \in Nat /\ Byte > 1
  /\ Short \in Nat /\ Short >= 4
  /\ Long \in Nat /\ Long >= Short
  /\ OctShort \in Nat /\ OctLong \in Nat /\ MaxJunk \in Nat
  /\ Short < Values(2, OctShort) /\ Long < Values(2, OctLong)
<1>1. /\ Byte \in Nat /\ Byte > 1 /\ OctShort \in Nat /\ OctLong \in Nat /\ MaxJunk \in Nat
      /\ Short < Values(2, OctShort) /\ Long < Values(2, OctLong)
  BY WidthsAssumption
<1>2. Short \in Nat /\ Short >= 2 * Byte
  BY <1>1, Multiples, Products DEF Short
<1>3. Short >= 4
  BY <1>1, <1>2
<1>4. Long \in Nat /\ Long >= 1 * Short
  BY <1>2, <1>3, Multiples, Products DEF Long
<1> QED BY <1>1, <1>2, <1>3, <1>4

LEMMA Lengths ==
  /\ Values(Byte, 4) = Long
  /\ Values(Short, 1) = Short
  /\ Values(Short, 2) = Long
<1>1. Byte \in Nat /\ Short \in Nat
  BY Sizes
<1>2. Values(Byte, 4) = Long
  <2>1. PICK w \in [0 .. 4 -> Nat] :
          /\ w[0] = 1
          /\ \A k \in 1 .. 4 : w[k] = Byte * w[k - 1]
          /\ Values(Byte, 4) = w[4]
    BY <1>1, ValuesIs
  <2>2. w[1] = Byte /\ w[2] = Byte * Byte /\ w[3] = Byte * w[2] /\ w[4] = Byte * w[3]
    BY <1>1, <2>1
  <2>3. Byte * (Byte * (Byte * Byte)) = (Byte * Byte) * (Byte * Byte)
    BY <1>1
  <2> QED BY <2>1, <2>2, <2>3 DEF Long, Short
<1>3. Values(Short, 1) = Short
  <2>1. PICK w \in [0 .. 1 -> Nat] :
          /\ w[0] = 1
          /\ \A k \in 1 .. 1 : w[k] = Short * w[k - 1]
          /\ Values(Short, 1) = w[1]
    BY <1>1, ValuesIs
  <2> QED BY <1>1, <2>1
<1>4. Values(Short, 2) = Long
  <2>1. PICK w \in [0 .. 2 -> Nat] :
          /\ w[0] = 1
          /\ \A k \in 1 .. 2 : w[k] = Short * w[k - 1]
          /\ Values(Short, 2) = w[2]
    BY <1>1, ValuesIs
  <2>2. w[1] = Short /\ w[2] = Short * Short
    BY <1>1, <2>1
  <2> QED BY <2>1, <2>2 DEF Long
<1> QED BY <1>2, <1>3, <1>4

LEMMA Pairs ==
  ASSUME NEW q \in 0 .. Byte - 1, NEW r \in 0 .. Byte - 1
  PROVE  /\ q * Byte + r \in 0 .. Short - 1
         /\ (q * Byte + r) \div Byte = q
         /\ (q * Byte + r) % Byte = r
<1>1. Byte \in Nat /\ Byte > 1 /\ Short \in Nat
  BY Sizes
<1>2. (q * Byte + r) \div Byte = q /\ (q * Byte + r) % Byte = r
  BY <1>1, TwoDigits
<1>3. q * Byte \in Nat /\ (Byte - 1) * Byte \in Nat
  BY <1>1, Products
<1>4. (Byte - 1) * Byte >= q * Byte
  BY <1>1, Multiples
<1>5. (Byte - 1) * Byte = Short - Byte
  BY <1>1 DEF Short
<1>6. q * Byte + r \in 0 .. Short - 1
  BY <1>1, <1>3, <1>4, <1>5
<1> QED BY <1>2, <1>6

LEMMA MakedevIs ==
  ASSUME NEW ma \in Nat, NEW mi \in Nat
  PROVE  /\ Makedev(ma, mi) \in Nat /\ Makedev(ma, mi) < Short
         /\ Major(Makedev(ma, mi)) = ma % Byte
         /\ Minor(Makedev(ma, mi)) = mi % Byte
<1>1. Byte \in Nat /\ Byte > 1 /\ Short \in Nat
  BY Sizes
<1>2. PICK q \in 0 .. Byte - 1, r \in 0 .. Byte - 1 : q = ma % Byte /\ r = mi % Byte
  BY <1>1
<1>3. /\ q * Byte + r \in 0 .. Short - 1
      /\ (q * Byte + r) \div Byte = q
      /\ (q * Byte + r) % Byte = r
  BY Pairs
<1>4. Makedev(ma, mi) = q * Byte + r
  BY <1>2 DEF Makedev
<1>5. q % Byte = q
  BY <1>1
<1> QED BY <1>1, <1>2, <1>3, <1>4, <1>5 DEF Major, Minor

LEMMA PartsType ==
  ASSUME NEW device \in Nat
  PROVE  Major(device) \in 0 .. Byte - 1 /\ Minor(device) \in 0 .. Byte - 1
<1>1. Byte \in Nat /\ Byte > 1
  BY Sizes
<1>2. PICK q \in Nat : q = device \div Byte
  BY <1>1, Division
<1> QED BY <1>1, <1>2, Division DEF Major, Minor

LEMMA SmallParts ==
  ASSUME NEW n \in Nat, n < Byte
  PROVE  n % Byte = n
BY Sizes

(* Turned round twice the bytes of a halfword are where they were.         *)
LEMMA SwabTwice ==
  ASSUME NEW v \in 0 .. Short - 1
  PROVE  /\ SwabShort(v) \in 0 .. Short - 1
         /\ SwabShort(SwabShort(v)) = v
<1>1. Byte \in Nat /\ Byte > 1 /\ Short \in Nat /\ v \in Nat
  BY Sizes
<1>2. PICK q \in Nat, r \in 0 .. Byte - 1 : q = v \div Byte /\ r = v % Byte /\ q * Byte + r = v
  BY <1>1, Division
<1>3. q < Byte
  <2>1. v < Byte * Byte
    BY <1>1 DEF Short
  <2> QED BY <1>1, <1>2, <2>1, QuotientBelow
<1>4. q \in 0 .. Byte - 1
  BY <1>1, <1>2, <1>3
<1>5. /\ r * Byte + q \in 0 .. Short - 1
      /\ (r * Byte + q) \div Byte = r
      /\ (r * Byte + q) % Byte = q
  BY <1>4, Pairs
<1>6. SwabShort(v) = r * Byte + q
  BY <1>2 DEF SwabShort
<1>7. SwabShort(SwabShort(v)) = q * Byte + r
  BY <1>5, <1>6 DEF SwabShort
<1> QED BY <1>2, <1>5, <1>6, <1>7

LEMMA FormatFacts ==
  ASSUME NEW f \in Formats, NEW field \in Numbers(f)
  PROVE  /\ Base(f) \in Nat /\ Base(f) > 1
         /\ Digits(f, field) \in Nat
         /\ f \in Bin => Base(f) = Short
<1>1. CASE f \in New
  BY <1>1, Sizes DEF Base, Digits, New, OldAscii, Bin
<1>2. CASE f \in OldAscii
  BY <1>2, Sizes DEF Base, Digits, New, OldAscii, Bin
<1>3. CASE f \in Bin
  BY <1>3, Sizes DEF Base, Digits, New, OldAscii, Bin
<1> QED BY <1>1, <1>2, <1>3 DEF Formats

(* A number for which there is room is not too wide.                       *)
LEMMA RoomIsEnough ==
  ASSUME NEW f \in Formats, NEW field \in Numbers(f), NEW v \in Nat, Room(f, field, v)
  PROVE  ~TooWide(f, field, v)
<1>1. Base(f) \in Nat /\ Base(f) > 0 /\ Digits(f, field) \in Nat
  BY FormatFacts
<1>2. v < Values(Base(f), Digits(f, field))
  <2>1. CASE f \in New
    <3>1. Base(f) = Byte /\ Digits(f, field) = 4 /\ v < Long
      BY <2>1 DEF Base, Digits, Room, New, OldAscii, Bin
    <3> QED BY <3>1, Lengths
  <2>2. CASE f \in OldAscii
    <3>1. Base(f) = 2 /\ v < Values(2, Digits(f, field))
      BY <2>2 DEF Base, Room, New, OldAscii, Bin
    <3> QED BY <3>1
  <2>3. CASE f \in Bin
    <3>1. Base(f) = Short
      BY <2>3 DEF Base, Bin, New, OldAscii
    <3>2. CASE field \in {"mtime", "size"}
      <4>1. Digits(f, field) = 2 /\ v < Long
        BY <2>3, <3>2 DEF Digits, Room, Bin, New, OldAscii
      <4> QED BY <3>1, <4>1, Lengths
    <3>3. CASE field \notin {"mtime", "size"}
      <4>1. Digits(f, field) = 1 /\ v < Short
        BY <2>3, <3>3 DEF Digits, Room, Bin, New, OldAscii
      <4> QED BY <3>1, <4>1, Lengths
    <3> QED BY <3>2, <3>3
  <2> QED BY <2>1, <2>2, <2>3 DEF Formats
<1>3. PICK b \in Nat, n \in Nat : b = Base(f) /\ n = Digits(f, field) /\ b > 0
  BY <1>1
<1>4. Rest(v, n, b)[n] = 0
  BY <1>2, <1>3, NothingLeft
<1> QED BY <1>3, <1>4 DEF TooWide, Overflows

LEMMA ShortHasRoom ==
  ASSUME NEW f \in Formats \ New, NEW field \in Numbers(f), NEW v \in Nat, v < Short
  PROVE  ~TooWide(f, field, v)
<1>1. Room(f, field, v)
  <2>1. CASE f \in OldAscii
    <3>1. Digits(f, field) \in {OctShort, OctLong}
      BY <2>1 DEF Digits, New, OldAscii, Bin
    <3>2. ASSUME NEW n \in Nat PROVE Values(2, n) \in Nat
      <4>1. PICK w \in [0 .. n -> Nat] :
              /\ w[0] = 1
              /\ \A k \in 1 .. n : w[k] = 2 * w[k - 1]
              /\ Values(2, n) = w[n]
        BY ValuesIs
      <4> QED BY <4>1
    <3>3. Values(2, OctShort) \in Nat /\ Values(2, OctLong) \in Nat
      BY <3>2, Sizes
    <3>4. v < Values(2, OctShort) /\ v < Values(2, OctLong)
      BY <3>3, Sizes
    <3>5. Room(f, field, v) <=> v < Values(2, Digits(f, field))
      BY <2>1 DEF Room, New, OldAscii, Bin
    <3> QED BY <3>1, <3>4, <3>5
  <2>2. CASE f \in Bin
    <3>1. Room(f, field, v) <=> v < IF field \in {"mtime", "size"} THEN Long ELSE Short
      BY <2>2 DEF Room, New, OldAscii, Bin
    <3> QED BY <3>1, Sizes
  <2> QED BY <2>1, <2>2 DEF Formats
<1> QED BY <1>1, RoomIsEnough

(* The formats that share a magic number have the same fields.             *)
LEMMA SameFields ==
  ASSUME NEW f \in Formats, NEW g \in {f, Magic(f)}
  PROVE  /\ g \in Formats
         /\ g \in New <=> f \in New
         /\ g \in OldAscii <=> f \in OldAscii
         /\ g \in Bin <=> f \in Bin
         /\ Numbers(g) = Numbers(f) /\ Base(g) = Base(f) /\ HeaderSize(g) = HeaderSize(f)
         /\ \A n : SkipPadding(g, n) = SkipPadding(f, n)
<1>1. /\ g \in Formats
      /\ g \in New <=> f \in New
      /\ g \in OldAscii <=> f \in OldAscii
      /\ g \in Bin <=> f \in Bin
  BY DEF Magic, Formats, New, OldAscii, Bin
<1> QED BY <1>1 DEF Formats, Numbers, Base, HeaderSize, SkipPadding

(* What a field holds is read again, turned round or not, when it was not  *)
(* too wide; and is a number in any case.                                  *)
LEMMA FieldIsRead ==
  ASSUME NEW f \in Formats, NEW g \in {f, Magic(f)}, NEW field \in Numbers(f), NEW v \in Nat,
         swapped \in BOOLEAN, swapped => f \in Bin,
         NEW d, d = IF swapped THEN Swab(Encode(f, field, v)) ELSE Encode(f, field, v)
  PROVE  /\ Decode(g, Unswab(d)) \in Nat
         /\ ~TooWide(f, field, v) => Decode(g, Unswab(d)) = v
<1>1. PICK b \in Nat, n \in Nat : b = Base(f) /\ n = Digits(f, field) /\ b > 1
  BY FormatFacts
<1>2. PICK e \in [1 .. n -> 0 .. b - 1] : e = Encode(f, field, v) /\ e = ToAscii(v, n, b)
  <2>1. b > 0
    BY <1>1
  <2>2. ToAscii(v, n, b) \in [1 .. n -> 0 .. b - 1]
    BY <2>1, DigitsType
  <2> QED BY <1>1, <2>2 DEF Encode
<1>3. Unswab(d) = e
  <2>1. CASE ~swapped
    BY <1>2, <2>1 DEF Unswab
  <2>2. CASE swapped
    <3>1. b = Short
      BY <1>1, <2>2, FormatFacts
    <3>2. d = [k \in 1 .. n |-> SwabShort(e[k])]
      BY <1>2, <2>2 DEF Swab
    <3>3. Swab(d) = [k \in 1 .. n |-> SwabShort(SwabShort(e[k]))]
      BY <3>2 DEF Swab
    <3>4. \A k \in 1 .. n : SwabShort(SwabShort(e[k])) = e[k]
      BY <3>1, SwabTwice
    <3>5. Swab(d) = e
      BY <3>3, <3>4
    <3> QED BY <2>2, <3>5 DEF Unswab
  <2> QED BY <2>1, <2>2
<1>4. Decode(g, Unswab(d)) = FromAscii(e, b)
  BY <1>1, <1>3, SameFields DEF Decode
<1>5. FromAscii(e, b) \in Nat
  <2>1. e \in [1 .. n -> Nat]
    BY <1>1
  <2>2. PICK w \in [0 .. n -> Nat] :
           /\ w[0] = 0
           /\ \A k \in 1 .. n : w[k] = w[k - 1] * b + e[k]
           /\ FromAscii(e, b) = w[n]
    BY <2>1, FromAsciiIs
  <2> QED BY <2>2
<1>6. ~TooWide(f, field, v) => FromAscii(e, b) = v
  <2>1. SUFFICES ASSUME ~TooWide(f, field, v) PROVE FromAscii(e, b) = v
    OBVIOUS
  <2>2. ~Overflows(v, n, b)
    BY <1>1, <2>1 DEF TooWide
  <2>3. b > 0
    BY <1>1
  <2>4. FromAscii(ToAscii(v, n, b), b) = v
    BY <2>2, <2>3, RoundTrip
  <2> QED BY <1>2, <2>4, Zenon
<1> QED BY <1>4, <1>5, <1>6


-------------------------------------------------------------------------------
(* What copy-in reads of a header that copy-out wrote                      *)
Stats ==
  {h \in [kind : Kinds \cup {"trailer"}, inode : Nat, devmaj : Nat, devmin : Nat,
          rdevmaj : Nat, rdevmin : Nat, owner : Nat, links : Nat, mtime : Nat,
          size : Nat, namesize : Nat] : h.kind # "reg" => h.size = 0}

HeadersRead ==
  [kind : Kinds \cup {"trailer"}, inode : Nat, devmaj : 0 .. Byte - 1,
   devmin : 0 .. Byte - 1, rdevmaj : 0 .. Byte - 1, rdevmin : 0 .. Byte - 1,
   owner : Nat, links : Nat, mtime : Nat, size : Nat, namesize : Nat]

OptionsOK ==
  /\ fmt \in Formats
  /\ swapped \in BOOLEAN /\ (swapped => fmt \in Bin)
  /\ renumber \in BOOLEAN /\ ignoreDevno \in BOOLEAN
  /\ files \in Seq(Files)

CellOf(of, h) == HeaderCell(of, h.kind, Fields(fmt, ValuesToWrite(fmt, h)))

LEMMA StatIsStat ==
  ASSUME OptionsOK, NEW f \in Files, NEW number \in Nat
  PROVE  StatToCpio(f, number) \in Stats
<1>1. /\ f \in [kind : Kinds, inode : Nat, dev : Nat \X Nat, rdev : Nat \X Nat, owner : Nat,
                links : Nat, mtime : Nat, size : Nat, namesize : Nat]
      /\ f.kind # "reg" => f.size = 0
  BY DEF Files
<1>2. f.dev[1] \in Nat /\ f.dev[2] \in Nat /\ f.rdev[1] \in Nat /\ f.rdev[2] \in Nat
  BY <1>1
<1> QED BY <1>1, <1>2 DEF StatToCpio, Stats, OptionsOK

LEMMA TrailerIsStat == Trailer \in Stats
BY DEF Trailer, Stats

LEMMA ValuesAre ==
  ASSUME NEW f \in Formats, NEW h \in Stats, NEW vals, vals = ValuesToWrite(f, h)
  PROVE  /\ \A field \in Shared \ {"size"} : vals[field] = h[field]
         /\ vals["size"] = IF f \in Hp THEN HpSize(h) ELSE h.size
         /\ f \notin New => /\ vals["dev"] = IF f = "hpodc" THEN HpDevice(h) ELSE DeviceOf(h)
                            /\ vals["rdev"] = IF f \in Hp THEN HpDevice(h) ELSE RdeviceOf(h)
         /\ \A field \in Numbers(f) : vals[field] \in Nat
<1>1. /\ DeviceOf(h) \in Nat /\ RdeviceOf(h) \in Nat /\ HpDevice(h) \in Nat /\ HpSize(h) \in Nat
  <2>1. h.devmaj \in Nat /\ h.devmin \in Nat /\ h.rdevmaj \in Nat /\ h.rdevmin \in Nat
        /\ h.size \in Nat
    BY DEF Stats
  <2>2. DeviceOf(h) \in Nat /\ RdeviceOf(h) \in Nat /\ Makedev(0, 1) \in Nat
    BY <2>1, MakedevIs DEF DeviceOf, RdeviceOf
  <2> QED BY <2>1, <2>2 DEF HpDevice, HpSize
<1>2. \A field \in Numbers(f) :
        vals[field] = CASE field = "size" -> IF f \in Hp THEN HpSize(h) ELSE h.size
                        [] field = "dev" -> IF f = "hpodc" THEN HpDevice(h) ELSE DeviceOf(h)
                        [] field = "rdev" -> IF f \in Hp THEN HpDevice(h) ELSE RdeviceOf(h)
                        [] OTHER -> h[field]
  BY DEF ValuesToWrite
<1>3. Shared \subseteq Numbers(f) /\ (f \notin New => "dev" \in Numbers(f) /\ "rdev" \in Numbers(f))
  BY DEF Numbers
<1>4. \A field \in Shared \ {"size"} : vals[field] = h[field]
  BY <1>2, <1>3 DEF Shared
<1>5. vals["size"] = IF f \in Hp THEN HpSize(h) ELSE h.size
  BY <1>2, <1>3 DEF Shared
<1>6. f \notin New => /\ vals["dev"] = IF f = "hpodc" THEN HpDevice(h) ELSE DeviceOf(h)
                      /\ vals["rdev"] = IF f \in Hp THEN HpDevice(h) ELSE RdeviceOf(h)
  BY <1>2, <1>3
<1>7. ASSUME NEW field \in Numbers(f) PROVE vals[field] \in Nat
  <2>1. CASE field \in {"size", "dev", "rdev"}
    BY <2>1, <1>1, <1>2 DEF Stats
  <2>2. CASE field \notin {"size", "dev", "rdev"}
    <3>1. vals[field] = h[field]
      BY <2>2, <1>2
    <3>2. field \in {"inode", "owner", "links", "mtime", "namesize",
                     "devmaj", "devmin", "rdevmaj", "rdevmin"}
      BY <2>2 DEF Numbers, Shared
    <3> QED BY <3>1, <3>2 DEF Stats
  <2> QED BY <2>1, <2>2
<1> QED BY <1>4, <1>5, <1>6, <1>7

LEMMA HeaderReadIs ==
  ASSUME OptionsOK, NEW g \in {fmt, Magic(fmt)}, NEW h \in Stats, NEW of,
         NEW c, c = CellOf(of, h), NEW read, read = HeaderRead(g, c)
  PROVE  /\ read \in HeadersRead
         /\ read.kind = h.kind
         /\ \A field \in Shared : ~TooWide(fmt, field, h[field]) => read[field] = h[field]
         /\ fmt \in {"odc", "bin", "hpbin"} =>
              read.devmaj = h.devmaj % Byte /\ read.devmin = h.devmin % Byte
         /\ fmt \notin New /\ h.kind = "dev" /\ (h.rdevmaj % Byte # 0 \/ h.rdevmin % Byte # 0) =>
              read.rdevmaj = h.rdevmaj % Byte /\ read.rdevmin = h.rdevmin % Byte
<1> DEFINE v == [field \in Numbers(g) |-> Decode(g, Unswab(c.fields[field]))]
           devices == DevicesRead(g, v)
           raw == [kind |-> c.kind, inode |-> v.inode,
                   devmaj |-> devices.devmaj, devmin |-> devices.devmin,
                   rdevmaj |-> devices.rdevmaj, rdevmin |-> devices.rdevmin,
                   owner |-> v.owner, links |-> v.links, mtime |-> v.mtime,
                   size |-> v.size, namesize |-> v.namesize]
<1>1. PICK vals : vals = ValuesToWrite(fmt, h)
  OBVIOUS
<1>2. /\ \A field \in Shared \ {"size"} : vals[field] = h[field]
      /\ vals["size"] = IF fmt \in Hp THEN HpSize(h) ELSE h.size
      /\ fmt \notin New => /\ vals["dev"] = IF fmt = "hpodc" THEN HpDevice(h) ELSE DeviceOf(h)
                           /\ vals["rdev"] = IF fmt \in Hp THEN HpDevice(h) ELSE RdeviceOf(h)
      /\ \A field \in Numbers(fmt) : vals[field] \in Nat
  BY <1>1, ValuesAre DEF OptionsOK
<1>3. /\ g \in New <=> fmt \in New
      /\ Numbers(g) = Numbers(fmt)
  BY SameFields DEF OptionsOK
<1>4. /\ c.kind = h.kind
      /\ \A field \in Numbers(fmt) :
           c.fields[field] = IF swapped THEN Swab(Encode(fmt, field, vals[field]))
                                        ELSE Encode(fmt, field, vals[field])
  BY <1>1 DEF CellOf, HeaderCell, Fields
<1>5. ASSUME NEW field \in Numbers(fmt)
      PROVE  /\ v[field] \in Nat
             /\ ~TooWide(fmt, field, vals[field]) => v[field] = vals[field]
  <2>1. v[field] = Decode(g, Unswab(c.fields[field]))
    BY <1>3
  <2>2. PICK d : d = c.fields[field]
    OBVIOUS
  <2>3. PICK x \in Nat : x = vals[field]
    BY <1>2
  <2>4. d = IF swapped THEN Swab(Encode(fmt, field, x)) ELSE Encode(fmt, field, x)
    BY <1>4, <2>2, <2>3
  <2>5. fmt \in Formats /\ swapped \in BOOLEAN /\ (swapped => fmt \in Bin)
    BY DEF OptionsOK
  <2> HIDE DEF v
  <2>6. /\ Decode(g, Unswab(d)) \in Nat
        /\ ~TooWide(fmt, field, x) => Decode(g, Unswab(d)) = x
    BY <2>4, <2>5, FieldIsRead
  <2> QED BY <2>1, <2>2, <2>3, <2>6
<1>6. read = UndoHp(g, raw)
  BY DEF HeaderRead
<1> HIDE DEF v
<1>7. Shared \subseteq Numbers(fmt)
  BY DEF Numbers
<1>8. raw \in HeadersRead
  <2>1. v.inode \in Nat /\ v.owner \in Nat /\ v.links \in Nat /\ v.mtime \in Nat
        /\ v.size \in Nat /\ v.namesize \in Nat
    BY <1>5, <1>7 DEF Shared
  <2>2. /\ devices.devmaj \in 0 .. Byte - 1 /\ devices.devmin \in 0 .. Byte - 1
        /\ devices.rdevmaj \in 0 .. Byte - 1 /\ devices.rdevmin \in 0 .. Byte - 1
    <3>1. CASE fmt \in New
      <4>1. v.devmaj \in Nat /\ v.devmin \in Nat /\ v.rdevmaj \in Nat /\ v.rdevmin \in Nat
        BY <1>5, <3>1 DEF Numbers
      <4> QED BY <4>1, <3>1, <1>3, PartsType DEF DevicesRead
    <3>2. CASE fmt \notin New
      <4>1. v.dev \in Nat /\ v.rdev \in Nat
        BY <1>5, <3>2 DEF Numbers
      <4> QED BY <4>1, <3>2, <1>3, PartsType DEF DevicesRead
    <3> QED BY <3>1, <3>2
  <2>3. c.kind \in Kinds \cup {"trailer"}
    BY <1>4 DEF Stats
  <2> HIDE DEF devices
  <2> QED BY <2>1, <2>2, <2>3 DEF HeadersRead
<1>9. /\ raw.kind = h.kind
      /\ \A field \in Shared : raw[field] = v[field]
  BY <1>4 DEF Shared
<1>10. fmt \notin New =>
         /\ raw.devmaj = Major(v.dev) /\ raw.devmin = Minor(v.dev)
         /\ raw.rdevmaj = Major(v.rdev) /\ raw.rdevmin = Minor(v.rdev)
  BY <1>3 DEF DevicesRead
<1> HIDE DEF raw
<1>11. read \in HeadersRead /\ read.kind = h.kind
  <2>1. CASE IsHpSpecial(g, raw)
    <3>1. Major(raw.size) \in 0 .. Byte - 1 /\ Minor(raw.size) \in 0 .. Byte - 1
      BY <1>8, PartsType DEF HeadersRead
    <3>2. read = [raw EXCEPT !.rdevmaj = Major(raw.size), !.rdevmin = Minor(raw.size), !.size = 0]
      BY <2>1, <1>6 DEF UndoHp
    <3>3. PICK ma \in 0 .. Byte - 1, mi \in 0 .. Byte - 1 :
            ma = Major(raw.size) /\ mi = Minor(raw.size)
      BY <3>1
    <3>4. read = [raw EXCEPT !.rdevmaj = ma, !.rdevmin = mi, !.size = 0]
      BY <3>2, <3>3
    <3>5. raw \in HeadersRead
      BY <1>8
    <3>6. read \in HeadersRead
      <4>1. raw = [kind |-> raw.kind, inode |-> raw.inode, devmaj |-> raw.devmaj,
                   devmin |-> raw.devmin, rdevmaj |-> raw.rdevmaj, rdevmin |-> raw.rdevmin,
                   owner |-> raw.owner, links |-> raw.links, mtime |-> raw.mtime,
                   size |-> raw.size, namesize |-> raw.namesize]
        BY <3>5 DEF HeadersRead
      <4>2. read = [kind |-> raw.kind, inode |-> raw.inode, devmaj |-> raw.devmaj,
                    devmin |-> raw.devmin, rdevmaj |-> ma, rdevmin |-> mi,
                    owner |-> raw.owner, links |-> raw.links, mtime |-> raw.mtime,
                    size |-> 0, namesize |-> raw.namesize]
        BY <3>4, <4>1
      <4>3. /\ raw.kind \in Kinds \cup {"trailer"} /\ raw.inode \in Nat
            /\ raw.devmaj \in 0 .. Byte - 1 /\ raw.devmin \in 0 .. Byte - 1
            /\ raw.owner \in Nat /\ raw.links \in Nat /\ raw.mtime \in Nat
            /\ raw.namesize \in Nat
        BY <3>5 DEF HeadersRead
      <4> QED BY <4>2, <4>3 DEF HeadersRead
    <3>7. read.kind = raw.kind
      BY <3>4, <3>5 DEF HeadersRead
    <3> QED BY <3>6, <3>7, <1>9
  <2>2. CASE ~IsHpSpecial(g, raw)
    BY <2>2, <1>6, <1>8, <1>9 DEF UndoHp
  <2> QED BY <2>1, <2>2
<1>12. /\ \A field \in Shared \ {"size"} : read[field] = v[field]
       /\ read.devmaj = raw.devmaj /\ read.devmin = raw.devmin
  BY <1>6, <1>8, <1>9 DEF UndoHp, HeadersRead, Shared
<1>13. ASSUME NEW field \in Shared \ {"size"}, ~TooWide(fmt, field, h[field])
       PROVE  read[field] = h[field]
  BY <1>13, <1>2, <1>5, <1>7, <1>12
<1>14. /\ h.devmaj \in Nat /\ h.devmin \in Nat /\ h.rdevmaj \in Nat /\ h.rdevmin \in Nat
       /\ (h.kind # "reg" => h.size = 0)
  BY DEF Stats
<1>15. ASSUME fmt \notin New, NEW field \in {"dev", "rdev", "size"}, vals[field] < Short
       PROVE  v[field] = vals[field]
  <2>1. field \in Numbers(fmt) /\ vals[field] \in Nat /\ fmt \in Formats \ New
    BY <1>2, <1>15 DEF Numbers, Shared, OptionsOK
  <2>2. PICK x \in Nat : x = vals[field] /\ x < Short
    BY <2>1, <1>15
  <2>3. ~TooWide(fmt, field, x)
    BY <2>1, <2>2, ShortHasRoom
  <2> QED BY <1>5, <2>1, <2>2, <2>3
<1>16. fmt \in {"odc", "bin", "hpbin"} =>
         read.devmaj = h.devmaj % Byte /\ read.devmin = h.devmin % Byte
  <2>1. SUFFICES ASSUME fmt \in {"odc", "bin", "hpbin"}
                 PROVE  read.devmaj = h.devmaj % Byte /\ read.devmin = h.devmin % Byte
    OBVIOUS
  <2>2. fmt \notin New /\ fmt # "hpodc"
    BY <2>1 DEF New
  <2>3. vals["dev"] = Makedev(h.devmaj, h.devmin)
    BY <1>2, <2>2 DEF DeviceOf
  <2>4. v["dev"] = Makedev(h.devmaj, h.devmin)
    BY <1>14, <1>15, <2>2, <2>3, MakedevIs
  <2>5. Major(Makedev(h.devmaj, h.devmin)) = h.devmaj % Byte
        /\ Minor(Makedev(h.devmaj, h.devmin)) = h.devmin % Byte
    BY <1>14, MakedevIs
  <2>6. raw.devmaj = Major(v["dev"]) /\ raw.devmin = Minor(v["dev"])
    BY <1>10, <2>2
  <2>7. read.devmaj = raw.devmaj /\ read.devmin = raw.devmin
    BY <1>12
  <2> QED BY <2>4, <2>5, <2>6, <2>7, Zenon
<1>17. CASE h.kind \notin Special
  <2>1. read = raw
    BY <1>6, <1>9, <1>17 DEF UndoHp, IsHpSpecial
  <2>2. vals["size"] = h.size
    BY <1>2, <1>17 DEF HpSize
  <2>3. ~TooWide(fmt, "size", h.size) => read.size = h.size
    BY <1>5, <1>7, <1>9, <2>1, <2>2 DEF Shared
  <2>4. h.kind # "dev"
    BY <1>17 DEF Special
  <2> QED BY <1>11, <1>13, <1>16, <2>3, <2>4
<1>18. CASE h.kind \in Special /\ fmt \in New
  <2>1. read = raw
    BY <1>3, <1>6, <1>18 DEF UndoHp, IsHpSpecial
  <2>2. vals["size"] = h.size
    BY <1>2, <1>18 DEF New, Hp
  <2>3. ~TooWide(fmt, "size", h.size) => read.size = h.size
    BY <1>5, <1>7, <1>9, <2>1, <2>2 DEF Shared
  <2> QED BY <1>11, <1>13, <1>16, <1>18, <2>3
<1>19. CASE h.kind \in Special /\ fmt \notin New /\ fmt \notin Hp
  <2>1. vals["size"] = 0 /\ vals["rdev"] = Makedev(h.rdevmaj, h.rdevmin)
    BY <1>2, <1>14, <1>19 DEF Special, RdeviceOf
  <2>2. v["size"] = 0
    BY <1>15, <1>19, <2>1, Sizes
  <2>3. v["rdev"] = Makedev(h.rdevmaj, h.rdevmin)
    BY <1>14, <1>15, <1>19, <2>1, MakedevIs
  <2>4. raw.size = 0
    BY <1>9, <2>2 DEF Shared
  <2>5. read = raw
    BY <1>6, <2>4 DEF UndoHp, IsHpSpecial
  <2>6. read.size = h.size
    BY <1>14, <1>19, <2>4, <2>5 DEF Special
  <2>7. read.rdevmaj = h.rdevmaj % Byte /\ read.rdevmin = h.rdevmin % Byte
    <3>1. /\ Major(Makedev(h.rdevmaj, h.rdevmin)) = h.rdevmaj % Byte
          /\ Minor(Makedev(h.rdevmaj, h.rdevmin)) = h.rdevmin % Byte
      BY <1>14, MakedevIs
    <3> QED BY <1>10, <1>19, <2>3, <2>5, <3>1
  <2> QED BY <1>11, <1>13, <1>16, <2>6, <2>7
<1>20. CASE h.kind \in Special /\ fmt \notin New /\ fmt \in Hp
  <2>1. vals["size"] = Makedev(h.rdevmaj, h.rdevmin) /\ vals["rdev"] = Makedev(0, 1)
    BY <1>2, <1>20 DEF RdeviceOf, HpSize, HpDevice
  <2>2. v["size"] = Makedev(h.rdevmaj, h.rdevmin)
    BY <1>14, <1>15, <1>20, <2>1, MakedevIs
  <2>3. v["rdev"] = Makedev(0, 1)
    BY <1>15, <1>20, <2>1, MakedevIs
  <2>4. raw.rdevmaj = 0 /\ raw.rdevmin = 1
    <3>1. 0 % Byte = 0 /\ 1 % Byte = 1
      BY Sizes
    <3>2. Major(Makedev(0, 1)) = 0 % Byte /\ Minor(Makedev(0, 1)) = 1 % Byte
      BY MakedevIs
    <3>3. raw.rdevmaj = Major(v["rdev"]) /\ raw.rdevmin = Minor(v["rdev"])
      BY <1>10, <1>20
    <3> QED BY <2>3, <3>1, <3>2, <3>3, Zenon
  <2>5. raw.size = Makedev(h.rdevmaj, h.rdevmin)
    BY <1>9, <2>2 DEF Shared
  <2>6. CASE raw.size = 0
    <3>1. read = raw
      BY <1>6, <2>6 DEF UndoHp, IsHpSpecial
    <3>2. read.size = h.size
      BY <1>14, <1>20, <2>6, <3>1 DEF Special
    <3>3. h.rdevmaj % Byte = Major(0) /\ h.rdevmin % Byte = Minor(0)
      <4>1. /\ Major(Makedev(h.rdevmaj, h.rdevmin)) = h.rdevmaj % Byte
            /\ Minor(Makedev(h.rdevmaj, h.rdevmin)) = h.rdevmin % Byte
        BY <1>14, MakedevIs
      <4> QED BY <2>5, <2>6, <4>1
    <3>4. Major(0) = 0 /\ Minor(0) = 0
      BY Sizes DEF Major, Minor
    <3> QED BY <1>11, <1>13, <1>16, <3>2, <3>3, <3>4
  <2>7. CASE raw.size # 0
    <3>1. IsHpSpecial(g, raw)
      BY <1>3, <1>9, <1>20, <2>4, <2>7 DEF IsHpSpecial
    <3>2. read.size = 0 /\ read.rdevmaj = Major(raw.size) /\ read.rdevmin = Minor(raw.size)
      BY <1>6, <1>8, <3>1 DEF UndoHp, HeadersRead
    <3>3. read.size = h.size
      BY <1>14, <1>20, <3>2 DEF Special
    <3>4. read.rdevmaj = h.rdevmaj % Byte /\ read.rdevmin = h.rdevmin % Byte
      BY <1>14, <2>5, <3>2, MakedevIs
    <3> QED BY <1>11, <1>13, <1>16, <3>3, <3>4
  <2> QED BY <2>6, <2>7
<1> QED BY <1>17, <1>18, <1>19, <1>20


-------------------------------------------------------------------------------
(* The places of an archive.  A header at p is followed by its name and    *)
(* its padding, and then by the contents; the reader may look for a header *)
(* at a border, where a header or a cell that is to be skipped follows.    *)
Loose(cell) == cell.what = "header" \/ Unexpected(cell)

(* While the contents of the last header are not written (cur is then not  *)
(* 0) its end is no border.                                                *)
Border(a, e, c) ==
  e \in 0 .. Len(a) /\ IF e = Len(a) THEN c = 0 ELSE Loose(a[e + 1])

EndOfHeader(p, h) == p + h.namesize + SkipPadding(fmt, h.namesize + HeaderSize(fmt))

(* The contents that follow a header, of as many bytes as the casts make   *)
(* of its size                                                             *)
Stored(h) == AsUsize(AsI32(h.size))
EndOfEntry(p, h) ==
  EndOfHeader(p, h) + Stored(h) + IF h.kind = "reg" THEN SkipPadding(fmt, h.size) ELSE 0

HeaderAt(a, p, of, h) ==
  /\ p \in Nat \ {0}
  /\ a[p] = CellOf(of, h)
  /\ ~TooWide(fmt, "namesize", h.namesize) /\ ~TooWide(fmt, "size", h.size)
  /\ EndOfHeader(p, h) <= Len(a)
  /\ \A k \in 1 .. h.namesize : a[p + k] = [what |-> "name", of |-> of, nth |-> k]
  /\ \A k \in p + h.namesize + 1 .. EndOfHeader(p, h) :
       a[k].what = "pad" /\ fmt \notin OldAscii

ContentsAt(a, p, of, h, c) ==
  /\ \A k \in 1 .. Stored(h) :
       a[EndOfHeader(p, h) + k] = [what |-> "data", of |-> of, nth |-> k]
  /\ \A k \in EndOfHeader(p, h) + Stored(h) + 1 .. EndOfEntry(p, h) :
       a[k].what = "pad" /\ fmt \notin OldAscii
  /\ Border(a, EndOfEntry(p, h), c)

OtherCells == [what : {"name", "pad", "data", "junk"}, of : Nat, nth : Nat]
HeaderCells == {CellOf(of, h) : of \in Nat, h \in Stats}
ArchiveCells == OtherCells \cup HeaderCells

(* The i-th header is at s[i]; it is that of the file ofs[i], or of the    *)
(* trailer, and has the numbers hs[i].                                     *)
Layout(a, s, hs, ofs, c) ==
  /\ a \in Seq(ArchiveCells) /\ s \in Seq(Nat) /\ hs \in Seq(Stats) /\ ofs \in Seq(Nat)
  /\ Len(hs) = Len(s) /\ Len(ofs) = Len(s)
  /\ Border(a, 0, c)
  /\ \A k \in 1 .. Len(a) : Unexpected(a[k]) => Border(a, k, c)
  /\ \A k \in 1 .. Len(a) : a[k].what = "header" => \E i \in 1 .. Len(s) : s[i] = k
  /\ \A i \in 1 .. Len(s) : s[i] <= Len(a) /\ HeaderAt(a, s[i], ofs[i], hs[i])
  /\ \A i \in 1 .. Len(s) :
       (c # 0 => i < Len(s)) => ContentsAt(a, s[i], ofs[i], hs[i], c)
  /\ c # 0 => Len(s) > 0 /\ EndOfHeader(s[Len(s)], hs[Len(s)]) = Len(a)
  /\ \A i, j \in 1 .. Len(s) : i < j => s[i] < s[j]

LEMMA Paddings ==
  ASSUME NEW f \in Formats, NEW n \in Nat
  PROVE  /\ SkipPadding(f, n) \in Nat /\ PadOutput(f, n) \in Nat
         /\ f \notin OldAscii => SkipPadding(f, n) = PadOutput(f, n)
         /\ f \in OldAscii => SkipPadding(f, n) = 0
         /\ HeaderSize(f) \in Nat
<1>1. CASE f \in New
  BY <1>1 DEF SkipPadding, PadOutput, HeaderSize, New, OldAscii, Bin
<1>2. CASE f \in OldAscii
  BY <1>2 DEF SkipPadding, PadOutput, HeaderSize, New, OldAscii, Bin
<1>3. CASE f \in Bin
  BY <1>3 DEF SkipPadding, PadOutput, HeaderSize, New, OldAscii, Bin
<1> QED BY <1>1, <1>2, <1>3 DEF Formats

(* What the casts make of a size: below Half it stays what it is.          *)
LEMMA CastIs ==
  ASSUME NEW v \in Nat
  PROVE  /\ AsI32(v) \in Int /\ AsUsize(AsI32(v)) \in Nat
         /\ v < Half => AsI32(v) = v /\ AsUsize(AsI32(v)) = v
         /\ AsI32(v) >= 0 => AsUsize(AsI32(v)) = AsI32(v)
<1>1. 2 * Half \in Nat \ {0} /\ Word \in Nat \ {0} /\ Half \in Nat \ {0} /\ Word >= 2 * Half
  BY CastsAssumption
<1>2. PICK w \in 0 .. 2 * Half - 1 : w = v % (2 * Half)
  BY <1>1
<1>3. v < Half => w = v
  BY <1>1, <1>2
<1>4. PICK i \in Int : i = AsI32(v) /\ i = IF w < Half THEN w ELSE w - 2 * Half
  BY <1>1, <1>2 DEF AsI32
<1>5. AsUsize(i) = i % Word /\ i % Word \in Nat
  BY <1>1 DEF AsUsize
<1>6. i >= 0 => i = w /\ i < Word
  BY <1>1, <1>2, <1>4
<1>7. i >= 0 => i % Word = i
  BY <1>1, <1>6
<1>8. v < Half => i = v
  BY <1>1, <1>3, <1>4
<1> QED BY <1>4, <1>5, <1>7, <1>8

LEMMA EndsType ==
  ASSUME OptionsOK, NEW p \in Nat, NEW h \in Stats
  PROVE  /\ h.namesize \in Nat /\ h.size \in Nat /\ Stored(h) \in Nat
         /\ EndOfHeader(p, h) \in Nat /\ EndOfHeader(p, h) >= p + h.namesize
         /\ EndOfEntry(p, h) \in Nat /\ EndOfEntry(p, h) >= EndOfHeader(p, h) + Stored(h)
<1>1. h.namesize \in Nat /\ h.size \in Nat /\ Stored(h) \in Nat
  BY CastIs DEF Stats, Stored
<1>2. fmt \in Formats /\ HeaderSize(fmt) \in Nat
  BY <1>1, Paddings DEF OptionsOK
<1>3. PICK n \in Nat : n = h.namesize + HeaderSize(fmt)
  BY <1>1, <1>2
<1>4. SkipPadding(fmt, n) \in Nat /\ SkipPadding(fmt, h.size) \in Nat
  BY <1>1, <1>2, Paddings
<1>5. EndOfHeader(p, h) \in Nat /\ EndOfHeader(p, h) >= p + h.namesize
  BY <1>1, <1>3, <1>4 DEF EndOfHeader
<1> QED BY <1>1, <1>4, <1>5 DEF EndOfEntry

LEMMA CellsAre ==
  ASSUME NEW what \in {"name", "pad", "data", "junk"}, NEW of \in Nat, NEW n \in Nat
  PROVE  /\ Cells(what, of, n) \in Seq(ArchiveCells)
         /\ Len(Cells(what, of, n)) = n
         /\ \A k \in 1 .. n : Cells(what, of, n)[k] = [what |-> what, of |-> of, nth |-> k]
<1>1. ASSUME NEW k \in 1 .. n PROVE [what |-> what, of |-> of, nth |-> k] \in ArchiveCells
  <2>1. [what |-> what, of |-> of, nth |-> k]
          \in OtherCells
    BY DEF OtherCells
  <2> QED BY <2>1 DEF ArchiveCells
<1> QED BY <1>1 DEF Cells

(* The cells of a header in their order                                    *)
LEMMA WholeHeaderIs ==
  ASSUME OptionsOK, NEW of \in Nat, NEW h \in Stats, NEW x,
         x = WholeHeader(of, h, ValuesToWrite(fmt, h))
  PROVE  /\ x \in Seq(ArchiveCells)
         /\ Len(x) = EndOfHeader(1, h)
         /\ x[1] = CellOf(of, h)
         /\ \A k \in 1 .. h.namesize : x[1 + k] = [what |-> "name", of |-> of, nth |-> k]
         /\ \A k \in h.namesize + 2 .. Len(x) : x[k].what = "pad" /\ fmt \notin OldAscii
<1>1. PICK n \in Nat : n = h.namesize
  BY DEF Stats
<1>2. fmt \in Formats /\ HeaderSize(fmt) \in Nat
  BY <1>1, Paddings DEF OptionsOK
<1>3. PICK m \in Nat : m = n + HeaderSize(fmt)
  BY <1>1, <1>2
<1>4. PICK pad \in Nat : /\ pad = IF fmt \in OldAscii THEN 0 ELSE PadOutput(fmt, m)
                         /\ pad = SkipPadding(fmt, m)
  BY <1>2, Paddings
<1>5. PICK first \in Seq(ArchiveCells) : first = << CellOf(of, h) >>
  <2>1. CellOf(of, h) \in ArchiveCells
    BY DEF ArchiveCells, HeaderCells
  <2>2. PICK c \in ArchiveCells : c = CellOf(of, h)
    BY <2>1
  <2>3. << c >> \in Seq(ArchiveCells)
    OBVIOUS
  <2> QED BY <2>2, <2>3, Zenon
<1>6. PICK name \in Seq(ArchiveCells) :
        /\ name = Cells("name", of, n) /\ Len(name) = n
        /\ \A k \in 1 .. n : name[k] = [what |-> "name", of |-> of, nth |-> k]
  <2>1. /\ Cells("name", of, n) \in Seq(ArchiveCells)
        /\ Len(Cells("name", of, n)) = n
        /\ \A k \in 1 .. n : Cells("name", of, n)[k] = [what |-> "name", of |-> of, nth |-> k]
    BY CellsAre
  <2> QED BY <2>1, Zenon
<1>7. PICK last \in Seq(ArchiveCells) :
        /\ last = Cells("pad", of, pad) /\ Len(last) = pad
        /\ \A k \in 1 .. pad : last[k] = [what |-> "pad", of |-> of, nth |-> k]
  <2>1. /\ Cells("pad", of, pad) \in Seq(ArchiveCells)
        /\ Len(Cells("pad", of, pad)) = pad
        /\ \A k \in 1 .. pad : Cells("pad", of, pad)[k] = [what |-> "pad", of |-> of, nth |-> k]
    BY CellsAre
  <2> QED BY <2>1, Zenon
<1>8. x = first \o name \o last
  BY <1>1, <1>3, <1>4, <1>5, <1>6, <1>7 DEF WholeHeader, CellOf
<1>9. Len(first) = 1 /\ first[1] = CellOf(of, h)
  BY <1>5
<1>10. PICK y \in Seq(ArchiveCells) :
         /\ y = first \o name /\ Len(y) = 1 + n
         /\ y[1] = first[1]
         /\ \A k \in 1 .. n : y[1 + k] = name[k]
  <2>1. /\ first \o name \in Seq(ArchiveCells)
        /\ Len(first \o name) = Len(first) + Len(name)
        /\ \A k \in 1 .. Len(first) : (first \o name)[k] = first[k]
        /\ \A k \in 1 .. Len(name) : (first \o name)[Len(first) + k] = name[k]
    BY Appending
  <2>2. (first \o name)[1] = first[1]
    BY <1>9, <2>1
  <2>3. Len(first) = 1 /\ Len(name) = n
    BY <1>6, <1>9
  <2>4. \A k \in 1 .. n : (first \o name)[1 + k] = name[k]
    BY <2>1, <2>3, Zenon
  <2>5. Len(first \o name) = 1 + n
    BY <2>1, <2>3, Zenon
  <2> QED BY <2>1, <2>2, <2>4, <2>5, Zenon
<1>11. /\ y \o last \in Seq(ArchiveCells)
       /\ Len(y \o last) = Len(y) + Len(last)
       /\ \A k \in 1 .. Len(y) : (y \o last)[k] = y[k]
       /\ \A k \in 1 .. Len(last) : (y \o last)[Len(y) + k] = last[k]
  BY Appending
<1>12. /\ x \in Seq(ArchiveCells) /\ Len(x) = 1 + n + pad
       /\ \A k \in 1 .. 1 + n : x[k] = y[k]
       /\ \A k \in 1 .. pad : x[1 + n + k] = last[k]
  BY <1>7, <1>8, <1>10, <1>11
<1>13. Len(x) = EndOfHeader(1, h)
  BY <1>1, <1>3, <1>4, <1>12 DEF EndOfHeader
<1>14. x[1] = CellOf(of, h)
  <2>1. 1 \in 1 .. 1 + n
    BY <1>1
  <2>2. x[1] = y[1]
    BY <1>12, <2>1, Zenon
  <2> QED BY <1>9, <1>10, <2>2, Zenon
<1>15. \A k \in 1 .. n : x[1 + k] = [what |-> "name", of |-> of, nth |-> k]
  <2> TAKE k \in 1 .. n
  <2>1. 1 + k \in 1 .. 1 + n
    OBVIOUS
  <2> QED BY <1>6, <1>10, <1>12, <2>1, Zenon
<1>16. ASSUME NEW k \in n + 2 .. Len(x) PROVE x[k].what = "pad" /\ fmt \notin OldAscii
  <2>1. k - (1 + n) \in 1 .. pad /\ 1 + n + (k - (1 + n)) = k /\ pad # 0
    BY <1>12
  <2>2. x[k] = last[k - (1 + n)]
    BY <1>12, <2>1
  <2>3. last[k - (1 + n)] = [what |-> "pad", of |-> of, nth |-> k - (1 + n)]
    BY <1>7, <2>1, Zenon
  <2>4. last[k - (1 + n)].what = "pad"
    BY <2>3
  <2> QED BY <1>4, <2>1, <2>2, <2>4
<1> QED BY <1>1, <1>12, <1>13, <1>14, <1>15, <1>16


LEMMA CellFacts ==
  /\ \A of, h : CellOf(of, h).what = "header" /\ CellOf(of, h).of = of /\ CellOf(of, h).kind = h.kind
  /\ \A of, h : Loose(CellOf(of, h)) /\ ~Unexpected(CellOf(of, h))
BY DEF CellOf, HeaderCell, Loose, Unexpected

(* b is a with more at its end; c and d are the numbers of the file of     *)
(* which they want the contents.                                           *)
Extends(a, b) == Len(a) <= Len(b) /\ \A k \in 1 .. Len(a) : b[k] = a[k]
Follows(a, b, c, d) ==
  c = 0 => IF Len(b) = Len(a) THEN d = 0 ELSE Loose(b[Len(a) + 1])

Kept(a, b, s, hs, ofs, c, d) ==
  /\ Border(b, 0, d)
  /\ \A k \in 1 .. Len(a) : Unexpected(b[k]) => Border(b, k, d)
  /\ \A k \in 1 .. Len(a) : b[k].what = "header" => \E i \in 1 .. Len(s) : s[i] = k
  /\ \A i \in 1 .. Len(s) : s[i] <= Len(b) /\ HeaderAt(b, s[i], ofs[i], hs[i])
  /\ \A i \in 1 .. Len(s) :
       (c # 0 => i < Len(s)) => ContentsAt(b, s[i], ofs[i], hs[i], d)

LEMMA BorderKept ==
  ASSUME NEW a \in Seq(ArchiveCells), NEW b \in Seq(ArchiveCells),
         NEW o, NEW q, NEW e,
         Extends(a, b), Follows(a, b, o, q),
         Border(a, e, o)
  PROVE  Border(b, e, q)
<1>1. e \in 0 .. Len(a) /\ IF e = Len(a) THEN o = 0 ELSE Loose(a[e + 1])
  BY DEF Border
<1> USE DEF Extends, Follows
<1>2. e \in 0 .. Len(b) /\ Len(a) \in Nat /\ Len(b) \in Nat
  BY <1>1
<1>3. CASE e = Len(a)
  BY <1>1, <1>2, <1>3 DEF Border
<1>4. CASE e < Len(a)
  <2>1. e + 1 \in 1 .. Len(a)
    BY <1>1, <1>2, <1>4
  <2>2. b[e + 1] = a[e + 1]
    BY <2>1
  <2>3. Loose(b[e + 1]) /\ e # Len(b)
    BY <1>1, <1>2, <1>4, <2>2
  <2> QED BY <1>2, <2>3 DEF Border
<1> QED BY <1>1, <1>2, <1>3, <1>4

LEMMA HeaderKept ==
  ASSUME OptionsOK, NEW a \in Seq(ArchiveCells), NEW b \in Seq(ArchiveCells),
         Extends(a, b),
         NEW p \in Nat, NEW of \in Nat, NEW h \in Stats, p <= Len(a), HeaderAt(a, p, of, h)
  PROVE  HeaderAt(b, p, of, h)
<1>1. PICK n \in Nat, e \in Nat : n = h.namesize /\ e = EndOfHeader(p, h) /\ e >= p + n
  BY EndsType
<1>2. /\ p \in Nat \ {0} /\ a[p] = CellOf(of, h)
      /\ ~TooWide(fmt, "namesize", h.namesize) /\ ~TooWide(fmt, "size", h.size)
      /\ e <= Len(a)
      /\ \A k \in 1 .. n : a[p + k] = [what |-> "name", of |-> of, nth |-> k]
      /\ \A k \in p + n + 1 .. e : a[k].what = "pad" /\ fmt \notin OldAscii
  BY <1>1 DEF HeaderAt
<1> USE DEF Extends
<1>3. b[p] = CellOf(of, h) /\ e <= Len(b)
  BY <1>2
<1>4. ASSUME NEW k \in 1 .. n PROVE b[p + k] = [what |-> "name", of |-> of, nth |-> k]
  <2>1. p + k \in 1 .. Len(a)
    BY <1>1, <1>2
  <2>2. b[p + k] = a[p + k]
    BY <2>1
  <2> QED BY <1>2, <2>2, Zenon
<1>5. ASSUME NEW k \in p + n + 1 .. e PROVE b[k].what = "pad" /\ fmt \notin OldAscii
  <2>1. k \in 1 .. Len(a)
    BY <1>1, <1>2
  <2>2. b[k] = a[k]
    BY <2>1
  <2> QED BY <1>2, <2>2, Zenon
<1> QED BY <1>1, <1>2, <1>3, <1>4, <1>5 DEF HeaderAt

LEMMA ContentsKept ==
  ASSUME OptionsOK, NEW a \in Seq(ArchiveCells), NEW b \in Seq(ArchiveCells),
         NEW o, NEW q, \A e : Border(a, e, o) => Border(b, e, q),
         Extends(a, b),
         NEW p \in Nat, NEW of \in Nat, NEW h \in Stats, ContentsAt(a, p, of, h, o)
  PROVE  ContentsAt(b, p, of, h, q)
<1>1. PICK n \in Nat, e \in Nat, l \in Nat :
        n = Stored(h) /\ e = EndOfHeader(p, h) /\ l = EndOfEntry(p, h) /\ l >= e + n
  BY EndsType
<1>2. /\ \A k \in 1 .. n : a[e + k] = [what |-> "data", of |-> of, nth |-> k]
      /\ \A k \in e + n + 1 .. l : a[k].what = "pad" /\ fmt \notin OldAscii
      /\ Border(a, l, o)
  BY <1>1 DEF ContentsAt
<1> USE DEF Extends
<1>3. l <= Len(a)
  BY <1>2 DEF Border
<1>4. Border(b, l, q)
  BY <1>2
<1>5. ASSUME NEW k \in 1 .. n PROVE b[e + k] = [what |-> "data", of |-> of, nth |-> k]
  <2>1. e + k \in 1 .. Len(a)
    BY <1>1, <1>3
  <2>2. b[e + k] = a[e + k]
    BY <2>1
  <2> QED BY <1>2, <2>2, Zenon
<1>6. ASSUME NEW k \in e + n + 1 .. l PROVE b[k].what = "pad" /\ fmt \notin OldAscii
  <2>1. k \in 1 .. Len(a)
    BY <1>1, <1>3
  <2>2. b[k] = a[k]
    BY <2>1
  <2> QED BY <1>2, <2>2, Zenon
<1> QED BY <1>1, <1>4, <1>5, <1>6 DEF ContentsAt

(* What is appended to an archive leaves the places in it what they are.   *)
LEMMA LayoutGrows ==
  ASSUME OptionsOK, NEW a, NEW s, NEW hs, NEW ofs, NEW o,
         Layout(a, s, hs, ofs, o),
         NEW b \in Seq(ArchiveCells), NEW q,
         Extends(a, b), Follows(a, b, o, q)
  PROVE  Kept(a, b, s, hs, ofs, o, q)
<1>1. /\ a \in Seq(ArchiveCells) /\ s \in Seq(Nat) /\ hs \in Seq(Stats) /\ ofs \in Seq(Nat)
      /\ Len(hs) = Len(s) /\ Len(ofs) = Len(s)
      /\ Border(a, 0, o)
      /\ \A k \in 1 .. Len(a) : Unexpected(a[k]) => Border(a, k, o)
      /\ \A k \in 1 .. Len(a) : a[k].what = "header" => \E i \in 1 .. Len(s) : s[i] = k
      /\ \A i \in 1 .. Len(s) : s[i] <= Len(a) /\ HeaderAt(a, s[i], ofs[i], hs[i])
      /\ \A i \in 1 .. Len(s) :
           (o # 0 => i < Len(s)) => ContentsAt(a, s[i], ofs[i], hs[i], o)
  BY DEF Layout
<1>2. \A e : Border(a, e, o) => Border(b, e, q)
  BY <1>1, BorderKept
<1>3. \A k \in 1 .. Len(a) : Unexpected(b[k]) => Border(b, k, q)
  BY <1>1, <1>2 DEF Extends
<1>4. \A k \in 1 .. Len(a) : b[k].what = "header" => \E i \in 1 .. Len(s) : s[i] = k
  BY <1>1 DEF Extends
<1>5. \A i \in 1 .. Len(s) : s[i] \in Nat /\ hs[i] \in Stats /\ ofs[i] \in Nat
  BY <1>1
<1>6. ASSUME NEW i \in 1 .. Len(s)
      PROVE  /\ s[i] <= Len(b) /\ HeaderAt(b, s[i], ofs[i], hs[i])
             /\ (o # 0 => i < Len(s)) => ContentsAt(b, s[i], ofs[i], hs[i], q)
  <2>1. PICK p \in Nat, h \in Stats, of \in Nat : p = s[i] /\ h = hs[i] /\ of = ofs[i]
    BY <1>5
  <2>2. p <= Len(a) /\ HeaderAt(a, p, of, h)
    BY <1>1, <2>1
  <2>3. (o # 0 => i < Len(s)) => ContentsAt(a, p, of, h, o)
    BY <1>1, <2>1, Zenon
  <2>4. HeaderAt(b, p, of, h)
    BY <1>1, <2>2, HeaderKept
  <2>5. ASSUME ContentsAt(a, p, of, h, o) PROVE ContentsAt(b, p, of, h, q)
    BY <1>1, <1>2, <2>5, ContentsKept
  <2>6. p <= Len(b)
    BY <1>1, <2>2 DEF Extends
  <2> QED BY <2>1, <2>3, <2>4, <2>5, <2>6, Zenon
<1> QED BY <1>1, <1>2, <1>3, <1>4, <1>6, Zenon DEF Kept


LEMMA LayoutIs ==
  ASSUME NEW a, NEW s, NEW hs, NEW ofs, NEW c, Layout(a, s, hs, ofs, c)
  PROVE  /\ a \in Seq(ArchiveCells) /\ s \in Seq(Nat) /\ hs \in Seq(Stats) /\ ofs \in Seq(Nat)
         /\ Len(hs) = Len(s) /\ Len(ofs) = Len(s)
         /\ Border(a, 0, c)
         /\ \A k \in 1 .. Len(a) : Unexpected(a[k]) => Border(a, k, c)
         /\ \A k \in 1 .. Len(a) : a[k].what = "header" => \E i \in 1 .. Len(s) : s[i] = k
         /\ \A i \in 1 .. Len(s) : s[i] <= Len(a) /\ HeaderAt(a, s[i], ofs[i], hs[i])
         /\ \A i \in 1 .. Len(s) :
              (c # 0 => i < Len(s)) => ContentsAt(a, s[i], ofs[i], hs[i], c)
         /\ c # 0 => Len(s) > 0 /\ EndOfHeader(s[Len(s)], hs[Len(s)]) = Len(a)
         /\ \A i, j \in 1 .. Len(s) : i < j => s[i] < s[j]
         /\ \A i \in 1 .. Len(s) : s[i] \in Nat \ {0} /\ hs[i] \in Stats /\ ofs[i] \in Nat
<1>1. Layout(a, s, hs, ofs, c)
  OBVIOUS
<1>2. \A i \in 1 .. Len(s) : s[i] \in Nat \ {0}
  BY <1>1 DEF Layout, HeaderAt
<1>3. /\ s \in Seq(Nat) /\ hs \in Seq(Stats) /\ ofs \in Seq(Nat)
      /\ Len(hs) = Len(s) /\ Len(ofs) = Len(s)
  BY <1>1 DEF Layout
<1>4. \A i \in 1 .. Len(s) : hs[i] \in Stats /\ ofs[i] \in Nat
  BY <1>3
<1> QED BY <1>1, <1>2, <1>4, Zenon DEF Layout

LEMMA Appended ==
  ASSUME NEW S, NEW t \in Seq(S), NEW v \in S, NEW u, u = Append(t, v)
  PROVE  /\ u \in Seq(S) /\ Len(u) = Len(t) + 1
         /\ \A i \in 1 .. Len(t) : u[i] = t[i]
         /\ u[Len(t) + 1] = v
OBVIOUS

(* WriteOutHeader and WriteTrailer: a header and its name at the end       *)
LEMMA HeaderGrows ==
  ASSUME OptionsOK, NEW a, NEW s, NEW hs, NEW ofs, Layout(a, s, hs, ofs, 0),
         NEW c, c # 0,
         NEW of \in Nat, NEW h \in Stats,
         ~TooWide(fmt, "namesize", h.namesize), ~TooWide(fmt, "size", h.size),
         NEW b, b = a \o WholeHeader(of, h, ValuesToWrite(fmt, h))
  PROVE  Layout(b, Append(s, Len(a) + 1), Append(hs, h), Append(ofs, of), c)
<1>1. /\ a \in Seq(ArchiveCells) /\ s \in Seq(Nat) /\ hs \in Seq(Stats) /\ ofs \in Seq(Nat)
      /\ Len(hs) = Len(s) /\ Len(ofs) = Len(s)
      /\ \A i \in 1 .. Len(s) : s[i] \in Nat \ {0} /\ s[i] <= Len(a)
      /\ \A i, j \in 1 .. Len(s) : i < j => s[i] < s[j]
  BY LayoutIs
<1>2. PICK n \in Nat, m \in Nat : n = Len(s) /\ m = Len(a)
  <2>1. Len(s) \in Nat /\ Len(a) \in Nat
    BY <1>1
  <2> QED BY <2>1
<1>3. PICK x \in Seq(ArchiveCells) :
        /\ x = WholeHeader(of, h, ValuesToWrite(fmt, h))
        /\ Len(x) = EndOfHeader(1, h)
        /\ x[1] = CellOf(of, h)
        /\ \A k \in 1 .. h.namesize : x[1 + k] = [what |-> "name", of |-> of, nth |-> k]
        /\ \A k \in h.namesize + 2 .. Len(x) : x[k].what = "pad" /\ fmt \notin OldAscii
  <2> DEFINE y == WholeHeader(of, h, ValuesToWrite(fmt, h))
  <2> HIDE DEF y
  <2>1. /\ y \in Seq(ArchiveCells)
        /\ Len(y) = EndOfHeader(1, h)
        /\ y[1] = CellOf(of, h)
        /\ \A k \in 1 .. h.namesize : y[1 + k] = [what |-> "name", of |-> of, nth |-> k]
        /\ \A k \in h.namesize + 2 .. Len(y) : y[k].what = "pad" /\ fmt \notin OldAscii
    BY WholeHeaderIs DEF y
  <2> QED BY <2>1, Zenon DEF y
<1>4. PICK ns \in Nat, e \in Nat : ns = h.namesize /\ e = EndOfHeader(1, h) /\ e >= 1 + ns
  <2>1. h.namesize \in Nat /\ EndOfHeader(1, h) \in Nat /\ EndOfHeader(1, h) >= 1 + h.namesize
    BY EndsType
  <2> QED BY <2>1
<1>5. EndOfHeader(m + 1, h) = m + e
  <2>1. PICK pad \in Nat : pad = SkipPadding(fmt, ns + HeaderSize(fmt))
    <3>1. fmt \in Formats /\ HeaderSize(fmt) \in Nat
      BY Paddings DEF OptionsOK
    <3>2. ns + HeaderSize(fmt) \in Nat
      BY <3>1
    <3> QED BY <3>1, <3>2, Paddings
  <2>2. SkipPadding(fmt, h.namesize + HeaderSize(fmt)) = pad
    BY <1>4, <2>1, Zenon
  <2>3. e = 1 + ns + pad /\ EndOfHeader(m + 1, h) = m + 1 + ns + pad
    BY <1>4, <2>2, Zenon DEF EndOfHeader
  <2> QED BY <2>3
<1>6. /\ b \in Seq(ArchiveCells) /\ Len(b) = m + e
      /\ \A k \in 1 .. m : b[k] = a[k]
      /\ \A k \in 1 .. e : b[m + k] = x[k]
  <2>1. /\ a \o x \in Seq(ArchiveCells) /\ Len(a \o x) = Len(a) + Len(x)
        /\ \A k \in 1 .. Len(a) : (a \o x)[k] = a[k]
        /\ \A k \in 1 .. Len(x) : (a \o x)[Len(a) + k] = x[k]
    BY <1>1, Appending
  <2>2. b = a \o x
    BY <1>3
  <2>3. Len(a) = m /\ Len(x) = e
    BY <1>2, <1>3, <1>4
  <2>4. Len(b) = m + e
    BY <2>1, <2>2, <2>3, Zenon
  <2> QED BY <2>1, <2>2, <2>3, <2>4, Zenon
<1>7. b[m + 1] = CellOf(of, h)
  <2>1. 1 \in 1 .. e
    BY <1>4
  <2> QED BY <1>3, <1>6, <2>1, Zenon
<1>8. /\ Border(b, 0, c)
      /\ \A k \in 1 .. m : Unexpected(b[k]) => Border(b, k, c)
      /\ \A k \in 1 .. m : b[k].what = "header" => \E i \in 1 .. n : s[i] = k
      /\ \A i \in 1 .. n : s[i] <= Len(b) /\ HeaderAt(b, s[i], ofs[i], hs[i])
      /\ \A i \in 1 .. n : ContentsAt(b, s[i], ofs[i], hs[i], c)
  <2>1. Len(a) <= Len(b) /\ Len(b) # Len(a)
    BY <1>2, <1>4, <1>6
  <2>2. Loose(b[Len(a) + 1])
    BY <1>2, <1>7, CellFacts
  <2>3. \A k \in 1 .. Len(a) : b[k] = a[k]
    BY <1>2, <1>6
  <2>4. PICK o : o = 0
    OBVIOUS
  <2>5. Layout(a, s, hs, ofs, o)
    BY <2>4
  <2>6. b \in Seq(ArchiveCells) /\ Extends(a, b) /\ Follows(a, b, o, c)
    BY <1>6, <2>1, <2>2, <2>3 DEF Extends, Follows
  <2>7. Kept(a, b, s, hs, ofs, o, c)
    BY <2>5, <2>6, LayoutGrows
  <2> QED BY <1>2, <2>4, <2>7, Zenon DEF Kept
<1>9. HeaderAt(b, m + 1, of, h)
  <2>1. \A k \in 1 .. ns : b[m + 1 + k] = [what |-> "name", of |-> of, nth |-> k]
    <3> TAKE k \in 1 .. ns
    <3>1. 1 + k \in 1 .. e
      BY <1>4
    <3> DEFINE l == 1 + k
    <3>3. m + 1 + k = m + l
      OBVIOUS
    <3>2. b[m + 1 + k] = x[1 + k]
      BY <1>6, <3>1, <3>3, Zenon
    <3> QED BY <1>3, <1>4, <3>2, Zenon
  <2>2. \A k \in m + 1 + ns + 1 .. m + e : b[k].what = "pad" /\ fmt \notin OldAscii
    <3> TAKE k \in m + 1 + ns + 1 .. m + e
    <3>1. PICK l \in ns + 2 .. e : k = m + l
      <4>1. k - m \in ns + 2 .. e /\ k = m + (k - m)
        OBVIOUS
      <4> QED BY <4>1
    <3>2. l \in 1 .. e
      OBVIOUS
    <3>3. b[k] = x[l]
      BY <1>6, <3>1, <3>2
    <3>4. l \in h.namesize + 2 .. Len(x)
      BY <1>3, <1>4, <3>1
    <3> QED BY <1>3, <3>3, <3>4, Zenon
  <2>3. m + 1 \in Nat \ {0} /\ m + e <= Len(b)
    BY <1>6
  <2> QED BY <1>4, <1>5, <1>7, <2>1, <2>2, <2>3 DEF HeaderAt
<1>10. \A k \in m + 2 .. m + e : ~Unexpected(b[k]) /\ b[k].what # "header"
  <2> TAKE k \in m + 2 .. m + e
  <2>1. CASE k <= m + 1 + ns
    <3>1. PICK l \in 1 .. ns : k = m + 1 + l
      <4>1. k - (m + 1) \in 1 .. ns /\ k = m + 1 + (k - (m + 1))
        BY <1>4, <2>1
      <4> QED BY <4>1
    <3>2. b[k] = [what |-> "name", of |-> of, nth |-> l]
      BY <1>4, <1>9, <3>1 DEF HeaderAt
    <3> QED BY <3>2 DEF Unexpected
  <2>2. CASE k > m + 1 + ns
    <3>1. k \in m + 1 + ns + 1 .. m + e
      BY <2>2
    <3>2. b[k].what = "pad" /\ fmt \notin OldAscii
      BY <1>4, <1>5, <1>9, <3>1 DEF HeaderAt
    <3> QED BY <3>2 DEF Unexpected
  <2>3. k <= m + 1 + ns \/ k > m + 1 + ns
    OBVIOUS
  <2> QED BY <2>1, <2>2, <2>3, Zenon
<1>11. PICK ss, gs, os : ss = Append(s, m + 1) /\ gs = Append(hs, h) /\ os = Append(ofs, of)
  OBVIOUS
<1>12. /\ ss \in Seq(Nat) /\ Len(ss) = n + 1 /\ \A i \in 1 .. n : ss[i] = s[i]
       /\ ss[n + 1] = m + 1
  <2>1. m + 1 \in Nat
    OBVIOUS
  <2>2. /\ ss \in Seq(Nat) /\ Len(ss) = Len(s) + 1
        /\ \A i \in 1 .. Len(s) : ss[i] = s[i]
        /\ ss[Len(s) + 1] = m + 1
    BY <1>1, <1>11, <2>1, Appended
  <2> QED BY <1>2, <2>2, Zenon
<1>13. /\ gs \in Seq(Stats) /\ Len(gs) = n + 1 /\ \A i \in 1 .. n : gs[i] = hs[i]
       /\ gs[n + 1] = h
  <2>1. /\ gs \in Seq(Stats) /\ Len(gs) = Len(hs) + 1
        /\ \A i \in 1 .. Len(hs) : gs[i] = hs[i]
        /\ gs[Len(hs) + 1] = h
    BY <1>1, <1>11, Appended
  <2> QED BY <1>1, <1>2, <2>1, Zenon
<1>14. /\ os \in Seq(Nat) /\ Len(os) = n + 1 /\ \A i \in 1 .. n : os[i] = ofs[i]
       /\ os[n + 1] = of
  <2>1. /\ os \in Seq(Nat) /\ Len(os) = Len(ofs) + 1
        /\ \A i \in 1 .. Len(ofs) : os[i] = ofs[i]
        /\ os[Len(ofs) + 1] = of
    BY <1>1, <1>11, Appended
  <2> QED BY <1>1, <1>2, <2>1, Zenon
<1>15. \A k \in 1 .. Len(b) : Unexpected(b[k]) => Border(b, k, c)
  <2> TAKE k \in 1 .. Len(b)
  <2>1. k \in 1 .. m \/ k = m + 1 \/ k \in m + 2 .. m + e
    BY <1>6
  <2>2. CASE k = m + 1
    BY <2>2, <1>7, CellFacts
  <2> QED BY <1>8, <1>10, <2>1, <2>2
<1>16. \A k \in 1 .. Len(b) : b[k].what = "header" => \E i \in 1 .. n + 1 : ss[i] = k
  <2> TAKE k \in 1 .. Len(b)
  <2>1. k \in 1 .. m \/ k = m + 1 \/ k \in m + 2 .. m + e
    BY <1>6
  <2>2. CASE k \in 1 .. m
    <3>1. SUFFICES ASSUME b[k].what = "header" PROVE \E i \in 1 .. n + 1 : ss[i] = k
      OBVIOUS
    <3>2. PICK i \in 1 .. n : s[i] = k
      BY <1>8, <2>2, <3>1
    <3>3. i \in 1 .. n + 1 /\ ss[i] = k
      BY <1>12, <3>2
    <3> QED BY <3>3
  <2>3. CASE k = m + 1
    <3>1. n + 1 \in 1 .. n + 1
      OBVIOUS
    <3> QED BY <1>12, <2>3, <3>1
  <2> QED BY <1>10, <2>1, <2>2, <2>3
<1>17. \A i \in 1 .. n + 1 : i \in 1 .. n \/ i = n + 1
  OBVIOUS
<1>18. \A i \in 1 .. n + 1 : ss[i] <= Len(b) /\ HeaderAt(b, ss[i], os[i], gs[i])
  <2>1. m + 1 <= Len(b)
    BY <1>4, <1>6
  <2>2. \A i \in 1 .. n : ss[i] <= Len(b) /\ HeaderAt(b, ss[i], os[i], gs[i])
    BY <1>8, <1>12, <1>13, <1>14, Zenon
  <2>3. ss[n + 1] <= Len(b) /\ HeaderAt(b, ss[n + 1], os[n + 1], gs[n + 1])
    BY <1>9, <1>12, <1>13, <1>14, <2>1, Zenon
  <2> QED BY <1>17, <2>2, <2>3, Zenon
<1>19. \A i \in 1 .. n + 1 : i < n + 1 => ContentsAt(b, ss[i], os[i], gs[i], c)
  <2> TAKE i \in 1 .. n + 1
  <2>1. i < n + 1 => i \in 1 .. n
    OBVIOUS
  <2> QED BY <1>8, <1>12, <1>13, <1>14, <2>1, Zenon
<1>20. \A i, j \in 1 .. n + 1 : i < j => ss[i] < ss[j]
  <2> TAKE i, j \in 1 .. n + 1
  <2> HAVE i < j
  <2>1. i \in 1 .. n /\ ss[i] = s[i]
    BY <1>12
  <2>2. CASE j \in 1 .. n
    BY <1>1, <1>2, <1>12, <2>1, <2>2
  <2>3. CASE j = n + 1
    <3>1. s[i] <= m /\ s[i] \in Nat
      BY <1>1, <1>2, <2>1
    <3>2. ss[j] = m + 1
      BY <1>12, <2>3, Zenon
    <3> QED BY <2>1, <3>1, <3>2
  <2> QED BY <2>2, <2>3
<1>21. n + 1 > 0 /\ EndOfHeader(ss[n + 1], gs[n + 1]) = Len(b)
  BY <1>5, <1>6, <1>12, <1>13
<1>22. Layout(b, ss, gs, os, c)
  <2>1. Len(ss) = n + 1 /\ Len(gs) = n + 1 /\ Len(os) = n + 1
    BY <1>12, <1>13, <1>14
  <2>2. \A i \in 1 .. n + 1 : (c # 0 => i < n + 1) => ContentsAt(b, ss[i], os[i], gs[i], c)
    BY <1>19
  <2> QED BY <1>6, <1>8, <1>12, <1>13, <1>14, <1>15, <1>16, <1>18, <1>20, <1>21, <2>1, <2>2, Zenon
       DEF Layout
<1> QED BY <1>2, <1>11, <1>22


LEMMA Joined ==
  ASSUME NEW S, NEW a \in Seq(S), NEW x \in Seq(S), NEW b, b = a \o x
  PROVE  /\ b \in Seq(S) /\ Len(b) = Len(a) + Len(x)
         /\ \A k \in 1 .. Len(a) : b[k] = a[k]
         /\ \A k \in 1 .. Len(x) : b[Len(a) + k] = x[k]
BY Appending

IsContents(x, of, h) ==
  /\ x \in Seq(ArchiveCells)
  /\ Len(x) = Stored(h) + IF h.kind = "reg" THEN PadOutput(fmt, h.size) ELSE 0
  /\ \A k \in 1 .. Stored(h) : x[k] = [what |-> "data", of |-> of, nth |-> k]
  /\ \A k \in Stored(h) + 1 .. Len(x) : x[k].what = "pad"

(* WriteContents; also the trailer, which has none                         *)
LEMMA ContentsGrow ==
  ASSUME OptionsOK, NEW a, NEW s, NEW hs, NEW ofs, NEW c, c # 0, Layout(a, s, hs, ofs, c),
         NEW h \in Stats, NEW of \in Nat, h = hs[Len(s)], of = ofs[Len(s)],
         NEW x, IsContents(x, of, h), NEW b, b = a \o x
  PROVE  Layout(b, s, hs, ofs, 0)
<1>1. /\ a \in Seq(ArchiveCells) /\ s \in Seq(Nat) /\ hs \in Seq(Stats) /\ ofs \in Seq(Nat)
      /\ Len(hs) = Len(s) /\ Len(ofs) = Len(s)
      /\ Len(s) > 0 /\ EndOfHeader(s[Len(s)], hs[Len(s)]) = Len(a)
      /\ \A i, j \in 1 .. Len(s) : i < j => s[i] < s[j]
      /\ \A i \in 1 .. Len(s) : s[i] \in Nat \ {0}
  BY LayoutIs
<1>2. PICK n \in Nat, m \in Nat : n = Len(s) /\ m = Len(a)
  <2>1. Len(s) \in Nat /\ Len(a) \in Nat
    BY <1>1
  <2> QED BY <2>1
<1>3. PICK w \in Nat, v \in Nat : w = Stored(h) /\ v = h.size
  BY EndsType
<1>4. PICK p \in Nat : p = IF h.kind = "reg" THEN PadOutput(fmt, h.size) ELSE 0
  <2>1. fmt \in Formats
    BY DEF OptionsOK
  <2>2. PadOutput(fmt, v) \in Nat
    BY <2>1, Paddings
  <2> QED BY <1>3, <2>2
<1>5. /\ x \in Seq(ArchiveCells) /\ Len(x) = w + p
      /\ \A k \in 1 .. w : x[k] = [what |-> "data", of |-> of, nth |-> k]
      /\ \A k \in w + 1 .. w + p : x[k].what = "pad"
  <2>1. /\ x \in Seq(ArchiveCells) /\ Len(x) = w + p
        /\ \A k \in 1 .. w : x[k] = [what |-> "data", of |-> of, nth |-> k]
        /\ \A k \in w + 1 .. Len(x) : x[k].what = "pad"
    BY <1>3, <1>4, Zenon DEF IsContents
  <2> QED BY <2>1
<1>6. n > 0 /\ n \in 1 .. n
  BY <1>1, <1>2
<1>7. PICK q \in Nat : q = s[n]
  BY <1>1, <1>2, <1>6
<1>8. EndOfHeader(q, h) = m
  BY <1>1, <1>2, <1>7, Zenon
<1>9. /\ b \in Seq(ArchiveCells) /\ Len(b) = m + w + p
      /\ \A k \in 1 .. m : b[k] = a[k]
      /\ \A k \in 1 .. w + p : b[m + k] = x[k]
  <2>1. /\ b \in Seq(ArchiveCells) /\ Len(b) = Len(a) + Len(x)
        /\ \A k \in 1 .. Len(a) : b[k] = a[k]
        /\ \A k \in 1 .. Len(x) : b[Len(a) + k] = x[k]
    <3>1. a \in Seq(ArchiveCells) /\ x \in Seq(ArchiveCells)
      BY <1>1, <1>5
    <3> QED BY <3>1, Joined
  <2>2. Len(a) = m /\ Len(x) = w + p
    BY <1>2, <1>5, Zenon
  <2>3. m + (w + p) = m + w + p
    OBVIOUS
  <2>4. Len(b) = m + w + p
    BY <2>1, <2>2, <2>3, Zenon
  <2> QED BY <2>1, <2>2, <2>4, Zenon
<1>10. Kept(a, b, s, hs, ofs, c, 0)
  <2>1. Extends(a, b) /\ Follows(a, b, c, 0)
    BY <1>2, <1>9 DEF Extends, Follows
  <2>2. PICK o : o = 0
    OBVIOUS
  <2>3. Kept(a, b, s, hs, ofs, c, o)
    BY <1>9, <2>1, <2>2, LayoutGrows
  <2> QED BY <2>2, <2>3
<1>11. /\ Border(b, 0, 0)
       /\ \A k \in 1 .. m : Unexpected(b[k]) => Border(b, k, 0)
       /\ \A k \in 1 .. m : b[k].what = "header" => \E i \in 1 .. n : s[i] = k
       /\ \A i \in 1 .. n : s[i] <= Len(b) /\ HeaderAt(b, s[i], ofs[i], hs[i])
       /\ \A i \in 1 .. n : i < n => ContentsAt(b, s[i], ofs[i], hs[i], 0)
  BY <1>2, <1>10, Zenon DEF Kept
<1>12. \A k \in 1 .. w : b[m + k] = [what |-> "data", of |-> of, nth |-> k]
  <2> TAKE k \in 1 .. w
  <2>1. k \in 1 .. w + p
    OBVIOUS
  <2> QED BY <1>9, <1>5, <2>1, Zenon
<1>13. \A k \in m + w + 1 .. m + w + p : b[k].what = "pad"
  <2> TAKE k \in m + w + 1 .. m + w + p
  <2>1. PICK l \in w + 1 .. w + p : k = m + l
    <3>1. k - m \in w + 1 .. w + p /\ k = m + (k - m)
      OBVIOUS
    <3> QED BY <3>1
  <2>2. l \in 1 .. w + p
    OBVIOUS
  <2>3. b[k] = x[l]
    BY <1>9, <2>1, <2>2, Zenon
  <2> QED BY <1>5, <2>3, Zenon
<1>14. PICK l \in Nat : /\ l = IF h.kind = "reg" THEN SkipPadding(fmt, h.size) ELSE 0
                        /\ fmt \notin OldAscii => l = p
                        /\ fmt \in OldAscii => l = 0 /\ p <= 1
  <2>1. fmt \in Formats
    BY DEF OptionsOK
  <2>2. /\ SkipPadding(fmt, v) \in Nat
        /\ fmt \notin OldAscii => SkipPadding(fmt, v) = PadOutput(fmt, v)
        /\ fmt \in OldAscii => SkipPadding(fmt, v) = 0
    BY <2>1, Paddings
  <2>3. fmt \in OldAscii => PadOutput(fmt, v) \in {0, 1}
    BY DEF PadOutput, OldAscii, New
  <2>4. CASE h.kind = "reg"
    BY <1>3, <1>4, <2>2, <2>3, <2>4
  <2>5. CASE h.kind # "reg"
    BY <1>4, <2>5
  <2> QED BY <2>4, <2>5
<1>15. EndOfEntry(q, h) = m + w + l
  BY <1>3, <1>8, <1>14, Zenon DEF EndOfEntry
<1>16. \A k \in m + w + 1 .. m + w + p : Unexpected(b[k]) => k = Len(b)
  <2> TAKE k \in m + w + 1 .. m + w + p
  <2> HAVE Unexpected(b[k])
  <2>1. b[k].what = "pad" /\ fmt \in OldAscii
    BY <1>13 DEF Unexpected
  <2>2. p <= 1
    BY <1>14, <2>1
  <2> QED BY <1>9, <2>2
<1>17. Border(b, Len(b), 0)
  BY <1>9 DEF Border
<1>18. Border(b, m + w + l, 0)
  <2>1. CASE l = p
    BY <1>9, <1>17, <2>1
  <2>2. CASE fmt \in OldAscii /\ p = 1
    <3>1. m + w + 1 \in m + w + 1 .. m + w + p
      BY <2>2
    <3>2. b[m + w + 1].what = "pad"
      BY <1>13, <3>1
    <3>3. Loose(b[m + w + 1])
      BY <2>2, <3>2 DEF Loose, Unexpected
    <3>4. l = 0
      BY <1>14, <2>2
    <3>5. m + w + l = m + w /\ m + w \in 0 .. Len(b)
      BY <1>9, <3>4
    <3> QED BY <3>3, <3>5 DEF Border
  <2>3. l = p \/ (fmt \in OldAscii /\ p = 1)
    BY <1>14
  <2> QED BY <2>1, <2>2, <2>3
<1>19. ContentsAt(b, q, of, h, 0)
  <2>1. \A k \in m + w + 1 .. m + w + l : b[k].what = "pad" /\ fmt \notin OldAscii
    <3> TAKE k \in m + w + 1 .. m + w + l
    <3>1. fmt \notin OldAscii /\ l = p
      BY <1>14
    <3> QED BY <1>13, <3>1
  <2> QED BY <1>3, <1>8, <1>12, <1>15, <1>18, <2>1, Zenon DEF ContentsAt
<1>20. \A k \in 1 .. Len(b) : k \in 1 .. m \/ k \in m + 1 .. m + w \/ k \in m + w + 1 .. m + w + p
  BY <1>9
<1>21. \A k \in m + 1 .. m + w : b[k].what = "data"
  <2> TAKE k \in m + 1 .. m + w
  <2>1. PICK j \in 1 .. w : k = m + j
    <3>1. k - m \in 1 .. w /\ k = m + (k - m)
      OBVIOUS
    <3> QED BY <3>1
  <2>2. b[k] = [what |-> "data", of |-> of, nth |-> j]
    BY <1>12, <2>1
  <2> QED BY <2>2
<1>22. \A k \in 1 .. Len(b) : Unexpected(b[k]) => Border(b, k, 0)
  <2> TAKE k \in 1 .. Len(b)
  <2>1. CASE k \in m + 1 .. m + w
    BY <1>21, <2>1 DEF Unexpected
  <2>2. CASE k \in m + w + 1 .. m + w + p
    BY <1>16, <1>17, <2>2
  <2> QED BY <1>11, <1>20, <2>1, <2>2
<1>23. \A k \in 1 .. Len(b) : b[k].what = "header" => \E i \in 1 .. n : s[i] = k
  <2> TAKE k \in 1 .. Len(b)
  <2>1. CASE k \in m + 1 .. m + w
    BY <1>21, <2>1
  <2>2. CASE k \in m + w + 1 .. m + w + p
    BY <1>13, <2>2
  <2> QED BY <1>11, <1>20, <2>1, <2>2
<1>24. \A i \in 1 .. n : ContentsAt(b, s[i], ofs[i], hs[i], 0)
  <2> TAKE i \in 1 .. n
  <2>1. i < n \/ i = n
    OBVIOUS
  <2>2. CASE i = n
    BY <1>2, <1>7, <1>19, <2>2, Zenon
  <2> QED BY <1>11, <2>1, <2>2, Zenon
<1> QED
  <2>1. \A i \in 1 .. Len(s) : (0 # 0 => i < Len(s)) => ContentsAt(b, s[i], ofs[i], hs[i], 0)
    BY <1>2, <1>24, Zenon
  <2>2. 0 # 0 => Len(s) > 0 /\ EndOfHeader(s[Len(s)], hs[Len(s)]) = Len(b)
    OBVIOUS
  <2>3. /\ \A k \in 1 .. Len(b) : b[k].what = "header" => \E i \in 1 .. Len(s) : s[i] = k
        /\ \A i \in 1 .. Len(s) : s[i] <= Len(b) /\ HeaderAt(b, s[i], ofs[i], hs[i])
    BY <1>2, <1>11, <1>23, Zenon
  <2> QED BY <1>1, <1>9, <1>11, <1>22, <2>1, <2>2, <2>3, Zenon DEF Layout

(* Junk: a cell that is to be skipped                                      *)
LEMMA JunkGrows ==
  ASSUME OptionsOK, NEW a, NEW s, NEW hs, NEW ofs, Layout(a, s, hs, ofs, 0),
         NEW b, b = a \o Cells("junk", 0, 1)
  PROVE  Layout(b, s, hs, ofs, 0)
<1>1. /\ a \in Seq(ArchiveCells) /\ s \in Seq(Nat) /\ hs \in Seq(Stats) /\ ofs \in Seq(Nat)
      /\ Len(hs) = Len(s) /\ Len(ofs) = Len(s)
      /\ \A i, j \in 1 .. Len(s) : i < j => s[i] < s[j]
  BY LayoutIs
<1>2. PICK n \in Nat, m \in Nat : n = Len(s) /\ m = Len(a)
  <2>1. Len(s) \in Nat /\ Len(a) \in Nat
    BY <1>1
  <2> QED BY <2>1
<1>3. PICK x \in Seq(ArchiveCells) :
        x = Cells("junk", 0, 1) /\ Len(x) = 1 /\ x[1].what = "junk"
  <2>1. /\ Cells("junk", 0, 1) \in Seq(ArchiveCells)
        /\ Len(Cells("junk", 0, 1)) = 1
        /\ \A k \in 1 .. 1 : Cells("junk", 0, 1)[k] = [what |-> "junk", of |-> 0, nth |-> k]
    BY CellsAre
  <2>2. 1 \in 1 .. 1
    OBVIOUS
  <2>3. Cells("junk", 0, 1)[1] = [what |-> "junk", of |-> 0, nth |-> 1]
    BY <2>1, <2>2, Zenon
  <2> QED BY <2>1, <2>3
<1>4. /\ b \in Seq(ArchiveCells) /\ Len(b) = m + 1
      /\ \A k \in 1 .. m : b[k] = a[k]
      /\ b[m + 1].what = "junk"
  <2>1. /\ a \o x \in Seq(ArchiveCells) /\ Len(a \o x) = Len(a) + Len(x)
        /\ \A k \in 1 .. Len(a) : (a \o x)[k] = a[k]
        /\ \A k \in 1 .. Len(x) : (a \o x)[Len(a) + k] = x[k]
    BY <1>1, Appending
  <2>2. b = a \o x /\ Len(a) = m
    BY <1>2, <1>3, Zenon
  <2>3. 1 \in 1 .. Len(x)
    BY <1>3
  <2>4. b[m + 1] = x[1]
    BY <2>1, <2>2, <2>3, Zenon
  <2> QED BY <1>3, <2>1, <2>2, <2>4, Zenon
<1>5. Loose(b[m + 1]) /\ Unexpected(b[m + 1])
  BY <1>4 DEF Loose, Unexpected
<1>6. Kept(a, b, s, hs, ofs, 0, 0)
  <2>1. PICK o : o = 0
    OBVIOUS
  <2>2. Len(b) # Len(a) /\ Len(a) <= Len(b)
    BY <1>2, <1>4
  <2>3. Loose(b[Len(a) + 1])
    BY <1>2, <1>5
  <2>4. Extends(a, b) /\ Follows(a, b, o, o)
    BY <1>2, <1>4, <2>2, <2>3 DEF Extends, Follows
  <2>5. Layout(a, s, hs, ofs, o)
    BY <2>1
  <2>6. Kept(a, b, s, hs, ofs, o, o)
    BY <1>4, <2>4, <2>5, LayoutGrows
  <2> QED BY <2>1, <2>6
<1>7. /\ Border(b, 0, 0)
      /\ \A k \in 1 .. m : Unexpected(b[k]) => Border(b, k, 0)
      /\ \A k \in 1 .. m : b[k].what = "header" => \E i \in 1 .. Len(s) : s[i] = k
      /\ \A i \in 1 .. Len(s) : s[i] <= Len(b) /\ HeaderAt(b, s[i], ofs[i], hs[i])
      /\ \A i \in 1 .. Len(s) : ContentsAt(b, s[i], ofs[i], hs[i], 0)
  BY <1>2, <1>6, Zenon DEF Kept
<1>8. Border(b, m + 1, 0)
  BY <1>4 DEF Border
<1>9. \A k \in 1 .. Len(b) : k \in 1 .. m \/ k = m + 1
  BY <1>4
<1>10. \A k \in 1 .. Len(b) : Unexpected(b[k]) => Border(b, k, 0)
  BY <1>7, <1>8, <1>9, Zenon
<1>11. \A k \in 1 .. Len(b) : b[k].what = "header" => \E i \in 1 .. Len(s) : s[i] = k
  <2>1. b[m + 1].what # "header"
    BY <1>4
  <2> QED BY <1>7, <1>9, <2>1, Zenon
<1> QED
  <2>1. \A i \in 1 .. Len(s) : (0 # 0 => i < Len(s)) => ContentsAt(b, s[i], ofs[i], hs[i], 0)
    BY <1>7, Zenon
  <2>2. 0 # 0 => Len(s) > 0 /\ EndOfHeader(s[Len(s)], hs[Len(s)]) = Len(b)
    OBVIOUS
  <2> QED BY <1>1, <1>4, <1>7, <1>10, <1>11, <2>1, <2>2, Zenon DEF Layout


(* The options do not change, so that what is said of an archive stays so. *)
LEMMA CellsStay ==
  ASSUME UNCHANGED options
  PROVE  \A of, h : CellOf(of, h)' = CellOf(of, h)
BY DEF CellOf, HeaderCell, Fields, options

LEMMA EndsStay ==
  ASSUME UNCHANGED options
  PROVE  \A p, h : EndOfHeader(p, h)' = EndOfHeader(p, h) /\ EndOfEntry(p, h)' = EndOfEntry(p, h)
BY DEF EndOfHeader, EndOfEntry, options

LEMMA BordersStay ==
  ASSUME UNCHANGED options
  PROVE  /\ \A cell : Unexpected(cell)' <=> Unexpected(cell)
         /\ \A a, e, c : Border(a, e, c)' <=> Border(a, e, c)
BY DEF Border, Loose, Unexpected, options

LEMMA HeadersStay ==
  ASSUME UNCHANGED options, NEW a, NEW p, NEW of, NEW h
  PROVE  HeaderAt(a, p, of, h)' <=> HeaderAt(a, p, of, h)
BY CellsStay, EndsStay, Zenon DEF HeaderAt, options

LEMMA ContentsStay ==
  ASSUME UNCHANGED options, NEW a, NEW p, NEW of, NEW h, NEW c
  PROVE  ContentsAt(a, p, of, h, c)' <=> ContentsAt(a, p, of, h, c)
BY EndsStay, BordersStay, Zenon DEF ContentsAt, options

LEMMA LayoutStays ==
  ASSUME UNCHANGED options, NEW a, NEW s, NEW hs, NEW ofs, NEW c, Layout(a, s, hs, ofs, c)
  PROVE  Layout(a, s, hs, ofs, c)'
<1>1. ArchiveCells' = ArchiveCells
  BY CellsStay DEF ArchiveCells, HeaderCells, OtherCells
<1> QED BY <1>1, CellsStay, EndsStay, BordersStay, HeadersStay, ContentsStay, Zenon DEF Layout

-------------------------------------------------------------------------------
(* Copy-out: the headers are those of the files that are in the archive,   *)
(* and of the trailer.                                                     *)
WrittenHeaders(hs, ofs) ==
  /\ written \in Seq(Nat)
  /\ Len(ofs) = Len(written) + IF phase = "out" THEN 0 ELSE 1
  /\ \A i \in 1 .. Len(written) :
       /\ written[i] \in 1 .. done /\ ofs[i] = written[i]
       /\ hs[i] = StatToCpio(files[written[i]], hs[i].inode)
       /\ ~renumber => hs[i].inode = files[written[i]].inode
  /\ phase # "out" => cur = 0 /\ hs[Len(ofs)] = Trailer /\ ofs[Len(ofs)] = 0
  /\ cur # 0 => Len(written) > 0 /\ cur = written[Len(written)]

(* The number n of the archive has been given to the file id, and may be   *)
(* given to it again.                                                      *)
Given(n, id, hs) ==
  \/ \E r \in table : r.trans = n /\ r.inode = id
  \/ \E i \in 1 .. Len(written) : hs[i].inode = n /\ Id(files[written[i]]) = id

Numbered(hs) ==
  renumber =>
    /\ \A n, id : Given(n, id, hs) => n \in Nat /\ n < nextInode
    /\ \A n, id1, id2 : Given(n, id1, hs) /\ Given(n, id2, hs) => id1 = id2

LEMMA SizesFit ==
  ASSUME OptionsOK, NEW h \in Stats, ~Refused(fmt, ValuesToWrite(fmt, h))
  PROVE  ~TooWide(fmt, "namesize", h.namesize) /\ ~TooWide(fmt, "size", h.size)
<1>1. PICK vals : vals = ValuesToWrite(fmt, h)
  OBVIOUS
<1>2. /\ vals["namesize"] = h.namesize
      /\ vals["size"] = IF fmt \in Hp THEN HpSize(h) ELSE h.size
  BY <1>1, ValuesAre DEF OptionsOK, Shared
<1>3. ~TooWide(fmt, "namesize", vals["namesize"]) /\ ~TooWide(fmt, "size", vals["size"])
  BY <1>1 DEF Refused, Checked
<1>4. ~TooWide(fmt, "size", h.size)
  <2>1. CASE vals["size"] = h.size
    BY <1>3, <2>1
  <2>2. CASE fmt \in Hp /\ h.kind \in Special
    <3>1. h.size = 0 /\ fmt \in Formats \ New /\ "size" \in Numbers(fmt)
      BY <2>2 DEF Stats, Special, Hp, New, OptionsOK, Numbers, Shared
    <3>2. 0 < Short
      BY Sizes
    <3> QED BY <3>1, <3>2, ShortHasRoom
  <2> QED BY <1>2, <2>1, <2>2 DEF HpSize
<1> QED BY <1>2, <1>3, <1>4

LEMMA TrailerFits ==
  ASSUME OptionsOK
  PROVE  ~TooWide(fmt, "namesize", Trailer.namesize) /\ ~TooWide(fmt, "size", Trailer.size)
<1>1. Trailer.namesize = 2 /\ Trailer.size = 0
  BY DEF Trailer
<1>2. fmt \in Formats /\ "namesize" \in Numbers(fmt) /\ "size" \in Numbers(fmt)
  BY DEF OptionsOK, Numbers, Shared
<1>3. 0 < Short /\ 2 < Short /\ 0 < Long /\ 2 < Long
  BY Sizes
<1>4. CASE fmt \in New
  <2>1. Room(fmt, "namesize", 2) /\ Room(fmt, "size", 0)
    BY <1>3, <1>4 DEF Room, New, OldAscii, Bin
  <2> QED BY <1>1, <1>2, <2>1, RoomIsEnough
<1>5. CASE fmt \notin New
  BY <1>1, <1>2, <1>3, <1>5, ShortHasRoom
<1> QED BY <1>4, <1>5

(* With --renumber-inodes a number is given that the file has already, or  *)
(* the next one.                                                           *)
LEMMA NumberGiven ==
  ASSUME OptionsOK, NEW f \in Files, nextInode \in Nat, NEW hs, Numbered(hs),
         NEW number, number = InodeInArchive(f), CountInode(f)
  PROVE  /\ number \in Nat /\ nextInode' \in Nat
         /\ ~renumber => number = f.inode
         /\ renumber => \/ (Given(number, Id(f), hs) /\ UNCHANGED <<table, nextInode>>)
                        \/ (number = nextInode /\ nextInode' = nextInode + 1)
         /\ \A r \in table' : r \in table \/ (r.trans = number /\ r.inode = Id(f))
<1>1. f.inode \in Nat
  BY DEF Files
<1>2. CASE ~renumber
  <2>1. number = f.inode
    BY <1>2 DEF InodeInArchive
  <2>2. table' = table /\ nextInode' = nextInode
    BY <1>2 DEF CountInode
  <2>3. number \in Nat /\ nextInode' \in Nat
    BY <1>1, <2>1, <2>2
  <2>4. \A r \in table' : r \in table
    BY <2>2
  <2> QED BY <1>2, <2>1, <2>3, <2>4
<1>3. CASE renumber /\ f.links > 1 /\ Known(f) # {}
  <2>1. PICK r \in Known(f) : number = r.trans
    BY <1>3 DEF InodeInArchive
  <2>2. r \in table /\ r = Record(Id(f), 0, NoName)
    BY <2>1 DEF Known, FindInodeVal
  <2>3. r.trans = 0 /\ r.inode = Id(f)
    BY <2>2 DEF Record
  <2>4. Given(number, Id(f), hs)
    BY <2>1, <2>2, <2>3 DEF Given
  <2>5. UNCHANGED <<table, nextInode>>
    BY <1>3 DEF CountInode
  <2>6. number \in Nat /\ nextInode' \in Nat
    BY <2>1, <2>3, <2>5
  <2>7. \A q \in table' : q \in table
    BY <2>5
  <2> QED BY <1>3, <2>4, <2>5, <2>6, <2>7
<1>4. CASE renumber /\ ~(f.links > 1 /\ Known(f) # {})
  <2>1. number = nextInode
    BY <1>4 DEF InodeInArchive
  <2>2. /\ nextInode' = nextInode + 1
        /\ table' = IF f.links > 1
                    THEN AddInode(table, Id(f), NoName, renumber, nextInode) ELSE table
    BY <1>4 DEF CountInode
  <2>3. \A r \in table' : r \in table \/ r = Record(Id(f), nextInode, NoName)
    BY <1>4, <2>2 DEF AddInode
  <2>4. ASSUME NEW r, r = Record(Id(f), nextInode, NoName)
        PROVE  r.trans = number /\ r.inode = Id(f)
    BY <2>1, <2>4 DEF Record
  <2>5. number \in Nat /\ nextInode' \in Nat
    BY <2>1, <2>2
  <2> QED BY <1>4, <2>1, <2>2, <2>3, <2>4, <2>5
<1> QED BY <1>2, <1>3, <1>4 DEF OptionsOK

LEMMA NumberedStep ==
  ASSUME OptionsOK, UNCHANGED options, NEW f \in Files, nextInode \in Nat,
         NEW hs, Numbered(hs), NEW number, number = InodeInArchive(f), CountInode(f),
         NEW gs, \A n, id : Given(n, id, gs)' =>
                   \/ Given(n, id, hs)
                   \/ \E r \in table' : r.trans = n /\ r.inode = id
                   \/ n = number /\ id = Id(f)
  PROVE  Numbered(gs)'
<1> SUFFICES ASSUME renumber'
    PROVE  /\ \A n, id : Given(n, id, gs)' => n \in Nat /\ n < nextInode'
           /\ \A n, id1, id2 : Given(n, id1, gs)' /\ Given(n, id2, gs)' => id1 = id2
  BY DEF Numbered
<1>1. renumber
  BY DEF options
<1>2. /\ \A n, id : Given(n, id, hs) => n \in Nat /\ n < nextInode
      /\ \A n, id1, id2 : Given(n, id1, hs) /\ Given(n, id2, hs) => id1 = id2
  BY <1>1 DEF Numbered
<1>3. /\ \/ (Given(number, Id(f), hs) /\ UNCHANGED <<table, nextInode>>)
         \/ (number = nextInode /\ nextInode' = nextInode + 1)
      /\ \A r \in table' : r \in table \/ (r.trans = number /\ r.inode = Id(f))
      /\ number \in Nat
  BY <1>1, NumberGiven
<1>4. \A n, id : Given(n, id, gs)' => Given(n, id, hs) \/ (n = number /\ id = Id(f))
  <2> SUFFICES ASSUME NEW n, NEW id, NEW r \in table', r.trans = n, r.inode = id
               PROVE  Given(n, id, hs) \/ (n = number /\ id = Id(f))
    OBVIOUS
  <2>1. CASE r \in table
    BY <2>1 DEF Given
  <2>2. CASE r.trans = number /\ r.inode = Id(f)
    BY <2>2
  <2> QED BY <1>3, <2>1, <2>2
<1>5. CASE Given(number, Id(f), hs) /\ nextInode' = nextInode
  BY <1>2, <1>4, <1>5
<1>6. CASE number = nextInode /\ nextInode' = nextInode + 1
  <2>1. \A id : ~Given(number, id, hs)
    BY <1>2, <1>6
  <2>2. \A n : n \in Nat /\ n < nextInode => n < nextInode'
    BY <1>6
  <2>3. number < nextInode'
    BY <1>6
  <2>4. ASSUME NEW n, NEW id, Given(n, id, gs)' PROVE n \in Nat /\ n < nextInode'
    <3>1. CASE Given(n, id, hs)
      BY <1>2, <2>2, <3>1
    <3>2. CASE n = number
      BY <1>3, <2>3, <3>2
    <3> QED BY <1>4, <2>4, <3>1, <3>2
  <2>5. ASSUME NEW n, NEW id1, NEW id2, Given(n, id1, gs)', Given(n, id2, gs)' PROVE id1 = id2
    <3>1. CASE n = number
      <4>1. id1 = Id(f) /\ id2 = Id(f)
        BY <1>4, <2>1, <2>5, <3>1
      <4> QED BY <4>1
    <3>2. CASE n # number
      <4>1. Given(n, id1, hs) /\ Given(n, id2, hs)
        BY <1>4, <2>5, <3>2
      <4> QED BY <1>2, <4>1
    <3> QED BY <3>1, <3>2
  <2> QED BY <2>4, <2>5
<1> QED BY <1>3, <1>5, <1>6


-------------------------------------------------------------------------------
(* Copy-in: what has been read of the archive                              *)
Entries ==
  [of : Nat, header : HeadersRead, name : Seq(ArchiveCells), data : Seq(ArchiveCells)]

Reading(s, hs, ofs) ==
  /\ pos \in 0 .. Len(archive)
  /\ AllBelowHalf => skipped = Cardinality({k \in 1 .. pos : Unexpected(archive[k])})
  /\ rfmt \in {"unknown", fmt, Magic(fmt)}
  /\ rfmt = "unknown" => got = << >>
  /\ got \in Seq(Entries)
  /\ Len(got) <= Len(s)
  /\ \A i \in 1 .. Len(s) : s[i] <= pos <=> i <= Len(got)
  /\ \A i \in 1 .. Len(got) :
       /\ got[i].of = ofs[i]
       /\ got[i].header = HeaderRead(rfmt, CellOf(ofs[i], hs[i]))
       /\ got[i].name = Cells("name", ofs[i], hs[i].namesize)
       /\ hs[i].size < Half /\ (i < Len(got) \/ phase = "magic") =>
            got[i].data = Cells("data", ofs[i], hs[i].size)
  /\ phase = "out" => pos = 0 /\ got = << >> /\ skipped = 0
  /\ phase = "magic" => Len(got) < Len(s) /\ (AllBelowHalf => Border(archive, pos, 0))
  /\ phase = "contents" => /\ Len(got) > 0 /\ Len(got) < Len(s)
                           /\ pos = EndOfHeader(s[Len(got)], hs[Len(got)])
                           /\ got[Len(got)].data = << >>
  /\ phase = "end" => Len(got) = Len(s)
  /\ phase = "exit" => Len(got) < Len(s)

ArchiveInv ==
  /\ OptionsOK
  /\ done \in 0 .. Len(files) /\ nextInode \in Nat
  /\ phase \in {"out", "magic", "contents", "end", "exit"}
  /\ \E s, hs, ofs : /\ Layout(archive, s, hs, ofs, cur)
                     /\ WrittenHeaders(hs, ofs) /\ Numbered(hs)
                     /\ Reading(s, hs, ofs)

LEMMA NothingRead ==
  ASSUME pos' = 0, got' = << >>, skipped' = 0, rfmt' \in {"unknown", fmt', Magic(fmt')},
         phase' \in {"out", "magic"}, NEW s, NEW hs, NEW ofs,
         Layout(archive, s, hs, ofs, cur)', phase' = "magic" => cur' = 0 /\ Len(s) > 0
  PROVE  Reading(s, hs, ofs)'
<1>1. archive' \in Seq(ArchiveCells)' /\ s \in Seq(Nat) /\ Border(archive, 0, cur)'
  BY DEF Layout
<1>2. \A i \in 1 .. Len(s) : s[i] \in Nat \ {0}
  BY DEF Layout, HeaderAt
<1>3. skipped' = Cardinality({k \in 1 .. pos' : Unexpected(archive[k])'})
  <2>1. {k \in 1 .. pos' : Unexpected(archive[k])'} = {}
    OBVIOUS
  <2> QED BY <2>1, FS_EmptySet
<1>4. got' \in Seq(Entries)' /\ Len(got') = 0
  OBVIOUS
<1>5. pos' \in 0 .. Len(archive')
  BY <1>1
<1>6. Len(s) \in Nat
  BY <1>1
<1>7. \A i \in 1 .. Len(s) : s[i] <= pos' <=> i <= Len(got')
  BY <1>2, <1>4, <1>6
<1>8. phase' = "magic" => Border(archive, pos, 0)'
  BY <1>1 DEF Border
<1>9. \A i : ~(i \in 1 .. Len(got'))
  BY <1>4
<1>10. /\ Len(got') <= Len(s)
       /\ phase' = "magic" => Len(got') < Len(s)
       /\ phase' \notin {"contents", "end", "exit"}
  BY <1>4, <1>6
<1> QED BY <1>3, <1>4, <1>5, <1>7, <1>8, <1>9, <1>10, Zenon DEF Reading

LEMMA OptionsStay ==
  ASSUME OptionsOK, UNCHANGED options
  PROVE  OptionsOK'
BY DEF OptionsOK, options

LEMMA InitArchiveInv == Init => ArchiveInv
<1> SUFFICES ASSUME Init PROVE ArchiveInv
  OBVIOUS
<1>1. OptionsOK
  BY FilesAssumption DEF Init, OptionsOK, Formats
<1>2. files \in Seq(Files)
  BY <1>1 DEF OptionsOK
<1>3. done \in 0 .. Len(files) /\ nextInode \in Nat /\ phase = "out"
  BY <1>2 DEF Init
<1>4. PICK e : e = << >>
  OBVIOUS
<1>5. e \in Seq(Nat) /\ e \in Seq(Stats) /\ e \in Seq(ArchiveCells) /\ e \in Seq(Entries) /\ Len(e) = 0
  BY <1>4
<1>6. archive = e /\ cur = 0 /\ written = e /\ got = e /\ pos = 0 /\ skipped = 0 /\ table = {}
  BY <1>4 DEF Init
<1>7. Border(archive, 0, cur)
  BY <1>5, <1>6 DEF Border
<1>8. \A i : ~(i \in 1 .. Len(e))
  BY <1>5
<1>9. Layout(archive, e, e, e, cur)
  BY <1>5, <1>6, <1>7, <1>8, Zenon DEF Layout
<1>10. WrittenHeaders(e, e)
  <2>1. Len(e) = Len(e) + 0
    BY <1>5
  <2> QED BY <1>3, <1>5, <1>6, <1>8, <2>1 DEF WrittenHeaders
<1>11. Numbered(e)
  BY <1>6, <1>8, Zenon DEF Numbered, Given
<1>12. Reading(e, e, e)
  <2>1. {k \in 1 .. pos : Unexpected(archive[k])} = {}
    BY <1>6
  <2>2. skipped = Cardinality({k \in 1 .. pos : Unexpected(archive[k])})
    BY <1>6, <2>1, FS_EmptySet
  <2>3. rfmt \in {"unknown", fmt}
    BY DEF Init
  <2>4. pos \in 0 .. Len(archive) /\ Len(got) <= Len(e)
    BY <1>5, <1>6
  <2> QED BY <1>3, <1>4, <1>5, <1>6, <1>8, <2>2, <2>3, <2>4 DEF Reading
<1> QED BY <1>1, <1>3, <1>9, <1>10, <1>11, <1>12 DEF ArchiveInv

(* A file's header in the archive                                          *)
LEMMA WrittenFacts ==
  ASSUME OptionsOK, NEW hs, NEW ofs, WrittenHeaders(hs, ofs), done \in 0 .. Len(files)
  PROVE  /\ Len(written) \in Nat
         /\ \A i \in 1 .. Len(written) :
              /\ written[i] \in 1 .. Len(files) /\ files[written[i]] \in Files
              /\ hs[i].kind = files[written[i]].kind /\ hs[i].size = files[written[i]].size
              /\ hs[i].namesize = files[written[i]].namesize
<1>1. /\ written \in Seq(Nat)
      /\ \A i \in 1 .. Len(written) : /\ written[i] \in 1 .. done
                                      /\ hs[i] = StatToCpio(files[written[i]], hs[i].inode)
  BY DEF WrittenHeaders
<1>2. files \in Seq(Files) /\ Len(files) \in Nat
  BY DEF OptionsOK
<1>3. ASSUME NEW i \in 1 .. Len(written)
      PROVE  /\ written[i] \in 1 .. Len(files) /\ files[written[i]] \in Files
             /\ hs[i].kind = files[written[i]].kind /\ hs[i].size = files[written[i]].size
             /\ hs[i].namesize = files[written[i]].namesize
  <2>1. written[i] \in 1 .. done
    BY <1>1
  <2>2. written[i] \in 1 .. Len(files)
    BY <1>2, <2>1
  <2>3. files[written[i]] \in Files
    BY <1>2, <2>2
  <2>4. hs[i] = StatToCpio(files[written[i]], hs[i].inode)
    BY <1>1
  <2> QED BY <2>2, <2>3, <2>4 DEF StatToCpio
<1> QED BY <1>1, <1>3


LEMMA WriteOutHeaderStep == ArchiveInv /\ WriteOutHeader => ArchiveInv'
<1> SUFFICES ASSUME ArchiveInv, WriteOutHeader PROVE ArchiveInv'
  OBVIOUS
<1>1. /\ OptionsOK /\ done \in 0 .. Len(files) /\ nextInode \in Nat
      /\ phase = "out" /\ cur = 0 /\ done < Len(files)
      /\ done' = done + 1 /\ phase' = "out"
      /\ UNCHANGED options /\ UNCHANGED reader
  BY DEF ArchiveInv, WriteOutHeader
<1>2. PICK s, hs, ofs : /\ Layout(archive, s, hs, ofs, cur)
                        /\ WrittenHeaders(hs, ofs) /\ Numbered(hs)
                        /\ Reading(s, hs, ofs)
  BY DEF ArchiveInv
<1>3. PICK k \in 1 .. Len(files), f \in Files : k = done + 1 /\ f = files[k]
  <2>1. files \in Seq(Files) /\ done + 1 \in 1 .. Len(files)
    BY <1>1 DEF OptionsOK
  <2>2. files[done + 1] \in Files
    BY <2>1
  <2> QED BY <2>1, <2>2
<1>4. PICK number : number = InodeInArchive(f)
  OBVIOUS
<1>5. PICK h : h = StatToCpio(f, number)
  OBVIOUS
<1>6. /\ CountInode(f)
      /\ IF Refused(fmt, ValuesToWrite(fmt, h))
         THEN UNCHANGED <<written, cur, archive>>
         ELSE /\ archive' = archive \o WholeHeader(k, h, ValuesToWrite(fmt, h))
              /\ written' = Append(written, k)
              /\ cur' = k
  BY <1>3, <1>4, <1>5 DEF WriteOutHeader
<1>7. /\ number \in Nat /\ nextInode' \in Nat
      /\ ~renumber => number = f.inode
  BY <1>1, <1>2, <1>4, <1>6, NumberGiven
<1>8. h \in Stats /\ h.inode = number
  BY <1>1, <1>5, <1>7, StatIsStat DEF StatToCpio
<1>9. OptionsOK' /\ done' \in 0 .. Len(files') /\ nextInode' \in Nat
      /\ phase' \in {"out", "magic", "contents", "end", "exit"}
  <2>1. OptionsOK' /\ files' = files /\ Len(files) \in Nat
    BY <1>1, OptionsStay DEF options, OptionsOK
  <2> QED BY <1>1, <1>7, <2>1
<1>10. /\ pos' = 0 /\ got' = << >> /\ skipped' = 0
       /\ rfmt' \in {"unknown", fmt', Magic(fmt')}
  <2>1. /\ pos = 0 /\ got = << >> /\ skipped = 0
        /\ rfmt \in {"unknown", fmt, Magic(fmt)}
    BY <1>1, <1>2 DEF Reading
  <2> QED BY <1>1, <2>1 DEF options, reader
<1>11. /\ written \in Seq(Nat) /\ Len(ofs) = Len(written)
       /\ \A i \in 1 .. Len(written) :
            /\ written[i] \in 1 .. done /\ ofs[i] = written[i]
            /\ hs[i] = StatToCpio(files[written[i]], hs[i].inode)
            /\ ~renumber => hs[i].inode = files[written[i]].inode
  BY <1>1, <1>2 DEF WrittenHeaders
<1>12. files' = files /\ renumber' = renumber /\ ignoreDevno' = ignoreDevno /\ fmt' = fmt
  BY <1>1 DEF options
<1>13. \A g, n : StatToCpio(g, n)' = StatToCpio(g, n)
  BY <1>12 DEF StatToCpio
<1>14. CASE Refused(fmt, ValuesToWrite(fmt, h))
  <2>1. written' = written /\ cur' = cur /\ archive' = archive
    BY <1>6, <1>14
  <2>2. Layout(archive, s, hs, ofs, cur)'
    <3>1. PICK a, c : a = archive /\ c = cur
      OBVIOUS
    <3>2. Layout(a, s, hs, ofs, c)'
      BY <1>1, <1>2, <3>1, LayoutStays
    <3>3. a = archive' /\ c = cur'
      BY <2>1, <3>1
    <3> QED BY <3>2, <3>3
  <2>3. WrittenHeaders(hs, ofs)'
    <3>1. \A i \in 1 .. Len(written) : written[i] \in 1 .. done'
      BY <1>1, <1>11
    <3>2. \A i \in 1 .. Len(written) : hs[i] = StatToCpio(files[written[i]], hs[i].inode)'
      BY <1>11, <1>12, <1>13, <2>1
    <3>3. Len(ofs) = Len(written') + 0
      BY <1>11, <2>1
    <3> QED BY <1>1, <1>11, <1>12, <2>1, <3>1, <3>2, <3>3 DEF WrittenHeaders
  <2>4. Numbered(hs)'
    <3>1. \A n, id : Given(n, id, hs)' =>
                       \/ Given(n, id, hs)
                       \/ \E r \in table' : r.trans = n /\ r.inode = id
      BY <1>12, <2>1 DEF Given, Id
    <3> QED BY <1>1, <1>2, <1>4, <1>6, <3>1, NumberedStep
  <2>5. Reading(s, hs, ofs)'
    BY <1>1, <1>10, <2>2, NothingRead
  <2> QED BY <1>9, <2>2, <2>3, <2>4, <2>5 DEF ArchiveInv
<1>15. CASE ~Refused(fmt, ValuesToWrite(fmt, h))
  <2>1. /\ archive' = archive \o WholeHeader(k, h, ValuesToWrite(fmt, h))
        /\ written' = Append(written, k)
        /\ cur' = k
    BY <1>6, <1>15
  <2>13. PICK n \in Nat : n = Len(written)
    <3>1. Len(written) \in Nat
      BY <1>11
    <3> QED BY <3>1
  <2>14. PICK a, b : a = archive /\ b = archive'
    OBVIOUS
  <2>2. PICK ss, gs, os :
          /\ a = archive /\ b = archive' /\ n = Len(written)
          /\ ss = Append(s, Len(a) + 1) /\ gs = Append(hs, h) /\ os = Append(ofs, k)
    BY <2>13, <2>14
  <2>3. Layout(b, ss, gs, os, k)
    <3>1. Layout(a, s, hs, ofs, 0) /\ b = a \o WholeHeader(k, h, ValuesToWrite(fmt, h))
      BY <1>1, <1>2, <2>1, <2>2
    <3>2. ~TooWide(fmt, "namesize", h.namesize) /\ ~TooWide(fmt, "size", h.size)
      BY <1>1, <1>8, <1>15, SizesFit
    <3>3. k \in Nat /\ k # 0
      OBVIOUS
    <3> QED BY <1>1, <1>8, <2>2, <3>1, <3>2, <3>3, HeaderGrows
  <2>4. Layout(archive, ss, gs, os, cur)'
    <3>1. Layout(b, ss, gs, os, k)'
      BY <1>1, <2>3, LayoutStays
    <3>2. b = archive' /\ k = cur'
      BY <2>1, <2>2
    <3> QED BY <3>1, <3>2
  <2>5. /\ hs \in Seq(Stats) /\ ofs \in Seq(Nat) /\ Len(hs) = n /\ Len(ofs) = n
    BY <1>2, <1>11, <2>2, LayoutIs
  <2>6. /\ Len(gs) = n + 1 /\ \A i \in 1 .. n : gs[i] = hs[i]
        /\ gs[n + 1] = h
    BY <1>8, <2>2, <2>5
  <2>7. /\ Len(os) = n + 1 /\ \A i \in 1 .. n : os[i] = ofs[i]
        /\ os[n + 1] = k
    <3>1. PICK j \in Nat : j = k
      OBVIOUS
    <3>2. os = Append(ofs, j)
      BY <2>2, <3>1
    <3> QED BY <2>5, <3>1, <3>2
  <2>8. /\ written' \in Seq(Nat) /\ Len(written') = n + 1
        /\ \A i \in 1 .. n : written'[i] = written[i]
        /\ written'[n + 1] = k
    BY <1>11, <2>1, <2>2
  <2>9. \A i \in 1 .. n + 1 : i \in 1 .. n \/ i = n + 1
    OBVIOUS
  <2>10. WrittenHeaders(gs, os)'
    <3>1. ASSUME NEW i \in 1 .. n + 1
          PROVE  /\ written'[i] \in 1 .. done' /\ os[i] = written'[i]
                 /\ gs[i] = StatToCpio(files[written[i]], gs[i].inode)'
                 /\ ~renumber' => gs[i].inode = files'[written'[i]].inode
      <4>1. CASE i \in 1 .. n
        <5>1. /\ written[i] \in 1 .. done /\ ofs[i] = written[i]
              /\ hs[i] = StatToCpio(files[written[i]], hs[i].inode)
              /\ ~renumber => hs[i].inode = files[written[i]].inode
          BY <1>11, <2>2, <4>1
        <5>2. written'[i] = written[i] /\ gs[i] = hs[i] /\ os[i] = ofs[i]
          BY <2>6, <2>7, <2>8, <4>1
        <5>3. written[i] \in 1 .. done'
          BY <1>1, <5>1
        <5>4. gs[i] = StatToCpio(files[written[i]], gs[i].inode)'
          BY <1>12, <1>13, <5>1, <5>2
        <5> QED BY <1>12, <5>1, <5>2, <5>3, <5>4
      <4>2. CASE i = n + 1
        <5>1. written'[i] = k /\ gs[i] = h /\ os[i] = k
          BY <2>6, <2>7, <2>8, <4>2
        <5>2. k \in 1 .. done'
          BY <1>1, <1>3
        <5>3. gs[i] = StatToCpio(files[written[i]], gs[i].inode)'
          BY <1>3, <1>5, <1>8, <1>12, <1>13, <5>1
        <5> QED BY <1>3, <1>7, <1>8, <1>12, <5>1, <5>2, <5>3
      <4> QED BY <2>9, <4>1, <4>2
    <3>2. n + 1 > 0 /\ Len(os) = Len(written') + 0
      BY <2>7, <2>8
    <3> QED BY <1>1, <2>1, <2>8, <3>1, <3>2 DEF WrittenHeaders
  <2>11. Numbered(gs)'
    <3>1. ASSUME NEW m, NEW id, Given(m, id, gs)'
          PROVE  \/ Given(m, id, hs)
                 \/ \E r \in table' : r.trans = m /\ r.inode = id
                 \/ m = number /\ id = Id(f)
      <4>1. CASE \E i \in 1 .. Len(written') : gs[i].inode = m /\ Id(files[written[i]])' = id
        <5>1. PICK i \in 1 .. n + 1 : gs[i].inode = m /\ Id(files[written[i]])' = id
          BY <2>8, <4>1
        <5>2. CASE i \in 1 .. n
          <6>1. hs[i].inode = m /\ Id(files[written[i]]) = id
            BY <1>12, <2>6, <2>8, <5>1, <5>2 DEF Id
          <6> QED BY <2>2, <5>2, <6>1 DEF Given
        <5>3. CASE i = n + 1
          BY <1>3, <1>8, <1>12, <2>6, <2>8, <5>1, <5>3 DEF Id
        <5> QED BY <2>9, <5>2, <5>3
      <4>2. CASE \E r \in table' : r.trans = m /\ r.inode = id
        BY <4>2
      <4> QED BY <3>1, <4>1, <4>2 DEF Given
    <3> QED BY <1>1, <1>2, <1>4, <1>6, <3>1, NumberedStep
  <2>12. Reading(ss, gs, os)'
    BY <1>1, <1>10, <2>4, NothingRead
  <2> QED BY <1>9, <2>4, <2>10, <2>11, <2>12 DEF ArchiveInv
<1> QED BY <1>14, <1>15


(* What WriteContents and Junk leave alone                                 *)
CountersStay(hs, ofs) ==
  /\ UNCHANGED <<options, table, nextInode, done, written, reader, phase>>
  /\ phase = "out" /\ cur' = 0 /\ WrittenHeaders(hs, ofs) /\ Numbered(hs)

LEMMA StartsUnread ==
  ASSUME phase = "out", NEW s, NEW hs, NEW ofs, Reading(s, hs, ofs)
  PROVE  pos = 0 /\ got = << >> /\ skipped = 0 /\ rfmt \in {"unknown", fmt, Magic(fmt)}
BY DEF Reading

LEMMA WriterStays ==
  ASSUME OptionsOK, done \in 0 .. Len(files), nextInode \in Nat,
         NEW s, NEW hs, NEW ofs, CountersStay(hs, ofs), Reading(s, hs, ofs),
         Layout(archive, s, hs, ofs, cur)'
  PROVE  ArchiveInv'
<1>1. /\ options' = options /\ table' = table /\ nextInode' = nextInode /\ done' = done
      /\ written' = written /\ reader' = reader /\ phase' = "out"
      /\ phase = "out" /\ cur' = 0 /\ WrittenHeaders(hs, ofs) /\ Numbered(hs)
  BY DEF CountersStay
<1>2. OptionsOK' /\ files' = files /\ renumber' = renumber /\ ignoreDevno' = ignoreDevno
      /\ fmt' = fmt
  BY <1>1, OptionsStay DEF options
<1>3. WrittenHeaders(hs, ofs)'
  BY <1>1, <1>2 DEF WrittenHeaders, StatToCpio
<1>4. Numbered(hs)'
  <2>1. \A n, id : Given(n, id, hs)' => Given(n, id, hs)
    BY <1>1, <1>2 DEF Given, Id
  <2> QED BY <1>1, <1>2, <2>1 DEF Numbered
<1>5. Reading(s, hs, ofs)'
  <2>1. pos = 0 /\ got = << >> /\ skipped = 0 /\ rfmt \in {"unknown", fmt, Magic(fmt)}
    BY <1>1, StartsUnread
  <2>2. pos' = 0 /\ got' = << >> /\ skipped' = 0 /\ rfmt' \in {"unknown", fmt', Magic(fmt')}
    BY <1>1, <1>2, <2>1 DEF reader
  <2> QED BY <1>1, <2>2, NothingRead
<1> QED BY <1>1, <1>2, <1>3, <1>4, <1>5 DEF ArchiveInv


LEMMA WriteContentsStep == ArchiveInv /\ WriteContents => ArchiveInv'
<1> SUFFICES ASSUME ArchiveInv, WriteContents PROVE ArchiveInv'
  OBVIOUS
<1>1. /\ OptionsOK /\ done \in 0 .. Len(files) /\ nextInode \in Nat
      /\ phase = "out" /\ cur # 0 /\ cur' = 0
      /\ archive' = archive \o Cells("data", cur, AsUsize(AsI32(files[cur].size)))
                            \o Cells("pad", cur, IF files[cur].kind = "reg"
                                                 THEN PadOutput(fmt, files[cur].size) ELSE 0)
      /\ UNCHANGED <<options, table, nextInode, done, written, reader, phase>>
  BY DEF ArchiveInv, WriteContents
<1>2. PICK s, hs, ofs : /\ Layout(archive, s, hs, ofs, cur)
                        /\ WrittenHeaders(hs, ofs) /\ Numbered(hs)
                        /\ Reading(s, hs, ofs)
  BY DEF ArchiveInv
<1>3. /\ Len(written) > 0 /\ cur = written[Len(written)]
      /\ Len(ofs) = Len(written) + 0 /\ written \in Seq(Nat)
      /\ \A i \in 1 .. Len(written) : written[i] \in 1 .. done /\ ofs[i] = written[i]
  BY <1>1, <1>2 DEF WrittenHeaders
<1>4. PICK n \in Nat : n = Len(written) /\ n > 0
  <2>1. Len(written) \in Nat
    BY <1>3
  <2> QED BY <1>3, <2>1
<1>5. n \in 1 .. n
  BY <1>4
<1>6. PICK k \in Nat \ {0}, f \in Files, h \in Stats :
        /\ k = cur /\ f = files[k] /\ h = hs[n] /\ k = ofs[n]
        /\ h.kind = f.kind /\ h.size = f.size
  <2>1. /\ files[written[n]] \in Files
        /\ hs[n].kind = files[written[n]].kind /\ hs[n].size = files[written[n]].size
    BY <1>1, <1>2, <1>4, <1>5, WrittenFacts
  <2>2. cur = written[n] /\ written[n] \in Nat \ {0} /\ ofs[n] = written[n]
    BY <1>1, <1>3, <1>4, <1>5
  <2>3. hs[n] \in Stats
    <3>1. hs \in Seq(Stats) /\ Len(hs) = Len(ofs)
      BY <1>2, LayoutIs
    <3> QED BY <1>3, <1>4, <1>5, <3>1
  <2> QED BY <2>1, <2>2, <2>3
<1>7. PICK w \in Nat, p \in Nat :
        w = Stored(h) /\ p = IF h.kind = "reg" THEN PadOutput(fmt, h.size) ELSE 0
  <2>1. h.size \in Nat /\ Stored(h) \in Nat /\ fmt \in Formats
    BY <1>1, CastIs DEF Stats, OptionsOK, Stored
  <2>2. PadOutput(fmt, h.size) \in Nat
    BY <2>1, Paddings
  <2> QED BY <2>1, <2>2
<1>8. PICK x : x = Cells("data", k, w) \o Cells("pad", k, p)
  OBVIOUS
<1>9. /\ Cells("data", k, w) \in Seq(ArchiveCells) /\ Len(Cells("data", k, w)) = w
      /\ \A j \in 1 .. w : Cells("data", k, w)[j] = [what |-> "data", of |-> k, nth |-> j]
      /\ Cells("pad", k, p) \in Seq(ArchiveCells) /\ Len(Cells("pad", k, p)) = p
      /\ \A j \in 1 .. p : Cells("pad", k, p)[j] = [what |-> "pad", of |-> k, nth |-> j]
  BY CellsAre
<1>10. IsContents(x, k, h)
  <2>1. /\ x \in Seq(ArchiveCells) /\ Len(x) = Len(Cells("data", k, w)) + Len(Cells("pad", k, p))
        /\ \A j \in 1 .. Len(Cells("data", k, w)) : x[j] = Cells("data", k, w)[j]
        /\ \A j \in 1 .. Len(Cells("pad", k, p)) :
             x[Len(Cells("data", k, w)) + j] = Cells("pad", k, p)[j]
    BY <1>8, <1>9, Joined
  <2>2. /\ Len(x) = w + p
        /\ \A j \in 1 .. w : x[j] = Cells("data", k, w)[j]
        /\ \A j \in 1 .. p : x[w + j] = Cells("pad", k, p)[j]
    BY <1>9, <2>1, Zenon
  <2>3. \A j \in 1 .. w : x[j] = [what |-> "data", of |-> k, nth |-> j]
    BY <1>9, <2>2, Zenon
  <2>4. ASSUME NEW j \in w + 1 .. Len(x) PROVE x[j].what = "pad"
    <3>1. PICK i \in 1 .. p : j = w + i
      <4>1. j - w \in 1 .. p /\ j = w + (j - w)
        BY <2>2
      <4> QED BY <4>1
    <3>2. x[j] = [what |-> "pad", of |-> k, nth |-> i]
      BY <1>9, <2>2, <3>1, Zenon
    <3> QED BY <3>2
  <2> QED BY <1>7, <2>1, <2>2, <2>3, <2>4, Zenon DEF IsContents
<1>11. PICK a, b : a = archive /\ b = archive'
  OBVIOUS
<1>12. b = a \o x
  <2>1. a \in Seq(ArchiveCells)
    BY <1>2, <1>11, LayoutIs
  <2>2. (a \o Cells("data", k, w)) \o Cells("pad", k, p)
          = a \o (Cells("data", k, w) \o Cells("pad", k, p))
    <3>1. PICK c \in Seq(ArchiveCells), d \in Seq(ArchiveCells), g \in Seq(ArchiveCells) :
            c = a /\ d = Cells("data", k, w) /\ g = Cells("pad", k, p)
      BY <1>9, <2>1, Zenon
    <3>2. (c \o d) \o g = c \o (d \o g)
      BY ConcatAssociative
    <3> QED BY <3>1, <3>2, Zenon
  <2>3. AsUsize(AsI32(files[cur].size)) = w
        /\ (IF files[cur].kind = "reg" THEN PadOutput(fmt, files[cur].size) ELSE 0) = p
    BY <1>6, <1>7 DEF Stored
  <2>4. archive' = (archive \o Cells("data", cur, w)) \o Cells("pad", cur, p)
    BY <1>1, <2>3
  <2> QED BY <1>6, <1>8, <1>11, <2>2, <2>4
<1>13. Layout(b, s, hs, ofs, 0)
  <2>1. Layout(a, s, hs, ofs, k) /\ Len(s) = n
    <3>1. Len(ofs) = Len(s) /\ Len(ofs) = n
      BY <1>2, <1>3, <1>4, LayoutIs
    <3> QED BY <1>2, <1>6, <1>11, <3>1
  <2>2. h = hs[Len(s)] /\ k = ofs[Len(s)] /\ k # 0
    BY <1>6, <2>1
  <2> QED BY <1>1, <1>10, <1>12, <2>1, <2>2, ContentsGrow
<1>14. Layout(archive, s, hs, ofs, cur)'
  <2>1. PICK c : c = 0
    OBVIOUS
  <2>2. Layout(b, s, hs, ofs, c)'
    BY <1>1, <1>13, <2>1, LayoutStays
  <2>3. b = archive' /\ c = cur'
    BY <1>1, <1>11, <2>1
  <2> QED BY <2>2, <2>3
<1>15. CountersStay(hs, ofs)
  BY <1>1, <1>2 DEF CountersStay
<1> QED BY <1>1, <1>2, <1>14, <1>15, WriterStays

LEMMA JunkStep == ArchiveInv /\ Junk => ArchiveInv'
<1> SUFFICES ASSUME ArchiveInv, Junk PROVE ArchiveInv'
  OBVIOUS
<1>1. /\ OptionsOK /\ done \in 0 .. Len(files) /\ nextInode \in Nat
      /\ phase = "out" /\ cur = 0 /\ cur' = 0
      /\ archive' = archive \o Cells("junk", 0, 1)
      /\ UNCHANGED <<options, table, nextInode, done, written, reader, phase>>
  BY DEF ArchiveInv, Junk
<1>2. PICK s, hs, ofs : /\ Layout(archive, s, hs, ofs, cur)
                        /\ WrittenHeaders(hs, ofs) /\ Numbered(hs)
                        /\ Reading(s, hs, ofs)
  BY DEF ArchiveInv
<1>3. PICK a, b, c : a = archive /\ b = archive' /\ c = 0
  OBVIOUS
<1>4. Layout(b, s, hs, ofs, 0)
  <2>1. Layout(a, s, hs, ofs, 0) /\ b = a \o Cells("junk", 0, 1)
    BY <1>1, <1>2, <1>3
  <2> QED BY <1>1, <2>1, JunkGrows
<1>5. Layout(archive, s, hs, ofs, cur)'
  <2>1. Layout(b, s, hs, ofs, c)'
    BY <1>1, <1>3, <1>4, LayoutStays
  <2>2. b = archive' /\ c = cur'
    BY <1>1, <1>3
  <2> QED BY <2>1, <2>2
<1>6. CountersStay(hs, ofs)
  BY <1>1, <1>2 DEF CountersStay
<1> QED BY <1>1, <1>2, <1>5, <1>6, WriterStays


LEMMA WriteTrailerStep == ArchiveInv /\ WriteTrailer => ArchiveInv'
<1> SUFFICES ASSUME ArchiveInv, WriteTrailer PROVE ArchiveInv'
  OBVIOUS
<1>1. /\ OptionsOK /\ done \in 0 .. Len(files) /\ nextInode \in Nat
      /\ phase = "out" /\ cur = 0 /\ cur' = 0 /\ phase' = "magic"
      /\ archive' = archive \o WholeHeader(0, Trailer, ValuesToWrite(fmt, Trailer))
      /\ options' = options /\ reader' = reader
      /\ table' = table /\ nextInode' = nextInode /\ done' = done /\ written' = written
  BY DEF ArchiveInv, WriteTrailer
<1>2. PICK s, hs, ofs : /\ Layout(archive, s, hs, ofs, cur)
                        /\ WrittenHeaders(hs, ofs) /\ Numbered(hs)
                        /\ Reading(s, hs, ofs)
  BY DEF ArchiveInv
<1>3. OptionsOK' /\ files' = files /\ renumber' = renumber /\ ignoreDevno' = ignoreDevno
      /\ fmt' = fmt
  BY <1>1, OptionsStay DEF options
<1>4. /\ written \in Seq(Nat) /\ Len(ofs) = Len(written) + 0
      /\ \A i \in 1 .. Len(written) :
            /\ written[i] \in 1 .. done /\ ofs[i] = written[i]
            /\ hs[i] = StatToCpio(files[written[i]], hs[i].inode)
            /\ ~renumber => hs[i].inode = files[written[i]].inode
  BY <1>1, <1>2 DEF WrittenHeaders
<1>5. PICK n \in Nat : n = Len(written)
  <2>1. Len(written) \in Nat
    BY <1>4
  <2> QED BY <2>1
<1>6. /\ s \in Seq(Nat) /\ hs \in Seq(Stats) /\ ofs \in Seq(Nat)
      /\ Len(hs) = n /\ Len(ofs) = n /\ Len(s) = n /\ archive \in Seq(ArchiveCells)
  <2>1. /\ s \in Seq(Nat) /\ hs \in Seq(Stats) /\ ofs \in Seq(Nat)
        /\ Len(hs) = Len(s) /\ Len(ofs) = Len(s) /\ archive \in Seq(ArchiveCells)
    BY <1>2, LayoutIs
  <2> QED BY <1>4, <1>5, <2>1
<1>7. PICK a, b : a = archive /\ b = archive'
  OBVIOUS
<1>8. PICK ss, gs, os :
        ss = Append(s, Len(a) + 1) /\ gs = Append(hs, Trailer) /\ os = Append(ofs, 0)
  OBVIOUS
<1>9. Len(a) + 1 \in Nat
  BY <1>6, <1>7
<1>10. /\ Len(ss) = n + 1
       /\ Len(gs) = n + 1 /\ gs[n + 1] = Trailer /\ \A i \in 1 .. n : gs[i] = hs[i]
       /\ Len(os) = n + 1 /\ os[n + 1] = 0 /\ \A i \in 1 .. n : os[i] = ofs[i]
  <2>1. Len(ss) = n + 1
    BY <1>6, <1>8, <1>9, Appended
  <2>2. Len(gs) = n + 1 /\ gs[n + 1] = Trailer /\ \A i \in 1 .. n : gs[i] = hs[i]
    BY <1>6, <1>8, TrailerIsStat
  <2>3. Len(os) = n + 1 /\ os[n + 1] = 0 /\ \A i \in 1 .. n : os[i] = ofs[i]
    BY <1>6, <1>8
  <2> QED BY <2>1, <2>2, <2>3
<1>11. Layout(b, ss, gs, os, 1)
  <2>1. Layout(a, s, hs, ofs, 0)
    BY <1>1, <1>2, <1>7
  <2>2. b = a \o WholeHeader(0, Trailer, ValuesToWrite(fmt, Trailer))
    BY <1>1, <1>7
  <2>3. PICK c, z \in Nat : c = 1 /\ z = 0
    OBVIOUS
  <2>4. Layout(b, ss, gs, os, c)
    <3>1. b = a \o WholeHeader(z, Trailer, ValuesToWrite(fmt, Trailer))
      BY <2>2, <2>3
    <3>2. c # 0 /\ os = Append(ofs, z)
      BY <1>8, <2>3
    <3> QED BY <1>1, <1>8, <2>1, <3>1, <3>2, TrailerIsStat, TrailerFits, HeaderGrows
  <2> QED BY <2>3, <2>4
<1>12. Layout(b, ss, gs, os, 0)
  <2>8. PICK z \in Nat : z = 0
    OBVIOUS
  <2>1. PICK c, x : c = 1 /\ z = 0 /\ x = << >>
    BY <2>8
  <2>2. Stored(Trailer) = 0 /\ Trailer.kind = "trailer"
    <3>1. Trailer.size = 0 /\ Trailer.kind = "trailer"
      BY DEF Trailer
    <3>2. 0 < Half
      BY CastsAssumption
    <3> QED BY <3>1, <3>2, CastIs DEF Stored
  <2>3. IsContents(x, z, Trailer)
    BY <2>1, <2>2 DEF IsContents
  <2>4. b \in Seq(ArchiveCells)
    BY <1>11, LayoutIs
  <2>5. b = b \o x
    BY <2>1, <2>4, ConcatEmptySeq
  <2>6. Layout(b, ss, gs, os, c) /\ c # 0
    BY <1>11, <2>1
  <2>7. Trailer = gs[Len(ss)] /\ z = os[Len(ss)]
    BY <1>10, <2>1
  <2> QED BY <1>1, <2>3, <2>5, <2>6, <2>7, TrailerIsStat, ContentsGrow
<1>13. Layout(archive, ss, gs, os, cur)'
  <2>1. PICK c : c = 0
    OBVIOUS
  <2>2. Layout(b, ss, gs, os, c)'
    BY <1>1, <1>12, <2>1, LayoutStays
  <2>3. b = archive' /\ c = cur'
    BY <1>1, <1>7, <2>1
  <2> QED BY <2>2, <2>3
<1>14. WrittenHeaders(gs, os)'
  <2>1. \A i \in 1 .. n :
          /\ written'[i] \in 1 .. done' /\ os[i] = written'[i]
          /\ ~renumber' => gs[i].inode = files'[written'[i]].inode
    BY <1>1, <1>3, <1>4, <1>5, <1>10
  <2>2. \A i \in 1 .. n : gs[i] = StatToCpio(files[written[i]], gs[i].inode)'
    <3>1. \A g, m : StatToCpio(g, m)' = StatToCpio(g, m)
      BY <1>3 DEF StatToCpio
    <3>2. files' = files /\ written' = written
      BY <1>1, <1>3
    <3> QED BY <1>4, <1>5, <1>10, <3>1, <3>2, Zenon
  <2>3. Len(written') = n /\ written' \in Seq(Nat) /\ cur' = 0 /\ phase' # "out"
    BY <1>1, <1>4, <1>5
  <2> QED BY <1>10, <2>1, <2>2, <2>3 DEF WrittenHeaders
<1>15. Numbered(gs)'
  <2>1. \A m, id : Given(m, id, gs)' => Given(m, id, hs)
    BY <1>1, <1>3, <1>5, <1>10 DEF Given, Id
  <2> QED BY <1>1, <1>2, <1>3, <2>1 DEF Numbered
<1>16. Reading(ss, gs, os)'
  <2>1. pos = 0 /\ got = << >> /\ skipped = 0 /\ rfmt \in {"unknown", fmt, Magic(fmt)}
    BY <1>1, <1>2, StartsUnread
  <2>2. pos' = 0 /\ got' = << >> /\ skipped' = 0 /\ rfmt' \in {"unknown", fmt', Magic(fmt')}
    BY <1>1, <1>3, <2>1 DEF reader
  <2>3. Len(ss) > 0
    BY <1>10
  <2> QED BY <1>1, <1>13, <2>2, <2>3, NothingRead
<1>17. done' \in 0 .. Len(files') /\ nextInode' \in Nat
       /\ phase' \in {"out", "magic", "contents", "end", "exit"}
  BY <1>1, <1>3
<1> QED BY <1>3, <1>13, <1>14, <1>15, <1>16, <1>17 DEF ArchiveInv

-------------------------------------------------------------------------------
(* Copy-in's steps: the archive stays.                                     *)
LEMMA ReadsStay ==
  ASSUME UNCHANGED options
  PROVE  \A f, c : HeaderRead(f, c)' = HeaderRead(f, c)
BY DEF HeaderRead, Unswab, options

LEMMA ReaderStays ==
  ASSUME OptionsOK, done \in 0 .. Len(files), nextInode \in Nat,
         UNCHANGED <<options, writer>>, phase # "out",
         phase' \in {"magic", "contents", "end", "exit"},
         NEW s, NEW hs, NEW ofs,
         Layout(archive, s, hs, ofs, cur), WrittenHeaders(hs, ofs), Numbered(hs), Reading(s, hs, ofs)'
  PROVE  ArchiveInv'
<1>1. /\ options' = options /\ table' = table /\ nextInode' = nextInode /\ done' = done
      /\ written' = written /\ cur' = cur /\ archive' = archive /\ phase' # "out"
  BY DEF writer
<1>2. OptionsOK' /\ files' = files /\ renumber' = renumber /\ ignoreDevno' = ignoreDevno
      /\ fmt' = fmt
  BY <1>1, OptionsStay DEF options
<1>3. WrittenHeaders(hs, ofs)'
  BY <1>1, <1>2 DEF WrittenHeaders, StatToCpio
<1>4. Numbered(hs)'
  <2>1. \A n, id : Given(n, id, hs)' => Given(n, id, hs)
    BY <1>1, <1>2 DEF Given, Id
  <2> QED BY <1>1, <1>2, <2>1 DEF Numbered
<1>5. Layout(archive, s, hs, ofs, cur)'
  <2>1. PICK a, c : a = archive /\ c = cur
    OBVIOUS
  <2>2. Layout(a, s, hs, ofs, c)'
    BY <1>1, <2>1, LayoutStays
  <2>3. a = archive' /\ c = cur'
    BY <1>1, <2>1
  <2> QED BY <2>2, <2>3
<1> QED BY <1>1, <1>2, <1>3, <1>4, <1>5 DEF ArchiveInv


LEMMA TakenIs ==
  ASSUME NEW S, NEW a \in Seq(S), NEW c \in Seq(S), NEW p \in Nat, NEW n \in Nat,
         Len(c) = n, p + n <= Len(a), \A k \in 1 .. n : a[p + k] = c[k]
  PROVE  SubSeq(a, p + 1, p + n) = c
<1>1. PICK t : t = SubSeq(a, p + 1, p + n)
  OBVIOUS
<1>2. t \in Seq(S) /\ Len(t) = n /\ \A k \in 1 .. n : t[k] = a[p + k]
  <2>1. \A i \in p + 1 .. p + n : a[i] \in S
    OBVIOUS
  <2>2. /\ t \in Seq(S)
        /\ Len(t) = IF p + 1 <= p + n THEN (p + n) - (p + 1) + 1 ELSE 0
        /\ \A i \in 1 .. (p + n) - (p + 1) + 1 : t[i] = a[(p + 1) + i - 1]
    <3>1. p + 1 \in Int /\ p + n \in Int
      OBVIOUS
    <3> QED BY <1>1, <2>1, <3>1, SubSeqProperties
  <2>3. Len(t) = n
    BY <2>2
  <2>4. ASSUME NEW k \in 1 .. n PROVE t[k] = a[p + k]
    <3>1. k \in 1 .. (p + n) - (p + 1) + 1 /\ (p + 1) + k - 1 = p + k
      OBVIOUS
    <3> QED BY <2>2, <3>1
  <2> QED BY <2>2, <2>3, <2>4
<1>3. \A k \in 1 .. n : t[k] = c[k]
  BY <1>2
<1>4. t = c
  BY <1>2, <1>3, SeqEqual
<1> QED BY <1>1, <1>4

(* What is to be skipped between p and q is counted with what is up to p.  *)
LEMMA Counting ==
  ASSUME NEW a, NEW p \in Nat
  PROVE  /\ ~Unexpected(a[p + 1]) \/
              Cardinality({k \in 1 .. p + 1 : Unexpected(a[k])})
                = Cardinality({k \in 1 .. p : Unexpected(a[k])}) + 1
         /\ \A q \in Nat : q >= p /\ (\A k \in p + 1 .. q : ~Unexpected(a[k])) =>
              {k \in 1 .. q : Unexpected(a[k])} = {k \in 1 .. p : Unexpected(a[k])}
<1>1. ASSUME Unexpected(a[p + 1])
      PROVE  Cardinality({k \in 1 .. p + 1 : Unexpected(a[k])})
               = Cardinality({k \in 1 .. p : Unexpected(a[k])}) + 1
  <2>1. PICK S : S = {k \in 1 .. p : Unexpected(a[k])}
    OBVIOUS
  <2>2. {k \in 1 .. p + 1 : Unexpected(a[k])} = S \cup {p + 1}
    <3>1. \A k \in 1 .. p + 1 : k \in 1 .. p \/ k = p + 1
      OBVIOUS
    <3>2. p + 1 \in 1 .. p + 1 /\ \A k \in 1 .. p : k \in 1 .. p + 1
      OBVIOUS
    <3> QED BY <1>1, <2>1, <3>1, <3>2
  <2>3. IsFiniteSet(S)
    <3>1. IsFiniteSet(1 .. p)
      BY FS_Interval
    <3>2. S \in SUBSET (1 .. p)
      BY <2>1
    <3> QED BY <3>1, <3>2, FS_Subset
  <2>4. p + 1 \notin S
    BY <2>1
  <2> QED BY <2>1, <2>2, <2>3, <2>4, FS_AddElement
<1>2. ASSUME NEW q \in Nat, q >= p, \A k \in p + 1 .. q : ~Unexpected(a[k])
      PROVE  {k \in 1 .. q : Unexpected(a[k])} = {k \in 1 .. p : Unexpected(a[k])}
  <2>1. \A k \in 1 .. q : k \in 1 .. p \/ k \in p + 1 .. q
    OBVIOUS
  <2>2. \A k \in 1 .. p : k \in 1 .. q
    BY <1>2
  <2> QED BY <1>2, <2>1, <2>2, Zenon
<1> QED BY <1>1, <1>2

NoHeaders(a, p, q) == \A k \in p + 1 .. q : a[k].what # "header"

LEMMA NoHeaderBetween ==
  ASSUME OptionsOK, NEW a, NEW s, NEW hs, NEW ofs, Layout(a, s, hs, ofs, 0),
         NEW p \in Nat, NEW q \in Nat, p <= q,
         NoHeaders(a, p, q)
  PROVE  \A i \in 1 .. Len(s) : s[i] <= q <=> s[i] <= p
<1>1. \A i \in 1 .. Len(s) : s[i] \in Nat \ {0} /\ HeaderAt(a, s[i], ofs[i], hs[i])
  BY LayoutIs
<1> SUFFICES ASSUME NEW i \in 1 .. Len(s), s[i] <= q, ~(s[i] <= p) PROVE FALSE
  BY <1>1
<1>2. s[i] \in p + 1 .. q
  BY <1>1
<1>3. a[s[i]] = CellOf(ofs[i], hs[i])
  BY <1>1 DEF HeaderAt
<1> QED BY <1>2, <1>3, CellFacts DEF NoHeaders

LEMMA SkipFacts ==
  ASSUME OptionsOK, phase = "magic", ~AtHeader,
         NEW s, NEW hs, NEW ofs, Layout(archive, s, hs, ofs, 0), Reading(s, hs, ofs)
  PROVE  /\ pos + 1 \in 0 .. Len(archive)
         /\ \A i \in 1 .. Len(s) : s[i] <= pos + 1 <=> i <= Len(got)
         /\ AllBelowHalf =>
              /\ Border(archive, pos + 1, 0)
              /\ skipped + 1 = Cardinality({k \in 1 .. pos + 1 : Unexpected(archive[k])})
<1>1. PICK p \in Nat, m \in Nat, n \in Nat : p = pos /\ m = Len(got) /\ n = Len(s)
  <2>1. pos \in Nat /\ Len(got) \in Nat /\ Len(s) \in Nat
    BY LayoutIs DEF Reading
  <2> QED BY <2>1
<1>2. /\ m < n /\ p \in 0 .. Len(archive)
      /\ AllBelowHalf => /\ Border(archive, p, 0)
                         /\ skipped = Cardinality({k \in 1 .. p : Unexpected(archive[k])})
      /\ \A i \in 1 .. n : s[i] <= p <=> i <= m
  BY <1>1 DEF Reading
<1>3. PICK l \in Nat : l = Len(archive)
  <2>1. archive \in Seq(ArchiveCells)
    BY LayoutIs
  <2> QED BY <2>1
<1>4. p < l
  <2>1. m + 1 \in 1 .. n
    BY <1>2
  <2>2. s[m + 1] \in Nat /\ s[m + 1] <= l
    BY <1>1, <1>3, <2>1, LayoutIs
  <2>3. ~(s[m + 1] <= p)
    BY <1>2, <2>1
  <2> QED BY <2>2, <2>3
<1>5. archive[p + 1].what # "header"
  BY <1>1 DEF AtHeader
<1>6. AllBelowHalf => Unexpected(archive[p + 1])
  BY <1>2, <1>3, <1>4, <1>5 DEF Border, Loose
<1>7. p + 1 \in 1 .. l
  BY <1>4
<1>8. AllBelowHalf => Border(archive, p + 1, 0)
  BY <1>3, <1>6, <1>7, LayoutIs
<1>9. \A i \in 1 .. n : s[i] <= p + 1 <=> s[i] <= p
  <2>1. PICK q \in Nat : q = p + 1
    OBVIOUS
  <2>2. NoHeaders(archive, p, q)
    BY <1>5, <2>1 DEF NoHeaders
  <2> QED BY <1>1, <2>1, <2>2, NoHeaderBetween
<1>10. AllBelowHalf => skipped + 1 = Cardinality({k \in 1 .. p + 1 : Unexpected(archive[k])})
  BY <1>2, <1>6, Counting
<1> QED BY <1>1, <1>2, <1>3, <1>7, <1>8, <1>9, <1>10


LEMMA UnexpectedStays ==
  ASSUME UNCHANGED <<options, writer>>
  PROVE  /\ AllBelowHalf' <=> AllBelowHalf
         /\ \A k : Unexpected(archive[k])' <=> Unexpected(archive[k])
         /\ \A p : {k \in 1 .. p : Unexpected(archive[k])}' = {k \in 1 .. p : Unexpected(archive[k])}
<1>1. archive' = archive /\ fmt' = fmt
  BY DEF options, writer
<1>2. \A k : Unexpected(archive[k])' <=> Unexpected(archive[k])
  BY <1>1 DEF Unexpected
<1>3. AllBelowHalf' <=> AllBelowHalf
  BY DEF AllBelowHalf, options, writer
<1> QED BY <1>2, <1>3

LEMMA EntriesStay ==
  ASSUME UNCHANGED <<options, writer>>, rfmt' = rfmt
  PROVE  /\ \A of, h : HeaderRead(rfmt, CellOf(of, h))' = HeaderRead(rfmt, CellOf(of, h))
         /\ Entries' = Entries
         /\ \A p : Border(archive, p, 0)' <=> Border(archive, p, 0)
<1>1. archive' = archive /\ fmt' = fmt /\ options' = options /\ ArchiveCells' = ArchiveCells
  <2>1. archive' = archive /\ fmt' = fmt /\ options' = options
    BY DEF options, writer
  <2>2. ArchiveCells' = ArchiveCells
    BY <2>1, CellsStay DEF ArchiveCells, HeaderCells, OtherCells
  <2> QED BY <2>1, <2>2
<1>2. \A of, h : HeaderRead(rfmt, CellOf(of, h))' = HeaderRead(rfmt, CellOf(of, h))
  <2> SUFFICES ASSUME NEW of, NEW h
               PROVE  HeaderRead(rfmt, CellOf(of, h))' = HeaderRead(rfmt, CellOf(of, h))
    OBVIOUS
  <2>1. PICK f, c : f = rfmt /\ c = CellOf(of, h)
    OBVIOUS
  <2>2. HeaderRead(f, c)' = HeaderRead(f, c)
    BY <1>1, ReadsStay
  <2>3. f = rfmt' /\ c = CellOf(of, h)'
    BY <1>1, <2>1, CellsStay
  <2> QED BY <2>1, <2>2, <2>3
<1>3. Entries' = Entries
  BY <1>1 DEF Entries, HeadersRead
<1>4. \A p : Border(archive, p, 0)' <=> Border(archive, p, 0)
  BY <1>1 DEF Border, Loose, Unexpected
<1> QED BY <1>2, <1>3, <1>4

(* A cell of junk or of padding that is not expected                       *)
LEMMA SkippedStep ==
  ASSUME OptionsOK, phase = "magic", ~AtHeader, SkipByte,
         UNCHANGED <<options, writer>>, rfmt' = rfmt, got' = got, phase' = phase,
         NEW s, NEW hs, NEW ofs, Layout(archive, s, hs, ofs, 0), Reading(s, hs, ofs)
  PROVE  Reading(s, hs, ofs)'
<1>1. /\ rfmt \in {"unknown", fmt, Magic(fmt)}
      /\ rfmt = "unknown" => got = << >>
      /\ got \in Seq(Entries) /\ Len(got) < Len(s)
      /\ \A i \in 1 .. Len(got) :
           /\ got[i].of = ofs[i]
           /\ got[i].header = HeaderRead(rfmt, CellOf(ofs[i], hs[i]))
           /\ got[i].name = Cells("name", ofs[i], hs[i].namesize)
           /\ hs[i].size < Half => got[i].data = Cells("data", ofs[i], hs[i].size)
  BY DEF Reading
<1>2. /\ pos + 1 \in 0 .. Len(archive)
      /\ \A i \in 1 .. Len(s) : s[i] <= pos + 1 <=> i <= Len(got)
      /\ AllBelowHalf =>
           /\ Border(archive, pos + 1, 0)
           /\ skipped + 1 = Cardinality({k \in 1 .. pos + 1 : Unexpected(archive[k])})
  BY SkipFacts
<1>3. /\ \A of, h : HeaderRead(rfmt, CellOf(of, h))' = HeaderRead(rfmt, CellOf(of, h))
      /\ Entries' = Entries
      /\ \A p : Border(archive, p, 0)' <=> Border(archive, p, 0)
  BY EntriesStay
<1>4. /\ pos' = pos + 1 /\ skipped' = skipped + 1 /\ archive' = archive /\ fmt' = fmt
  BY DEF SkipByte, options, writer
<1>5. AllBelowHalf' => Border(archive, pos, 0)'
  BY <1>2, <1>4, UnexpectedStays DEF Border, Loose, Unexpected
<1>6. AllBelowHalf' => skipped' = Cardinality({k \in 1 .. pos : Unexpected(archive[k])}')
  <2>1. /\ AllBelowHalf' <=> AllBelowHalf
        /\ \A k : Unexpected(archive[k])' <=> Unexpected(archive[k])
    BY UnexpectedStays
  <2>2. {k \in 1 .. pos : Unexpected(archive[k])}' = {k \in 1 .. pos + 1 : Unexpected(archive[k])}
    BY <1>4, <2>1
  <2> QED BY <1>2, <1>4, <2>1, <2>2
<1>7. ASSUME NEW i \in 1 .. Len(got')
      PROVE  /\ got'[i].of = ofs[i]
             /\ got'[i].header = HeaderRead(rfmt, CellOf(ofs[i], hs[i]))'
             /\ got'[i].name = Cells("name", ofs[i], hs[i].namesize)
             /\ hs[i].size < Half => got'[i].data = Cells("data", ofs[i], hs[i].size)
  BY <1>1, <1>3
<1>8. pos' \in 0 .. Len(archive') /\ Len(got') < Len(s) /\ Len(got') <= Len(s)
  <2>1. Len(got) \in Nat /\ Len(s) \in Nat
    BY LayoutIs, <1>1
  <2> QED BY <1>1, <1>2, <1>4, <2>1
<1>9. \A i \in 1 .. Len(s) : s[i] <= pos' <=> i <= Len(got')
  BY <1>2, <1>4
<1>10. rfmt' \in {"unknown", fmt', Magic(fmt')} /\ (rfmt' = "unknown" => got' = << >>)
       /\ got' \in Seq(Entries)' /\ phase' = "magic"
  BY <1>1, <1>3, <1>4
<1> QED BY <1>5, <1>6, <1>7, <1>8, <1>9, <1>10 DEF Reading

LEMMA DetectFormatStep == ArchiveInv /\ DetectFormat => ArchiveInv'
<1> SUFFICES ASSUME ArchiveInv, DetectFormat PROVE ArchiveInv'
  OBVIOUS
<1>1. /\ OptionsOK /\ done \in 0 .. Len(files) /\ nextInode \in Nat
      /\ phase = "magic" /\ phase' = phase /\ rfmt = "unknown" /\ got' = got
      /\ UNCHANGED <<options, writer>>
  BY DEF ArchiveInv, DetectFormat
<1>2. PICK s, hs, ofs : /\ Layout(archive, s, hs, ofs, cur)
                        /\ WrittenHeaders(hs, ofs) /\ Numbered(hs)
                        /\ Reading(s, hs, ofs)
  BY DEF ArchiveInv
<1>3. Layout(archive, s, hs, ofs, 0)
  BY <1>1, <1>2 DEF WrittenHeaders
<1>4. Reading(s, hs, ofs)'
  <2>1. CASE ~AtHeader
    <3>1. SkipByte /\ rfmt' = rfmt
      BY <2>1 DEF DetectFormat
    <3> QED BY <1>1, <1>2, <1>3, <2>1, <3>1, SkippedStep
  <2>2. CASE AtHeader
    <3>1. rfmt' = Magic(fmt) /\ pos' = pos /\ skipped' = skipped
      BY <2>2 DEF DetectFormat
    <3>2. archive' = archive /\ fmt' = fmt
      BY <1>1 DEF options, writer
    <3>3. /\ got = << >> /\ pos \in 0 .. Len(archive) /\ Len(got) < Len(s)
          /\ \A i \in 1 .. Len(s) : s[i] <= pos <=> i <= Len(got)
          /\ AllBelowHalf =>
               /\ skipped = Cardinality({k \in 1 .. pos : Unexpected(archive[k])})
               /\ Border(archive, pos, 0)
      BY <1>1, <1>2 DEF Reading
    <3>10. AllBelowHalf' <=> AllBelowHalf
      BY <1>1, UnexpectedStays
    <3>4. AllBelowHalf' => Border(archive, pos, 0)'
      BY <3>1, <3>2, <3>3, <3>10 DEF Border, Loose, Unexpected
    <3>5. AllBelowHalf' => skipped' = Cardinality({k \in 1 .. pos : Unexpected(archive[k])}')
      <4>1. \A k : Unexpected(archive[k])' <=> Unexpected(archive[k])
        BY <1>1, UnexpectedStays
      <4>2. {k \in 1 .. pos : Unexpected(archive[k])}' = {k \in 1 .. pos : Unexpected(archive[k])}
        BY <3>1, <4>1
      <4> QED BY <3>1, <3>3, <3>10, <4>2
    <3>6. Len(got') = 0 /\ got' = << >> /\ got' \in Seq(Entries)'
      BY <1>1, <3>3
    <3>7. \A i : ~(i \in 1 .. Len(got'))
      BY <3>6
    <3>8. rfmt' # "unknown" /\ rfmt' \in {"unknown", fmt', Magic(fmt')}
      BY <1>1, <3>1, <3>2 DEF Magic, OptionsOK, Formats, New, OldAscii, Bin
    <3>9. /\ pos' \in 0 .. Len(archive') /\ Len(got') < Len(s) /\ Len(got') <= Len(s)
          /\ \A i \in 1 .. Len(s) : s[i] <= pos' <=> i <= Len(got')
      <4>1. Len(s) \in Nat
        BY <1>3, LayoutIs
      <4> QED BY <1>1, <3>1, <3>2, <3>3, <3>6, <4>1
    <3> QED BY <1>1, <3>4, <3>5, <3>6, <3>7, <3>8, <3>9, Zenon DEF Reading
  <2> QED BY <2>1, <2>2
<1> QED BY <1>1, <1>2, <1>4, ReaderStays

LEMMA SkipJunkStep == ArchiveInv /\ SkipJunk => ArchiveInv'
<1> SUFFICES ASSUME ArchiveInv, SkipJunk PROVE ArchiveInv'
  OBVIOUS
<1>1. /\ OptionsOK /\ done \in 0 .. Len(files) /\ nextInode \in Nat
      /\ phase = "magic" /\ phase' = phase /\ got' = got /\ rfmt' = rfmt
      /\ ~AtHeader /\ SkipByte
      /\ UNCHANGED <<options, writer>>
  BY DEF ArchiveInv, SkipJunk
<1>2. PICK s, hs, ofs : /\ Layout(archive, s, hs, ofs, cur)
                        /\ WrittenHeaders(hs, ofs) /\ Numbered(hs)
                        /\ Reading(s, hs, ofs)
  BY DEF ArchiveInv
<1>3. Layout(archive, s, hs, ofs, 0)
  BY <1>1, <1>2 DEF WrittenHeaders
<1>4. Reading(s, hs, ofs)'
  BY <1>1, <1>2, <1>3, SkippedStep
<1> QED BY <1>1, <1>2, <1>4, ReaderStays


(* The header n, whose numbers are read as h, is the next to be read; it   *)
(* ends at q.                                                              *)
IsNext(s, hs, ofs, n, h, q) ==
  /\ n = Len(got) + 1
  /\ h = HeaderRead(rfmt, CellOf(ofs[n], hs[n]))
  /\ q = EndOfHeader(s[n], hs[n])

(* What copy-in does with the header in front of it                        *)
LEMMA HeaderFacts ==
  ASSUME OptionsOK, phase = "magic", rfmt # "unknown", AtHeader, done \in 0 .. Len(files),
         NEW s, NEW hs, NEW ofs, Layout(archive, s, hs, ofs, 0), WrittenHeaders(hs, ofs),
         Reading(s, hs, ofs), NEW n, NEW h, NEW q, IsNext(s, hs, ofs, n, h, q)
  PROVE  /\ n \in 1 .. Len(s) /\ archive[pos + 1] = CellOf(ofs[n], hs[n])
         /\ ofs[n] \in Nat /\ hs[n] \in Stats /\ h \in HeadersRead
         /\ Taken(pos + 1, h.namesize) = Cells("name", ofs[n], hs[n].namesize)
         /\ Cells("name", ofs[n], hs[n].namesize) \in Seq(ArchiveCells)
         /\ pos + 1 + h.namesize + SkipPadding(rfmt, h.namesize + HeaderSize(rfmt)) = q
         /\ q \in 0 .. Len(archive)
         /\ AllBelowHalf => skipped = Cardinality({k \in 1 .. q : Unexpected(archive[k])})
         /\ \A i \in 1 .. Len(s) : s[i] <= q <=> i <= n
         /\ hs[n].kind = "trailer" <=> n = Len(s)
<1>0. /\ n = Len(got) + 1
      /\ h = HeaderRead(rfmt, CellOf(ofs[n], hs[n]))
      /\ q = EndOfHeader(s[n], hs[n])
  BY DEF IsNext
<1>1. PICK p \in Nat, m \in Nat, z \in Nat : p = pos /\ m = Len(got) /\ z = Len(s)
  <2>1. pos \in Nat /\ Len(got) \in Nat /\ Len(s) \in Nat
    BY LayoutIs DEF Reading
  <2> QED BY <2>1
<1>2. /\ m < z /\ p \in 0 .. Len(archive)
      /\ AllBelowHalf => skipped = Cardinality({k \in 1 .. p : Unexpected(archive[k])})
      /\ \A i \in 1 .. z : s[i] <= p <=> i <= m
      /\ rfmt \in {fmt, Magic(fmt)}
  BY <1>1 DEF Reading
<1>3. n = m + 1 /\ n \in 1 .. z
  BY <1>0, <1>1, <1>2
<1>4. PICK l \in Nat : l = Len(archive)
  <2>1. archive \in Seq(ArchiveCells)
    BY LayoutIs
  <2> QED BY <2>1
<1>5. PICK g \in Stats, of \in Nat, t \in Nat : g = hs[n] /\ of = ofs[n] /\ t = s[n]
  <2>1. hs[n] \in Stats /\ ofs[n] \in Nat /\ s[n] \in Nat
    BY <1>1, <1>3, LayoutIs
  <2> QED BY <2>1
<1>6. HeaderAt(archive, t, of, g) /\ t <= l
  BY <1>1, <1>3, <1>4, <1>5, LayoutIs
<1>7. PICK w \in Nat, e \in Nat : w = g.namesize /\ e = q /\ e = EndOfHeader(t, g) /\ e >= t + w
  <2>1. q = EndOfHeader(t, g)
    BY <1>0, <1>5
  <2>2. g.namesize \in Nat /\ EndOfHeader(t, g) \in Nat /\ EndOfHeader(t, g) >= t + g.namesize
    BY EndsType
  <2> QED BY <2>1, <2>2
<1>8. /\ archive[t] = CellOf(of, g) /\ ~TooWide(fmt, "namesize", w) /\ e <= l
      /\ \A k \in 1 .. w : archive[t + k] = [what |-> "name", of |-> of, nth |-> k]
      /\ \A k \in t + w + 1 .. e : archive[k].what = "pad" /\ fmt \notin OldAscii
  BY <1>4, <1>6, <1>7 DEF HeaderAt
<1>9. t = p + 1
  <2>1. ~(t <= p)
    BY <1>2, <1>3, <1>5
  <2>2. p + 1 \in 1 .. l /\ archive[p + 1].what = "header"
    <3>1. p < l
      BY <1>6, <2>1
    <3> QED BY <1>1, <3>1 DEF AtHeader
  <2>3. PICK i \in 1 .. z : s[i] = p + 1
    <3>1. \A k \in 1 .. Len(archive) :
            archive[k].what = "header" => \E i \in 1 .. Len(s) : s[i] = k
      BY LayoutIs
    <3> QED BY <1>1, <1>4, <2>2, <3>1, Zenon
  <2>4. ~(i <= m)
    BY <1>2, <2>3
  <2>5. CASE i = n
    BY <1>5, <2>3, <2>5
  <2>6. CASE n < i
    <3>1. s[n] < s[i]
      BY <1>1, <1>3, <2>6, LayoutIs
    <3> QED BY <1>5, <2>1, <2>3, <3>1
  <2> QED BY <1>3, <2>4, <2>5, <2>6
<1>10. h \in HeadersRead /\ h.namesize = w
  <2>1. PICK c, f : c = CellOf(of, g) /\ f = rfmt
    OBVIOUS
  <2>2. h = HeaderRead(f, c) /\ f \in {fmt, Magic(fmt)}
    BY <1>0, <1>2, <1>5, <2>1
  <2>3. /\ h \in HeadersRead
        /\ \A field \in Shared : ~TooWide(fmt, field, g[field]) => h[field] = g[field]
    BY <2>1, <2>2, HeaderReadIs
  <2>4. ~TooWide(fmt, "namesize", g["namesize"]) => h["namesize"] = g["namesize"]
    BY <2>3 DEF Shared
  <2> QED BY <1>7, <1>8, <2>3, <2>4
<1>11. Taken(pos + 1, w) = Cells("name", of, w)
  <2>1. SubSeq(archive, t + 1, t + w) = Cells("name", of, w)
    <3>1. archive \in Seq(ArchiveCells)
      BY LayoutIs
    <3>2. t + w <= Len(archive)
      BY <1>4, <1>7, <1>8
    <3>3. PICK c : c = Cells("name", of, w)
      OBVIOUS
    <3>4. /\ Cells("name", of, w) \in Seq(ArchiveCells) /\ Len(Cells("name", of, w)) = w
          /\ \A k \in 1 .. w : Cells("name", of, w)[k] = [what |-> "name", of |-> of, nth |-> k]
      BY CellsAre
    <3>5. c \in Seq(ArchiveCells) /\ Len(c) = w /\ \A k \in 1 .. w : archive[t + k] = c[k]
      BY <1>8, <3>3, <3>4, Zenon
    <3>6. SubSeq(archive, t + 1, t + w) = c
      BY <3>1, <3>2, <3>5, TakenIs
    <3> QED BY <3>3, <3>6
  <2> QED BY <1>1, <1>9, <2>1 DEF Taken
<1>12. pos + 1 + w + SkipPadding(rfmt, w + HeaderSize(rfmt)) = e
  <2>1. HeaderSize(rfmt) = HeaderSize(fmt) /\ \A j : SkipPadding(rfmt, j) = SkipPadding(fmt, j)
    BY <1>2, SameFields DEF OptionsOK
  <2>2. e = t + w + SkipPadding(fmt, w + HeaderSize(fmt))
    BY <1>7, Zenon DEF EndOfHeader
  <2> QED BY <1>1, <1>9, <2>1, <2>2
<1>13. \A k \in p + 1 .. e : k = t \/ k \in t + 1 .. t + w \/ k \in t + w + 1 .. e
  BY <1>9
<1>14. \A k \in t + 1 .. e : archive[k].what # "header" /\ ~Unexpected(archive[k])
  <2> TAKE k \in t + 1 .. e
  <2>1. CASE k \in t + 1 .. t + w
    <3>1. PICK j \in 1 .. w : k = t + j
      <4>1. k - t \in 1 .. w /\ k = t + (k - t)
        BY <2>1
      <4> QED BY <4>1
    <3>2. archive[k] = [what |-> "name", of |-> of, nth |-> j]
      BY <1>8, <3>1
    <3> QED BY <3>2 DEF Unexpected
  <2>2. CASE k \in t + w + 1 .. e
    BY <1>8, <2>2 DEF Unexpected
  <2> QED BY <2>1, <2>2
<1>15. AllBelowHalf => skipped = Cardinality({k \in 1 .. e : Unexpected(archive[k])})
  <2>1. \A k \in p + 1 .. e : ~Unexpected(archive[k])
    <3> TAKE k \in p + 1 .. e
    <3>1. CASE k = t
      BY <1>8, <3>1, CellFacts
    <3>2. CASE k \in t + 1 .. e
      BY <1>14, <3>2
    <3> QED BY <1>9, <3>1, <3>2
  <2>2. e >= p
    BY <1>7, <1>9
  <2>3. {k \in 1 .. e : Unexpected(archive[k])} = {k \in 1 .. p : Unexpected(archive[k])}
    BY <2>1, <2>2, Counting
  <2> QED BY <1>2, <2>3
<1>16. \A i \in 1 .. z : s[i] <= e <=> i <= n
  <2>1. \A i \in 1 .. z : s[i] <= e <=> s[i] <= t
    <3>1. NoHeaders(archive, t, e)
      BY <1>14 DEF NoHeaders
    <3>2. t <= e
      BY <1>7
    <3> QED BY <1>1, <3>1, <3>2, NoHeaderBetween
  <2>2. \A i \in 1 .. z : s[i] \in Nat /\ (i < n => s[i] < t) /\ (n < i => t < s[i])
    BY <1>1, <1>3, <1>5, LayoutIs
  <2> TAKE i \in 1 .. z
  <2>3. i < n \/ i = n \/ n < i
    BY <1>3
  <2>4. CASE i = n
    BY <1>5, <2>1, <2>4
  <2>5. CASE i < n
    BY <1>3, <2>1, <2>2, <2>5
  <2>6. CASE n < i
    BY <1>3, <2>1, <2>2, <2>6
  <2> QED BY <2>3, <2>4, <2>5, <2>6
<1>17. hs[n].kind = "trailer" <=> n = z
  <2>1. Len(ofs) = z /\ Len(ofs) = Len(written) + 1 /\ hs[Len(ofs)] = Trailer
        /\ Len(written) \in Nat
    <3>1. Len(ofs) = z
      BY <1>1, LayoutIs
    <3>2. Len(ofs) = Len(written) + 1 /\ hs[Len(ofs)] = Trailer
      BY DEF WrittenHeaders
    <3>3. Len(written) \in Nat
      BY WrittenFacts
    <3> QED BY <3>1, <3>2, <3>3
  <2>2. CASE n = z
    BY <1>3, <2>1, <2>2 DEF Trailer
  <2>3. CASE n # z
    <3>1. n \in 1 .. Len(written)
      BY <1>3, <2>1, <2>3
    <3>2. hs[n].kind = files[written[n]].kind /\ files[written[n]] \in Files
      BY <3>1, WrittenFacts
    <3>3. hs[n].kind \in Kinds
      BY <3>2 DEF Files
    <3> QED BY <2>3, <3>3 DEF Kinds
  <2> QED BY <2>2, <2>3
<1>18. Cells("name", of, w) \in Seq(ArchiveCells)
  BY CellsAre
<1>19. e \in 0 .. Len(archive)
  BY <1>4, <1>8
<1>20. archive[pos + 1] = CellOf(of, g)
  BY <1>1, <1>8, <1>9
<1> QED BY <1>1, <1>3, <1>5, <1>7, <1>10, <1>11, <1>12, <1>15, <1>16, <1>17, <1>18, <1>19, <1>20


(* The contents of the entry n, whose header was read as h, are the next   *)
(* to be taken; l of them are, and copy-in gets to e.                      *)
IsLast(n, h, l, e) ==
  /\ n = Len(got) /\ h = InHand
  /\ l = IF Told(InHand) > 0 THEN Told(InHand) ELSE 0
  /\ e = IF h.kind = "reg" THEN pos + l + SkipPadding(rfmt, h.size) ELSE pos

(* What copy-in does with the contents in front of it                      *)
LEMMA ContentsFacts ==
  ASSUME OptionsOK, phase = "contents",
         NEW s, NEW hs, NEW ofs, Layout(archive, s, hs, ofs, 0), Reading(s, hs, ofs),
         NEW n, NEW h, NEW l, NEW e, IsLast(n, h, l, e)
  PROVE  /\ n \in 1 .. Len(got) /\ n < Len(s)
         /\ h.kind = "reg" => Taken(pos, l) \in Seq(ArchiveCells)
         /\ hs[n].size < Half =>
              /\ h.kind = "reg" => Taken(pos, l) = Cells("data", ofs[n], hs[n].size)
              /\ h.kind # "reg" => Cells("data", ofs[n], hs[n].size) = << >>
              /\ Border(archive, e, 0)
         /\ e \in 0 .. Len(archive)
         /\ AllBelowHalf => skipped = Cardinality({k \in 1 .. e : Unexpected(archive[k])})
         /\ \A i \in 1 .. Len(s) : s[i] <= e <=> i <= n
<1>0. n = Len(got) /\ h = got[n].header
  BY DEF IsLast, InHand
<1>1. PICK p \in Nat, m \in Nat, z \in Nat : p = pos /\ m = Len(got) /\ z = Len(s)
  <2>1. pos \in Nat /\ Len(got) \in Nat /\ Len(s) \in Nat
    BY LayoutIs DEF Reading
  <2> QED BY <2>1
<1>2. /\ m > 0 /\ m < z /\ p = EndOfHeader(s[m], hs[m])
      /\ AllBelowHalf => skipped = Cardinality({k \in 1 .. p : Unexpected(archive[k])})
      /\ \A i \in 1 .. z : s[i] <= p <=> i <= m
  BY <1>1 DEF Reading
<1>3. n = m /\ n \in 1 .. m /\ n \in 1 .. z
  BY <1>0, <1>1, <1>2
<1>4. rfmt \in {fmt, Magic(fmt)} /\ h = HeaderRead(rfmt, CellOf(ofs[n], hs[n]))
  <2>1. /\ rfmt \in {"unknown", fmt, Magic(fmt)} /\ (rfmt = "unknown" => got = << >>)
        /\ got[n].header = HeaderRead(rfmt, CellOf(ofs[n], hs[n]))
    BY <1>1, <1>3 DEF Reading
  <2>2. got # << >>
    BY <1>1, <1>2
  <2> QED BY <1>0, <2>1, <2>2
<1>5. PICK a \in Nat : a = Len(archive)
  <2>1. archive \in Seq(ArchiveCells)
    BY LayoutIs
  <2> QED BY <2>1
<1>6. PICK g \in Stats, of \in Nat, t \in Nat : g = hs[n] /\ of = ofs[n] /\ t = s[n]
  <2>1. hs[n] \in Stats /\ ofs[n] \in Nat /\ s[n] \in Nat
    BY <1>1, <1>3, LayoutIs
  <2> QED BY <2>1
<1>7. HeaderAt(archive, t, of, g) /\ ContentsAt(archive, t, of, g, 0)
  <2>1. \A i \in 1 .. Len(s) : (0 # 0 => i < Len(s)) => ContentsAt(archive, s[i], ofs[i], hs[i], 0)
    BY LayoutIs
  <2>2. HeaderAt(archive, s[n], ofs[n], hs[n])
    BY <1>1, <1>3, LayoutIs
  <2> QED BY <1>1, <1>3, <1>6, <2>1, <2>2
<1>8. PICK v \in Nat, w \in Nat, r \in Nat :
        v = g.size /\ w = Stored(g) /\ r = EndOfEntry(t, g) /\ r >= p + w
  <2>1. p = EndOfHeader(t, g)
    BY <1>2, <1>3, <1>6
  <2>2. /\ g.size \in Nat /\ Stored(g) \in Nat
        /\ EndOfEntry(t, g) \in Nat /\ EndOfEntry(t, g) >= EndOfHeader(t, g) + Stored(g)
    BY EndsType
  <2> QED BY <2>1, <2>2
<1>9. EndOfHeader(t, g) = p
  BY <1>2, <1>3, <1>6
<1>10. /\ \A k \in 1 .. w : archive[p + k] = [what |-> "data", of |-> of, nth |-> k]
       /\ \A k \in p + w + 1 .. r : archive[k].what = "pad" /\ fmt \notin OldAscii
       /\ Border(archive, r, 0) /\ ~TooWide(fmt, "size", v)
  BY <1>7, <1>8, <1>9 DEF ContentsAt, HeaderAt
<1>11. r \in 0 .. a
  BY <1>5, <1>10 DEF Border
<1>12. h.kind = g.kind /\ h.size = v
  <2>1. PICK c, f : c = CellOf(of, g) /\ f = rfmt
    OBVIOUS
  <2>2. h = HeaderRead(f, c) /\ f \in {fmt, Magic(fmt)}
    BY <1>4, <1>6, <2>1
  <2>3. /\ h.kind = g.kind
        /\ \A field \in Shared : ~TooWide(fmt, field, g[field]) => h[field] = g[field]
    BY <2>1, <2>2, HeaderReadIs
  <2>4. ~TooWide(fmt, "size", g["size"]) => h["size"] = g["size"]
    BY <2>3 DEF Shared
  <2> QED BY <1>8, <1>10, <2>3, <2>4
<1>13. PICK i \in Int : /\ i = AsI32(v)
                        /\ i >= 0 => w = i
                        /\ v < Half => i = v /\ w = v
  <2>1. /\ AsI32(v) \in Int /\ (AsI32(v) >= 0 => AsUsize(AsI32(v)) = AsI32(v))
        /\ v < Half => AsI32(v) = v /\ AsUsize(AsI32(v)) = v
    BY CastIs
  <2>2. w = AsUsize(AsI32(v))
    BY <1>8 DEF Stored
  <2> QED BY <2>1, <2>2
<1>14. PICK u \in Nat : u = l /\ u <= w /\ (v < Half => u = w)
  <2>1. l = IF i > 0 THEN i ELSE 0
    BY <1>0, <1>12, <1>13 DEF IsLast, InHand, Told
  <2> QED BY <1>13, <2>1
<1>15. v < Half \/ v >= Half
  <2>1. Half \in Nat
    BY CastsAssumption
  <2> QED BY <2>1
<1>16. Taken(pos, u) = Cells("data", of, u) /\ Cells("data", of, u) \in Seq(ArchiveCells)
       /\ (u = 0 => Cells("data", of, u) = << >>)
  <2>1. PICK c : c = Cells("data", of, u)
    OBVIOUS
  <2>2. /\ c \in Seq(ArchiveCells) /\ Len(c) = u
        /\ \A k \in 1 .. u : archive[p + k] = c[k]
    <3>1. /\ Cells("data", of, u) \in Seq(ArchiveCells) /\ Len(Cells("data", of, u)) = u
          /\ \A k \in 1 .. u :
               Cells("data", of, u)[k] = [what |-> "data", of |-> of, nth |-> k]
      BY CellsAre
    <3>2. \A k \in 1 .. u : k \in 1 .. w
      BY <1>14
    <3> QED BY <1>10, <2>1, <3>1, <3>2, Zenon
  <2>3. archive \in Seq(ArchiveCells) /\ p + u <= Len(archive)
    BY <1>5, <1>8, <1>11, <1>14, LayoutIs
  <2>4. SubSeq(archive, p + 1, p + u) = c
    BY <2>2, <2>3, TakenIs
  <2>5. u = 0 => c = << >>
    BY <2>2
  <2> QED BY <1>1, <2>1, <2>2, <2>4, <2>5 DEF Taken
<1>17. PICK pad \in Nat : /\ pad = IF g.kind = "reg" THEN SkipPadding(rfmt, v) ELSE 0
                          /\ r = p + w + pad
  <2>1. \A j : SkipPadding(rfmt, j) = SkipPadding(fmt, j)
    BY <1>4, SameFields DEF OptionsOK
  <2>2. r = p + w + IF g.kind = "reg" THEN SkipPadding(fmt, v) ELSE 0
    BY <1>8, <1>9, Zenon DEF EndOfEntry
  <2>3. fmt \in Formats
    BY DEF OptionsOK
  <2>4. SkipPadding(fmt, v) \in Nat
    BY <2>3, Paddings
  <2> QED BY <2>1, <2>2, <2>4
<1>18. h.kind # "reg" => v = 0 /\ w = 0 /\ u = 0 /\ p = r
  <2> SUFFICES ASSUME h.kind # "reg" PROVE v = 0 /\ w = 0 /\ u = 0 /\ p = r
    OBVIOUS
  <2>1. v = 0
    BY <1>8, <1>12 DEF Stats
  <2>2. 0 < Half
    BY CastsAssumption
  <2>3. w = 0 /\ u = 0
    BY <1>13, <1>14, <2>1, <2>2
  <2>4. pad = 0
    BY <1>12, <1>17
  <2> QED BY <1>17, <2>1, <2>3, <2>4
<1>19. PICK q \in Nat : q = e /\ q >= p /\ q <= r /\ (v < Half => q = r)
  <2>1. e = IF h.kind = "reg" THEN p + u + pad ELSE p
    BY <1>1, <1>12, <1>14, <1>17 DEF IsLast
  <2>2. CASE h.kind = "reg"
    BY <1>14, <1>17, <2>1, <2>2
  <2>3. CASE h.kind # "reg"
    BY <1>18, <2>1, <2>3
  <2> QED BY <2>2, <2>3
<1>20. \A k \in p + 1 .. r : archive[k].what # "header" /\ ~Unexpected(archive[k])
  <2> TAKE k \in p + 1 .. r
  <2>1. CASE k \in p + 1 .. p + w
    <3>1. PICK j \in 1 .. w : k = p + j
      <4>1. k - p \in 1 .. w /\ k = p + (k - p)
        BY <2>1
      <4> QED BY <4>1
    <3>2. archive[k] = [what |-> "data", of |-> of, nth |-> j]
      BY <1>10, <3>1
    <3> QED BY <3>2 DEF Unexpected
  <2>2. CASE k \in p + w + 1 .. r
    BY <1>10, <2>2 DEF Unexpected
  <2> QED BY <2>1, <2>2
<1>21. \A k \in p + 1 .. q : archive[k].what # "header" /\ ~Unexpected(archive[k])
  <2>1. \A k \in p + 1 .. q : k \in p + 1 .. r
    BY <1>19
  <2> QED BY <1>20, <2>1, Zenon
<1>22. AllBelowHalf => skipped = Cardinality({k \in 1 .. q : Unexpected(archive[k])})
  <2>1. {k \in 1 .. q : Unexpected(archive[k])} = {k \in 1 .. p : Unexpected(archive[k])}
    <3>1. q >= p /\ \A k \in p + 1 .. q : ~Unexpected(archive[k])
      BY <1>19, <1>21
    <3> QED BY <3>1, Counting
  <2> QED BY <1>2, <2>1
<1>23. \A j \in 1 .. z : s[j] <= q <=> j <= n
  <2>1. \A j \in 1 .. z : s[j] <= q <=> s[j] <= p
    <3>1. p <= q
      BY <1>19
    <3>2. NoHeaders(archive, p, q)
      BY <1>21 DEF NoHeaders
    <3>3. \A j \in 1 .. Len(s) : s[j] <= q <=> s[j] <= p
      BY <3>1, <3>2, NoHeaderBetween
    <3> QED BY <1>1, <3>3, Zenon
  <2> QED BY <1>2, <1>3, <2>1
<1>24. hs[n].size < Half =>
         /\ h.kind = "reg" => Taken(pos, l) = Cells("data", ofs[n], hs[n].size)
         /\ h.kind # "reg" => Cells("data", ofs[n], hs[n].size) = << >>
         /\ Border(archive, e, 0)
  <2> SUFFICES ASSUME hs[n].size < Half
               PROVE  /\ h.kind = "reg" => Taken(pos, l) = Cells("data", ofs[n], hs[n].size)
                      /\ h.kind # "reg" => Cells("data", ofs[n], hs[n].size) = << >>
                      /\ Border(archive, e, 0)
    OBVIOUS
  <2>1. v < Half /\ v = hs[n].size
    BY <1>6, <1>8
  <2>2. u = v /\ q = r
    BY <1>13, <1>14, <1>19, <2>1
  <2>3. Taken(pos, l) = Cells("data", ofs[n], hs[n].size)
    BY <1>6, <1>14, <1>16, <2>1, <2>2
  <2>4. h.kind # "reg" => Cells("data", ofs[n], hs[n].size) = << >>
    BY <1>6, <1>16, <1>18, <2>1, <2>2
  <2>5. Border(archive, e, 0)
    BY <1>10, <1>19, <2>2
  <2> QED BY <2>3, <2>4, <2>5
<1>25. h.kind = "reg" => Taken(pos, l) \in Seq(ArchiveCells)
  BY <1>14, <1>16
<1>26. e \in 0 .. Len(archive)
  BY <1>5, <1>11, <1>19
<1> QED BY <1>1, <1>2, <1>3, <1>19, <1>22, <1>23, <1>24, <1>25, <1>26

LEMMA ReadInHeaderStep == ArchiveInv /\ ReadInHeader => ArchiveInv'
<1> SUFFICES ASSUME ArchiveInv, ReadInHeader PROVE ArchiveInv'
  OBVIOUS
<1>1. /\ OptionsOK /\ done \in 0 .. Len(files) /\ nextInode \in Nat
      /\ phase = "magic" /\ rfmt # "unknown" /\ AtHeader
      /\ UNCHANGED <<options, writer>> /\ rfmt' = rfmt /\ skipped' = skipped
  BY DEF ArchiveInv, ReadInHeader
<1>2. PICK s, hs, ofs : /\ Layout(archive, s, hs, ofs, cur)
                        /\ WrittenHeaders(hs, ofs) /\ Numbered(hs)
                        /\ Reading(s, hs, ofs)
  BY DEF ArchiveInv
<1>3. Layout(archive, s, hs, ofs, 0)
  BY <1>1, <1>2 DEF WrittenHeaders
<1>4. PICK n, q : n = Len(got) + 1 /\ q = EndOfHeader(s[n], hs[n])
  OBVIOUS
<1>5. PICK h, c : h = HeaderRead(rfmt, c) /\ c = CellOf(ofs[n], hs[n])
  OBVIOUS
<1>6. /\ n \in 1 .. Len(s) /\ archive[pos + 1] = c
      /\ ofs[n] \in Nat /\ hs[n] \in Stats /\ h \in HeadersRead
      /\ Taken(pos + 1, h.namesize) = Cells("name", ofs[n], hs[n].namesize)
      /\ Cells("name", ofs[n], hs[n].namesize) \in Seq(ArchiveCells)
      /\ pos + 1 + h.namesize + SkipPadding(rfmt, h.namesize + HeaderSize(rfmt)) = q
      /\ q \in 0 .. Len(archive)
      /\ AllBelowHalf => skipped = Cardinality({k \in 1 .. q : Unexpected(archive[k])})
      /\ \A i \in 1 .. Len(s) : s[i] <= q <=> i <= n
      /\ hs[n].kind = "trailer" <=> n = Len(s)
  <2>1. OptionsOK /\ phase = "magic" /\ rfmt # "unknown" /\ AtHeader /\ done \in 0 .. Len(files)
    BY <1>1
  <2>2. Layout(archive, s, hs, ofs, 0) /\ WrittenHeaders(hs, ofs) /\ Reading(s, hs, ofs)
    BY <1>2, <1>3
  <2>3. h = HeaderRead(rfmt, CellOf(ofs[n], hs[n]))
    BY <1>5
  <2>4. IsNext(s, hs, ofs, n, h, q)
    BY <1>4, <2>3 DEF IsNext
  <2>5. /\ n \in 1 .. Len(s) /\ archive[pos + 1] = CellOf(ofs[n], hs[n])
        /\ ofs[n] \in Nat /\ hs[n] \in Stats /\ h \in HeadersRead
        /\ Taken(pos + 1, h.namesize) = Cells("name", ofs[n], hs[n].namesize)
        /\ Cells("name", ofs[n], hs[n].namesize) \in Seq(ArchiveCells)
        /\ pos + 1 + h.namesize + SkipPadding(rfmt, h.namesize + HeaderSize(rfmt)) = q
        /\ q \in 0 .. Len(archive)
        /\ AllBelowHalf => skipped = Cardinality({k \in 1 .. q : Unexpected(archive[k])})
        /\ \A i \in 1 .. Len(s) : s[i] <= q <=> i <= n
        /\ hs[n].kind = "trailer" <=> n = Len(s)
    BY <2>1, <2>2, <2>4, HeaderFacts
  <2> QED BY <1>5, <2>5, Zenon
<1>7. c.kind = hs[n].kind /\ c.of = ofs[n]
  BY <1>5, CellFacts
<1>8. PICK e : e = [of |-> ofs[n], header |-> h,
                    name |-> Cells("name", ofs[n], hs[n].namesize), data |-> << >>]
  OBVIOUS
<1>9. /\ got' = Append(got, e) /\ pos' = q
      /\ phase' = IF n = Len(s) THEN "end" ELSE "contents"
  <2>1. archive[pos + 1] = c
    BY <1>6
  <2>2. /\ got' = Append(got, [of |-> c.of, header |-> h,
                               name |-> Taken(pos + 1, h.namesize), data |-> << >>])
        /\ pos' = pos + 1 + h.namesize + SkipPadding(rfmt, h.namesize + HeaderSize(rfmt))
        /\ phase' = IF c.kind = "trailer" THEN "end" ELSE "contents"
    BY <1>5, <2>1 DEF ReadInHeader
  <2>3. got' = Append(got, e)
    BY <1>6, <1>7, <1>8, <2>2, Zenon
  <2>4. pos' = q
    BY <1>6, <2>2, Zenon
  <2>5. phase' = IF n = Len(s) THEN "end" ELSE "contents"
    BY <1>6, <1>7, <2>2
  <2> QED BY <2>3, <2>4, <2>5
<1>10. e \in Entries
  BY <1>6, <1>8 DEF Entries
<1>11. /\ rfmt \in {"unknown", fmt, Magic(fmt)} /\ got \in Seq(Entries)
       /\ \A i \in 1 .. Len(got) :
            /\ got[i].of = ofs[i]
            /\ got[i].header = HeaderRead(rfmt, CellOf(ofs[i], hs[i]))
            /\ got[i].name = Cells("name", ofs[i], hs[i].namesize)
            /\ hs[i].size < Half => got[i].data = Cells("data", ofs[i], hs[i].size)
  BY <1>1, <1>2 DEF Reading
<1>12. PICK m \in Nat, z \in Nat : m = Len(got) /\ n = m + 1 /\ z = Len(s)
  <2>1. Len(got) \in Nat /\ Len(s) \in Nat
    BY <1>3, <1>11, LayoutIs
  <2> QED BY <1>4, <2>1
<1>13. /\ got' \in Seq(Entries) /\ Len(got') = n /\ got'[n] = e
       /\ \A i \in 1 .. m : got'[i] = got[i]
  <2>1. /\ got' \in Seq(Entries) /\ Len(got') = Len(got) + 1
        /\ \A i \in 1 .. Len(got) : got'[i] = got[i]
        /\ got'[Len(got) + 1] = e
    <3>1. PICK u : u = got'
      OBVIOUS
    <3>2. u = Append(got, e) /\ got \in Seq(Entries)
      BY <1>9, <1>11, <3>1
    <3>3. /\ u \in Seq(Entries) /\ Len(u) = Len(got) + 1
          /\ \A i \in 1 .. Len(got) : u[i] = got[i]
          /\ u[Len(got) + 1] = e
      BY <1>10, <3>2, Appended
    <3> QED BY <3>1, <3>3, Zenon
  <2> QED BY <1>12, <2>1, Zenon
<1>14. /\ \A of, g : HeaderRead(rfmt, CellOf(of, g))' = HeaderRead(rfmt, CellOf(of, g))
       /\ Entries' = Entries
  BY <1>1, EntriesStay
<1>15. archive' = archive /\ fmt' = fmt
  BY <1>1 DEF options, writer
<1>16. ASSUME NEW i \in 1 .. n
       PROVE  /\ got'[i].of = ofs[i]
              /\ got'[i].header = HeaderRead(rfmt, CellOf(ofs[i], hs[i]))'
              /\ got'[i].name = Cells("name", ofs[i], hs[i].namesize)
              /\ hs[i].size < Half /\ i < n => got'[i].data = Cells("data", ofs[i], hs[i].size)
  <2>1. CASE i \in 1 .. m
    BY <1>11, <1>12, <1>13, <1>14, <2>1
  <2>2. CASE i = n
    <3>1. got'[i].of = ofs[i] /\ got'[i].header = h
          /\ got'[i].name = Cells("name", ofs[i], hs[i].namesize)
      BY <1>8, <1>13, <2>2
    <3>2. h = HeaderRead(rfmt, CellOf(ofs[i], hs[i]))
      BY <1>5, <2>2
    <3>3. ~(i < n)
      BY <1>12, <2>2
    <3> QED BY <1>14, <3>1, <3>2, <3>3
  <2> QED BY <1>12, <2>1, <2>2
<1>17. AllBelowHalf' => skipped' = Cardinality({k \in 1 .. pos : Unexpected(archive[k])}')
  <2>1. /\ AllBelowHalf' <=> AllBelowHalf
        /\ \A k : Unexpected(archive[k])' <=> Unexpected(archive[k])
    BY <1>1, UnexpectedStays
  <2>2. {k \in 1 .. pos : Unexpected(archive[k])}' = {k \in 1 .. q : Unexpected(archive[k])}
    BY <1>9, <2>1
  <2> QED BY <1>1, <1>6, <2>1, <2>2
<1>18. EndOfHeader(s[n], hs[n])' = q
  BY <1>1, <1>4, EndsStay
<1>19. phase' \in {"contents", "end"} /\ (phase' = "end" => Len(got') = Len(s))
       /\ (phase' = "contents" => /\ Len(got') > 0 /\ Len(got') < Len(s)
                                  /\ pos' = EndOfHeader(s[Len(got)], hs[Len(got)])'
                                  /\ got[Len(got)].data' = << >>)
       /\ Len(got') <= Len(s)
  <2>1. phase' = IF n = z THEN "end" ELSE "contents"
    BY <1>9, <1>12
  <2>2. Len(got') = n /\ n \in 1 .. z /\ z = Len(s)
    BY <1>6, <1>12, <1>13
  <2>3. EndOfHeader(s[Len(got)], hs[Len(got)])' = q
    BY <1>18, <2>2
  <2>4. got[Len(got)].data' = << >>
    BY <1>8, <1>13, <2>2
  <2> QED BY <1>9, <2>1, <2>2, <2>3, <2>4
<1>20. Reading(s, hs, ofs)'
  <2>1. pos' \in 0 .. Len(archive') /\ \A i \in 1 .. Len(s) : s[i] <= pos' <=> i <= Len(got')
    BY <1>6, <1>9, <1>13, <1>15
  <2>2. rfmt' \in {"unknown", fmt', Magic(fmt')} /\ rfmt' # "unknown" /\ got' \in Seq(Entries)'
    BY <1>1, <1>11, <1>13, <1>14, <1>15
  <2>3. \A i \in 1 .. Len(got') :
         /\ got'[i].of = ofs[i]
         /\ got'[i].header = HeaderRead(rfmt, CellOf(ofs[i], hs[i]))'
         /\ got'[i].name = Cells("name", ofs[i], hs[i].namesize)
         /\ hs[i].size < Half /\ (i < Len(got') \/ phase' = "magic") =>
              got'[i].data = Cells("data", ofs[i], hs[i].size)
    BY <1>13, <1>16, <1>19
  <2> QED BY <1>17, <1>19, <2>1, <2>2, <2>3 DEF Reading
<1> QED BY <1>1, <1>2, <1>19, <1>20, ReaderStays


(* The sizes of the headers are those of the files.                        *)
LEMMA SizesBelowHalf ==
  ASSUME OptionsOK, done \in 0 .. Len(files), phase # "out", AllBelowHalf,
         NEW s, NEW hs, NEW ofs, Layout(archive, s, hs, ofs, 0), WrittenHeaders(hs, ofs),
         NEW n \in 1 .. Len(s)
  PROVE  hs[n].size < Half
<1>1. Len(s) = Len(written) + 1 /\ Len(written) \in Nat /\ hs[Len(s)] = Trailer
  <2>1. Len(ofs) = Len(s)
    BY LayoutIs
  <2>2. Len(ofs) = Len(written) + 1 /\ hs[Len(ofs)] = Trailer
    BY DEF WrittenHeaders
  <2>3. Len(written) \in Nat
    BY WrittenFacts
  <2> QED BY <2>1, <2>2, <2>3
<1>2. CASE n = Len(s)
  BY <1>1, <1>2, CastsAssumption DEF Trailer
<1>3. CASE n # Len(s)
  <2>1. n \in 1 .. Len(written)
    BY <1>1, <1>3
  <2>2. hs[n].size = files[written[n]].size
    BY <2>1, WrittenFacts
  <2>3. DOMAIN written = 1 .. Len(written)
    BY DEF WrittenHeaders
  <2> QED BY <2>1, <2>2, <2>3 DEF AllBelowHalf
<1> QED BY <1>2, <1>3

LEMMA TakeContentsStep == ArchiveInv /\ TakeContents => ArchiveInv'
<1> SUFFICES ASSUME ArchiveInv, TakeContents PROVE ArchiveInv'
  OBVIOUS
<1>1. /\ OptionsOK /\ done \in 0 .. Len(files) /\ nextInode \in Nat
      /\ phase = "contents" /\ phase' = "magic"
      /\ UNCHANGED <<options, writer>> /\ rfmt' = rfmt /\ skipped' = skipped
  BY DEF ArchiveInv, TakeContents
<1>2. PICK s, hs, ofs : /\ Layout(archive, s, hs, ofs, cur)
                        /\ WrittenHeaders(hs, ofs) /\ Numbered(hs)
                        /\ Reading(s, hs, ofs)
  BY DEF ArchiveInv
<1>3. Layout(archive, s, hs, ofs, 0)
  BY <1>1, <1>2 DEF WrittenHeaders
<1>4. PICK n, h, l, e : IsLast(n, h, l, e)
  <2>1. PICK h : h = InHand
    OBVIOUS
  <2>2. PICK l : l = IF Told(InHand) > 0 THEN Told(InHand) ELSE 0
    OBVIOUS
  <2>3. PICK e : e = IF h.kind = "reg" THEN pos + l + SkipPadding(rfmt, h.size) ELSE pos
    OBVIOUS
  <2>4. IsLast(Len(got), h, l, e)
    BY <2>1, <2>2, <2>3, Zenon DEF IsLast
  <2> QED BY <2>4
<1>5. PICK d : d = IF h.kind = "reg" THEN Taken(pos, l) ELSE << >>
  OBVIOUS
<1>6. /\ n \in 1 .. Len(got) /\ n < Len(s)
      /\ d \in Seq(ArchiveCells)
      /\ hs[n].size < Half => d = Cells("data", ofs[n], hs[n].size) /\ Border(archive, e, 0)
      /\ e \in 0 .. Len(archive)
      /\ AllBelowHalf => skipped = Cardinality({k \in 1 .. e : Unexpected(archive[k])})
      /\ \A i \in 1 .. Len(s) : s[i] <= e <=> i <= n
  <2>1. /\ n \in 1 .. Len(got) /\ n < Len(s)
        /\ h.kind = "reg" => Taken(pos, l) \in Seq(ArchiveCells)
        /\ hs[n].size < Half =>
             /\ h.kind = "reg" => Taken(pos, l) = Cells("data", ofs[n], hs[n].size)
             /\ h.kind # "reg" => Cells("data", ofs[n], hs[n].size) = << >>
             /\ Border(archive, e, 0)
        /\ e \in 0 .. Len(archive)
        /\ AllBelowHalf => skipped = Cardinality({k \in 1 .. e : Unexpected(archive[k])})
        /\ \A i \in 1 .. Len(s) : s[i] <= e <=> i <= n
    BY <1>1, <1>2, <1>3, <1>4, ContentsFacts
  <2>2. d \in Seq(ArchiveCells)
    <3>1. << >> \in Seq(ArchiveCells)
      OBVIOUS
    <3> QED BY <1>5, <2>1, <3>1, Zenon
  <2>3. hs[n].size < Half => d = Cells("data", ofs[n], hs[n].size)
    BY <1>5, <2>1, Zenon
  <2> QED BY <2>1, <2>2, <2>3, Zenon
<1>7. n = Len(got) /\ h = InHand /\ h = got[n].header
  BY <1>4 DEF IsLast, InHand
<1>8. /\ rfmt \in {"unknown", fmt, Magic(fmt)} /\ (rfmt = "unknown" => got = << >>)
      /\ got \in Seq(Entries)
      /\ \A i \in 1 .. Len(got) :
           /\ got[i].of = ofs[i]
           /\ got[i].header = HeaderRead(rfmt, CellOf(ofs[i], hs[i]))
           /\ got[i].name = Cells("name", ofs[i], hs[i].namesize)
           /\ hs[i].size < Half /\ i < Len(got) =>
                got[i].data = Cells("data", ofs[i], hs[i].size)
      /\ got[Len(got)].data = << >>
  BY <1>1, <1>2 DEF Reading
<1>9. PICK x \in Entries : /\ x = got[n] /\ x.of = ofs[n]
                           /\ x.header = HeaderRead(rfmt, CellOf(ofs[n], hs[n]))
                           /\ x.name = Cells("name", ofs[n], hs[n].namesize) /\ x.data = << >>
  <2>1. got[n] \in Entries
    BY <1>6, <1>8
  <2>2. /\ got[n].of = ofs[n]
        /\ got[n].header = HeaderRead(rfmt, CellOf(ofs[n], hs[n]))
        /\ got[n].name = Cells("name", ofs[n], hs[n].namesize) /\ got[n].data = << >>
    BY <1>6, <1>7, <1>8
  <2> QED BY <2>1, <2>2
<1>10. PICK y : y = [of |-> x.of, header |-> x.header, name |-> x.name, data |-> d]
  OBVIOUS
<1>11. y \in Entries /\ y.of = x.of /\ y.header = x.header /\ y.name = x.name /\ y.data = d
  BY <1>6, <1>10 DEF Entries
<1>12. PICK g : g = got
  OBVIOUS
<1>13. got' = [g EXCEPT ![n] = y] /\ pos' = e
  <2>1. CASE h.kind = "reg"
    <3>1. InHand.kind = "reg" /\ l = IF Told(InHand) > 0 THEN Told(InHand) ELSE 0
      BY <1>4, <1>7, <2>1 DEF IsLast
    <3>2. /\ got' = [got EXCEPT ![Len(got)].data = Taken(pos, l)]
          /\ pos' = pos + l + SkipPadding(rfmt, InHand.size)
      BY <3>1, Zenon DEF TakeContents
    <3>3. got' = [g EXCEPT ![n] = [x EXCEPT !.data = d]]
      BY <1>5, <1>7, <1>9, <1>12, <2>1, <3>2
    <3>4. [x EXCEPT !.data = d] = y
      BY <1>10 DEF Entries
    <3>5. got' = [g EXCEPT ![n] = y]
      BY <3>3, <3>4
    <3>6. pos' = e
      BY <1>4, <1>7, <2>1, <3>2 DEF IsLast
    <3> QED BY <3>5, <3>6
  <2>2. CASE h.kind # "reg"
    <3>1. got' = got /\ pos' = pos
      BY <1>7, <2>2, Zenon DEF TakeContents
    <3>2. y = x
      BY <1>5, <1>9, <1>10, <2>2 DEF Entries
    <3>3. [g EXCEPT ![n] = y] = g
      BY <1>6, <1>8, <1>9, <1>12, <3>2
    <3>4. e = pos
      BY <1>4, <2>2, Zenon DEF IsLast
    <3> QED BY <1>12, <3>1, <3>3, <3>4
  <2> QED BY <2>1, <2>2
<1>14. PICK m \in Nat : m = n /\ m = Len(got)
  <2>1. Len(got) \in Nat
    BY <1>8
  <2> QED BY <1>7, <2>1
<1>15. /\ got' \in Seq(Entries) /\ Len(got') = m /\ got'[m] = y
       /\ \A i \in 1 .. m : i # m => got'[i] = got[i]
  <2>1. g \in Seq(Entries) /\ m \in 1 .. Len(g) /\ Len(g) = m
    BY <1>6, <1>8, <1>12, <1>14
  <2>2. PICK u : u = [g EXCEPT ![m] = y]
    OBVIOUS
  <2>3. /\ u \in Seq(Entries) /\ Len(u) = m /\ u[m] = y
        /\ \A i \in 1 .. m : i # m => u[i] = g[i]
    BY <1>11, <2>1, <2>2
  <2> QED BY <1>12, <1>13, <1>14, <2>2, <2>3, Zenon
<1>16. /\ \A of, f : HeaderRead(rfmt, CellOf(of, f))' = HeaderRead(rfmt, CellOf(of, f))
       /\ Entries' = Entries
       /\ \A p : Border(archive, p, 0)' <=> Border(archive, p, 0)
  BY <1>1, EntriesStay
<1>17. archive' = archive /\ fmt' = fmt
  BY <1>1 DEF options, writer
<1>18. ASSUME NEW i \in 1 .. m
       PROVE  /\ got'[i].of = ofs[i]
              /\ got'[i].header = HeaderRead(rfmt, CellOf(ofs[i], hs[i]))'
              /\ got'[i].name = Cells("name", ofs[i], hs[i].namesize)
              /\ hs[i].size < Half => got'[i].data = Cells("data", ofs[i], hs[i].size)
  <2>1. CASE i = m
    <3>1. hs[i].size < Half => y.data = Cells("data", ofs[i], hs[i].size)
      BY <1>6, <1>11, <1>14, <2>1
    <3> QED BY <1>9, <1>11, <1>14, <1>15, <1>16, <2>1, <3>1
  <2>2. CASE i # m
    <3>1. i < Len(got) /\ i \in 1 .. Len(got) /\ got'[i] = got[i]
      BY <1>14, <1>15, <2>2
    <3> QED BY <1>8, <1>16, <3>1
  <2> QED BY <2>1, <2>2
<1>19. AllBelowHalf' => skipped' = Cardinality({k \in 1 .. pos : Unexpected(archive[k])}')
  <2>1. /\ AllBelowHalf' <=> AllBelowHalf
        /\ \A k : Unexpected(archive[k])' <=> Unexpected(archive[k])
    BY <1>1, UnexpectedStays
  <2>2. {k \in 1 .. pos : Unexpected(archive[k])}' = {k \in 1 .. e : Unexpected(archive[k])}
    BY <1>13, <2>1
  <2> QED BY <1>1, <1>6, <2>1, <2>2
<1>20. AllBelowHalf' => Border(archive, pos, 0)'
  <2>1. AllBelowHalf' => Border(archive, e, 0)
    <3>1. AllBelowHalf' <=> AllBelowHalf
      BY <1>1, UnexpectedStays
    <3>2. AllBelowHalf => hs[n].size < Half
      BY <1>1, <1>2, <1>3, <1>6, SizesBelowHalf
    <3> QED BY <1>6, <3>1, <3>2
  <2>2. Border(archive, e, 0) => Border(archive, pos, 0)'
    BY <1>13, <1>17 DEF Border, Loose, Unexpected
  <2> QED BY <2>1, <2>2
<1>21. Reading(s, hs, ofs)'
  <2>1. pos' \in 0 .. Len(archive') /\ \A i \in 1 .. Len(s) : s[i] <= pos' <=> i <= Len(got')
    BY <1>6, <1>13, <1>14, <1>15, <1>17
  <2>2. rfmt' \in {"unknown", fmt', Magic(fmt')} /\ rfmt' # "unknown" /\ got' \in Seq(Entries)'
    <3>1. got # << >>
      BY <1>6
    <3> QED BY <1>1, <1>8, <1>15, <1>16, <1>17, <3>1
  <2>3. \A i \in 1 .. Len(got') :
         /\ got'[i].of = ofs[i]
         /\ got'[i].header = HeaderRead(rfmt, CellOf(ofs[i], hs[i]))'
         /\ got'[i].name = Cells("name", ofs[i], hs[i].namesize)
         /\ hs[i].size < Half /\ (i < Len(got') \/ phase' = "magic") =>
              got'[i].data = Cells("data", ofs[i], hs[i].size)
    BY <1>15, <1>18
  <2>4. Len(got') < Len(s) /\ Len(got') <= Len(s)
    <3>1. Len(s) \in Nat
      BY <1>3, LayoutIs
    <3> QED BY <1>6, <1>14, <1>15, <3>1
  <2> QED BY <1>1, <1>19, <1>20, <2>1, <2>2, <2>3, <2>4 DEF Reading
<1> QED BY <1>1, <1>2, <1>21, ReaderStays

(* The process ends, what has been read stays what it is.                  *)
LEMMA CopyTheRestStep == ArchiveInv /\ CopyTheRest => ArchiveInv'
<1> SUFFICES ASSUME ArchiveInv, CopyTheRest PROVE ArchiveInv'
  OBVIOUS
<1>1. /\ OptionsOK /\ done \in 0 .. Len(files) /\ nextInode \in Nat
      /\ phase = "contents" /\ phase' = "exit"
      /\ UNCHANGED <<options, writer>>
      /\ rfmt' = rfmt /\ pos' = pos /\ skipped' = skipped /\ got' = got
  BY DEF ArchiveInv, CopyTheRest, reader
<1>2. PICK s, hs, ofs : /\ Layout(archive, s, hs, ofs, cur)
                        /\ WrittenHeaders(hs, ofs) /\ Numbered(hs)
                        /\ Reading(s, hs, ofs)
  BY DEF ArchiveInv
<1>3. archive' = archive /\ fmt' = fmt
  BY <1>1 DEF options, writer
<1>4. /\ \A of, h : HeaderRead(rfmt, CellOf(of, h))' = HeaderRead(rfmt, CellOf(of, h))
      /\ Entries' = Entries
  BY <1>1, EntriesStay
<1>5. AllBelowHalf' => skipped' = Cardinality({k \in 1 .. pos : Unexpected(archive[k])}')
  <2>1. /\ AllBelowHalf' <=> AllBelowHalf
        /\ \A k : Unexpected(archive[k])' <=> Unexpected(archive[k])
    BY <1>1, UnexpectedStays
  <2>2. {k \in 1 .. pos : Unexpected(archive[k])}' = {k \in 1 .. pos : Unexpected(archive[k])}
    BY <1>1, <2>1
  <2> QED BY <1>1, <1>2, <2>1, <2>2 DEF Reading
<1>6. \A i \in 1 .. Len(got') :
        /\ got'[i].of = ofs[i]
        /\ got'[i].header = HeaderRead(rfmt, CellOf(ofs[i], hs[i]))'
        /\ got'[i].name = Cells("name", ofs[i], hs[i].namesize)
        /\ hs[i].size < Half /\ i < Len(got') =>
             got'[i].data = Cells("data", ofs[i], hs[i].size)
  BY <1>1, <1>2, <1>4 DEF Reading
<1>7. /\ pos' \in 0 .. Len(archive') /\ rfmt' \in {"unknown", fmt', Magic(fmt')}
      /\ rfmt' = "unknown" => got' = << >>
      /\ got' \in Seq(Entries)' /\ Len(got') <= Len(s) /\ Len(got') < Len(s)
      /\ \A i \in 1 .. Len(s) : s[i] <= pos' <=> i <= Len(got')
  BY <1>1, <1>2, <1>3, <1>4 DEF Reading
<1>8. phase' \notin {"out", "magic", "contents", "end"}
  BY <1>1
<1>9. Reading(s, hs, ofs)'
  BY <1>5, <1>6, <1>7, <1>8, Zenon DEF Reading
<1>10. phase # "out" /\ phase' \in {"magic", "contents", "end", "exit"}
  BY <1>1
<1> QED BY <1>1, <1>2, <1>9, <1>10, ReaderStays

LEMMA NothingHappens == ArchiveInv /\ UNCHANGED vars => ArchiveInv'
<1> SUFFICES ASSUME ArchiveInv, UNCHANGED vars PROVE ArchiveInv'
  OBVIOUS
<1>1. /\ UNCHANGED <<options, writer>> /\ UNCHANGED reader /\ phase' = phase
      /\ table' = table /\ nextInode' = nextInode /\ done' = done
      /\ written' = written /\ cur' = cur /\ archive' = archive
      /\ rfmt' = rfmt /\ pos' = pos /\ skipped' = skipped /\ got' = got
  BY DEF vars, writer, reader
<1>2. /\ OptionsOK /\ done \in 0 .. Len(files) /\ nextInode \in Nat
      /\ phase \in {"out", "magic", "contents", "end", "exit"}
  BY DEF ArchiveInv
<1>3. PICK s, hs, ofs : /\ Layout(archive, s, hs, ofs, cur)
                        /\ WrittenHeaders(hs, ofs) /\ Numbered(hs)
                        /\ Reading(s, hs, ofs)
  BY DEF ArchiveInv
<1>4. OptionsOK' /\ files' = files /\ renumber' = renumber /\ ignoreDevno' = ignoreDevno
      /\ fmt' = fmt
  BY <1>1, <1>2, OptionsStay DEF options
<1>5. WrittenHeaders(hs, ofs)'
  BY <1>1, <1>3, <1>4 DEF WrittenHeaders, StatToCpio
<1>6. Numbered(hs)'
  <2>1. \A n, id : Given(n, id, hs)' => Given(n, id, hs)
    BY <1>1, <1>4 DEF Given, Id
  <2> QED BY <1>1, <1>3, <1>4, <2>1 DEF Numbered
<1>7. Layout(archive, s, hs, ofs, cur)'
  <2>1. PICK a, c : a = archive /\ c = cur
    OBVIOUS
  <2>2. Layout(a, s, hs, ofs, c)'
    BY <1>1, <1>3, <2>1, LayoutStays
  <2>3. a = archive' /\ c = cur'
    BY <1>1, <2>1
  <2> QED BY <2>2, <2>3
<1>8. Reading(s, hs, ofs)'
  <2>1. /\ \A of, h : HeaderRead(rfmt, CellOf(of, h))' = HeaderRead(rfmt, CellOf(of, h))
        /\ Entries' = Entries
        /\ \A p : Border(archive, p, 0)' <=> Border(archive, p, 0)
    BY <1>1, EntriesStay
  <2>2. Border(archive, pos, 0)' <=> Border(archive, pos, 0)
    BY <1>1, <1>4 DEF Border, Loose, Unexpected
  <2>3. AllBelowHalf' => skipped' = Cardinality({k \in 1 .. pos : Unexpected(archive[k])}')
    <3>1. /\ AllBelowHalf' <=> AllBelowHalf
          /\ \A k : Unexpected(archive[k])' <=> Unexpected(archive[k])
      BY <1>1, UnexpectedStays
    <3>2. {k \in 1 .. pos : Unexpected(archive[k])}' = {k \in 1 .. pos : Unexpected(archive[k])}
      BY <1>1, <3>1
    <3> QED BY <1>1, <1>3, <3>1, <3>2 DEF Reading
  <2>4. ASSUME NEW i \in 1 .. Len(got')
        PROVE  /\ got'[i].of = ofs[i]
               /\ got'[i].header = HeaderRead(rfmt, CellOf(ofs[i], hs[i]))'
               /\ got'[i].name = Cells("name", ofs[i], hs[i].namesize)
               /\ hs[i].size < Half /\ (i < Len(got') \/ phase' = "magic") =>
                    got'[i].data = Cells("data", ofs[i], hs[i].size)
    BY <1>1, <1>3, <2>1 DEF Reading
  <2>5. /\ phase' = "contents" => /\ Len(got') > 0 /\ Len(got') < Len(s)
                                  /\ pos' = EndOfHeader(s[Len(got)], hs[Len(got)])'
                                  /\ got'[Len(got')].data = << >>
        /\ phase' = "end" => Len(got') = Len(s)
        /\ phase' = "out" => pos' = 0 /\ got' = << >> /\ skipped' = 0
        /\ phase' \in {"magic", "exit"} => Len(got') < Len(s)
    <3>1. EndOfHeader(s[Len(got)], hs[Len(got)])' = EndOfHeader(s[Len(got)], hs[Len(got)])
      BY <1>1, <1>4 DEF EndOfHeader
    <3> QED BY <1>1, <1>3, <3>1 DEF Reading
  <2>6. /\ pos' \in 0 .. Len(archive') /\ rfmt' \in {"unknown", fmt', Magic(fmt')}
        /\ rfmt' = "unknown" => got' = << >>
        /\ got' \in Seq(Entries)' /\ Len(got') <= Len(s)
        /\ \A i \in 1 .. Len(s) : s[i] <= pos' <=> i <= Len(got')
    BY <1>1, <1>3, <1>4, <2>1 DEF Reading
  <2>7. phase' = "magic" => (AllBelowHalf' => Border(archive, pos, 0)')
    BY <1>1, <1>3, <2>2, UnexpectedStays DEF Reading
  <2>8. /\ phase' = "magic" => Len(got') < Len(s)
        /\ phase' = "exit" => Len(got') < Len(s)
    BY <2>5
  <2> QED BY <2>3, <2>4, <2>5, <2>6, <2>7, <2>8, Zenon DEF Reading
<1> QED BY <1>1, <1>2, <1>4, <1>3, <1>5, <1>6, <1>7, <1>8 DEF ArchiveInv

LEMMA ArchiveStep == ArchiveInv /\ [Next]_vars => ArchiveInv'
<1> SUFFICES ASSUME ArchiveInv, [Next]_vars PROVE ArchiveInv'
  OBVIOUS
<1>1. CASE WriteOutHeader
  BY <1>1, WriteOutHeaderStep
<1>2. CASE WriteContents
  BY <1>2, WriteContentsStep
<1>3. CASE Junk
  BY <1>3, JunkStep
<1>4. CASE WriteTrailer
  BY <1>4, WriteTrailerStep
<1>5. CASE DetectFormat
  BY <1>5, DetectFormatStep
<1>6. CASE SkipJunk
  BY <1>6, SkipJunkStep
<1>7. CASE ReadInHeader
  BY <1>7, ReadInHeaderStep
<1>8. CASE TakeContents
  BY <1>8, TakeContentsStep
<1>9. CASE CopyTheRest
  BY <1>9, CopyTheRestStep
<1>10. CASE UNCHANGED vars
  BY <1>10, NothingHappens
<1> QED BY <1>1, <1>2, <1>3, <1>4, <1>5, <1>6, <1>7, <1>8, <1>9, <1>10 DEF Next


-------------------------------------------------------------------------------
(* What the invariant says of an entry that was read                       *)
LEMMA EntryFacts ==
  ASSUME OptionsOK, done \in 0 .. Len(files),
         NEW s, NEW hs, NEW ofs, Layout(archive, s, hs, ofs, cur), WrittenHeaders(hs, ofs),
         Reading(s, hs, ofs), NEW k \in Read
  PROVE  /\ k \in 1 .. Len(got) /\ k \in 1 .. Len(written)
         /\ got[k].of = written[k] /\ files[written[k]] \in Files
         /\ hs[k] \in Stats /\ hs[k] = StatToCpio(files[written[k]], hs[k].inode)
         /\ ~renumber => hs[k].inode = files[written[k]].inode
         /\ rfmt \in {fmt, Magic(fmt)}
         /\ got[k].header = HeaderRead(rfmt, CellOf(ofs[k], hs[k]))
         /\ got[k].name = Cells("name", written[k], files[written[k]].namesize)
         /\ files[written[k]].size < Half /\ (k < Len(got) \/ phase = "magic") =>
              got[k].data = Cells("data", written[k], files[written[k]].size)
<1>1. /\ got \in Seq(Entries) /\ Len(got) <= Len(s)
      /\ rfmt \in {"unknown", fmt, Magic(fmt)} /\ (rfmt = "unknown" => got = << >>)
      /\ \A i \in 1 .. Len(got) :
           /\ got[i].of = ofs[i]
           /\ got[i].header = HeaderRead(rfmt, CellOf(ofs[i], hs[i]))
           /\ got[i].name = Cells("name", ofs[i], hs[i].namesize)
           /\ hs[i].size < Half /\ (i < Len(got) \/ phase = "magic") =>
                got[i].data = Cells("data", ofs[i], hs[i].size)
      /\ phase = "out" => got = << >>
  BY DEF Reading
<1>2. k \in 1 .. Len(got) /\ got[k].of # 0
  BY <1>1 DEF Read
<1>3. phase # "out" /\ rfmt \in {fmt, Magic(fmt)}
  <2>1. got # << >>
    BY <1>2
  <2> QED BY <1>1, <2>1
<1>4. /\ Len(ofs) = Len(written) + 1 /\ ofs[Len(ofs)] = 0
      /\ \A i \in 1 .. Len(written) :
           /\ ofs[i] = written[i]
           /\ hs[i] = StatToCpio(files[written[i]], hs[i].inode)
           /\ ~renumber => hs[i].inode = files[written[i]].inode
  BY <1>3 DEF WrittenHeaders
<1>5. Len(written) \in Nat
  BY WrittenFacts
<1>6. Len(s) = Len(written) + 1 /\ s \in Seq(Nat)
  BY <1>4, LayoutIs
<1>7. k \in 1 .. Len(written)
  <2>1. k \in 1 .. Len(s)
    BY <1>1, <1>2, <1>5, <1>6
  <2>2. k # Len(ofs)
    BY <1>1, <1>2, <1>4
  <2> QED BY <1>4, <1>5, <1>6, <2>1, <2>2
<1>8. hs[k] \in Stats
  <2>1. k \in 1 .. Len(s)
    BY <1>5, <1>6, <1>7
  <2> QED BY <2>1, LayoutIs
<1>9. /\ files[written[k]] \in Files /\ hs[k].size = files[written[k]].size
      /\ hs[k].namesize = files[written[k]].namesize
  BY <1>7, WrittenFacts
<1>10. got[k].of = written[k] /\ ofs[k] = written[k]
  BY <1>1, <1>2, <1>4, <1>7
<1>11. /\ got[k].header = HeaderRead(rfmt, CellOf(ofs[k], hs[k]))
       /\ got[k].name = Cells("name", ofs[k], hs[k].namesize)
       /\ hs[k].size < Half /\ (k < Len(got) \/ phase = "magic") =>
            got[k].data = Cells("data", ofs[k], hs[k].size)
  BY <1>1, <1>2
<1>12. /\ hs[k] = StatToCpio(files[written[k]], hs[k].inode)
       /\ ~renumber => hs[k].inode = files[written[k]].inode
  BY <1>4, <1>7
<1> QED BY <1>2, <1>3, <1>7, <1>8, <1>9, <1>10, <1>11, <1>12, Zenon

(* The numbers of an entry: those that were not cut are those written.     *)
LEMMA EntryNumbers ==
  ASSUME ArchiveInv, NEW s, NEW hs, NEW ofs,
         Layout(archive, s, hs, ofs, cur), WrittenHeaders(hs, ofs),
         Reading(s, hs, ofs), NEW k \in Read, NEW h, h = hs[k], NEW r, r = got[k].header
  PROVE  /\ h \in Stats
         /\ \A field \in Shared : Room(fmt, field, h[field]) => r[field] = h[field]
         /\ fmt \in {"odc", "bin", "hpbin"} =>
              r.devmaj = h.devmaj % Byte /\ r.devmin = h.devmin % Byte
         /\ fmt \notin New /\ h.kind = "dev" /\ (h.rdevmaj % Byte # 0 \/ h.rdevmin % Byte # 0) =>
              r.rdevmaj = h.rdevmaj % Byte /\ r.rdevmin = h.rdevmin % Byte
<1>1. OptionsOK /\ done \in 0 .. Len(files)
  BY DEF ArchiveInv
<1>2. PICK g, c : g = rfmt /\ c = CellOf(ofs[k], h)
  OBVIOUS
<1>3. h \in Stats /\ g \in {fmt, Magic(fmt)} /\ r = HeaderRead(g, c)
  <2>1. hs[k] \in Stats /\ rfmt \in {fmt, Magic(fmt)}
        /\ got[k].header = HeaderRead(rfmt, CellOf(ofs[k], hs[k]))
    BY <1>1, EntryFacts
  <2> QED BY <1>2, <2>1
<1>4. /\ \A field \in Shared : ~TooWide(fmt, field, h[field]) => r[field] = h[field]
      /\ fmt \in {"odc", "bin", "hpbin"} =>
           r.devmaj = h.devmaj % Byte /\ r.devmin = h.devmin % Byte
      /\ fmt \notin New /\ h.kind = "dev" /\ (h.rdevmaj % Byte # 0 \/ h.rdevmin % Byte # 0) =>
           r.rdevmaj = h.rdevmaj % Byte /\ r.rdevmin = h.rdevmin % Byte
  BY <1>1, <1>2, <1>3, HeaderReadIs
<1>5. ASSUME NEW field \in Shared, Room(fmt, field, h[field]) PROVE r[field] = h[field]
  <2>1. fmt \in Formats /\ field \in Numbers(fmt)
    BY <1>1 DEF OptionsOK, Numbers
  <2>2. h[field] \in Nat
    BY <1>3 DEF Stats, Shared
  <2>3. ~TooWide(fmt, field, h[field])
    BY <1>5, <2>1, <2>2, RoomIsEnough
  <2> QED BY <1>4, <2>3
<1> QED BY <1>3, <1>4, <1>5

LEMMA ArchiveInvariant == Spec => []ArchiveInv
BY InitArchiveInv, ArchiveStep, PTL DEF Spec

LEMMA HeadersTypes == ArchiveInv => TypeOK
<1> SUFFICES ASSUME ArchiveInv PROVE TypeOK
  OBVIOUS
<1>1. OptionsOK /\ phase \in {"out", "magic", "contents", "end", "exit"}
  BY DEF ArchiveInv
<1>2. PICK s, hs, ofs : Layout(archive, s, hs, ofs, cur) /\ Reading(s, hs, ofs)
  BY DEF ArchiveInv
<1>3. pos \in 0 .. Len(archive) /\ rfmt \in {"unknown", fmt, Magic(fmt)} /\ got \in Seq(Entries)
  BY <1>2 DEF Reading
<1>4. rfmt \in Formats \cup {"unknown"}
  BY <1>1, <1>3, SameFields DEF OptionsOK
<1>5. ASSUME NEW k \in DOMAIN got, NEW h, h = got[k].header
      PROVE  {h.devmaj, h.devmin, h.rdevmaj, h.rdevmin} \subseteq 0 .. Byte - 1
  <2>1. got[k] \in Entries
    BY <1>3
  <2>2. h \in HeadersRead
    BY <1>5, <2>1 DEF Entries
  <2> QED BY <2>2 DEF HeadersRead
<1> QED BY <1>1, <1>3, <1>4, <1>5 DEF TypeOK

(* Type correctness: copy-in stays inside the archive (read_in_header and  *)
(* tape_skip_padding never pass its end), and the parts of the device      *)
(* numbers it reads have one byte each.                                    *)
THEOREM HeaderTypes == Spec => []TypeOK
BY ArchiveInvariant, HeadersTypes, PTL

LEMMA ReadAsWritten == ArchiveInv => EntriesAsWritten
<1> SUFFICES ASSUME ArchiveInv PROVE EntriesAsWritten
  OBVIOUS
<1>1. /\ OptionsOK /\ done \in 0 .. Len(files)
      /\ phase \in {"out", "magic", "contents", "end", "exit"}
  BY DEF ArchiveInv
<1>2. PICK s, hs, ofs : /\ Layout(archive, s, hs, ofs, cur) /\ WrittenHeaders(hs, ofs)
                        /\ Reading(s, hs, ofs)
  BY DEF ArchiveInv
<1>3. PICK m \in Nat, n \in Nat, z \in Nat : m = Len(got) /\ n = Len(written) /\ z = Len(s)
  <2>1. Len(got) \in Nat /\ Len(written) \in Nat /\ Len(s) \in Nat
    BY <1>1, <1>2, WrittenFacts, LayoutIs DEF Reading
  <2> QED BY <2>1
<1>4. /\ phase = "out" => m = 0
      /\ phase \in {"magic", "contents", "exit"} => m < z
      /\ phase = "end" => m = z
      /\ m <= z
      /\ \A i \in 1 .. m : got[i].of = ofs[i]
  BY <1>2, <1>3 DEF Reading
<1>5. /\ phase # "out" => z = n + 1 /\ ofs[n + 1] = 0
      /\ \A i \in 1 .. n : ofs[i] = written[i]
      /\ written \in Seq(Nat)
  <2>1. Len(ofs) = z
    BY <1>2, <1>3, LayoutIs
  <2> QED BY <1>2, <1>3, <2>1 DEF WrittenHeaders
<1>6. phase = "end" <=> Len(got) = Len(written) + 1
  BY <1>1, <1>3, <1>4, <1>5
<1>7. ASSUME NEW k \in 1 .. m PROVE got[k].of = Append(written, 0)[k]
  <2>1. phase # "out"
    BY <1>4
  <2>2. k \in 1 .. n + 1
    BY <1>4, <1>5, <2>1
  <2>3. Append(written, 0)[k] = IF k = n + 1 THEN 0 ELSE written[k]
    BY <1>3, <1>5, <2>2
  <2>4. ofs[k] = IF k = n + 1 THEN 0 ELSE written[k]
    BY <1>5, <2>1, <2>2
  <2> QED BY <1>4, <2>3, <2>4
<1>8. DOMAIN got = 1 .. m
  BY <1>2, <1>3 DEF Reading
<1>9. \A k \in Read :
        /\ got[k].name = Cells("name", got[k].of, files[got[k].of].namesize)
        /\ files[got[k].of].size < Half /\ (k < Len(got) \/ phase = "magic") =>
             got[k].data = Cells("data", got[k].of, files[got[k].of].size)
  <2> TAKE k \in Read
  <2>1. /\ got[k].of = written[k]
        /\ got[k].name = Cells("name", written[k], files[written[k]].namesize)
        /\ files[written[k]].size < Half /\ (k < Len(got) \/ phase = "magic") =>
             got[k].data = Cells("data", written[k], files[written[k]].size)
    BY <1>1, <1>2, EntryFacts
  <2> QED BY <2>1, Zenon
<1> QED BY <1>6, <1>7, <1>8, <1>9, Zenon DEF EntriesAsWritten

(* Every entry in the archive is read, once and in its place, with its own *)
(* name and, below 2 GiB, its contents: write_out_header, tape_pad_output  *)
(* and the copying of the contents leave an archive in which               *)
(* read_in_header's search ends at the next header, whatever is in between *)
(* and whatever was cut.                                                   *)
THEOREM EntriesAreRead == Spec => []EntriesAsWritten
BY ArchiveInvariant, ReadAsWritten, PTL

LEMMA SkippedIsJunk == ArchiveInv => OnlyJunkSkipped
BY DEF ArchiveInv, Reading, OnlyJunkSkipped

(* read_in_header's search skips the junk, and in the old ASCII formats    *)
(* the padding that tape_skip_padding does not expect, and no byte of an   *)
(* entry, so long as no file of 2 GiB or more is in the archive.           *)
THEOREM NothingElseIsSkipped == Spec => []OnlyJunkSkipped
BY ArchiveInvariant, SkippedIsJunk, PTL

LEMMA NumbersAreKept == ArchiveInv => NumbersSurvive
<1> SUFFICES ASSUME ArchiveInv, NEW k \in Read, NEW w, w = got[k].of,
                    NEW field \in Shared, ~renumber \/ field # "inode",
                    Room(fmt, field, files[w][field])
             PROVE  got[k].header[field] = files[w][field]
  BY DEF NumbersSurvive
<1>1. OptionsOK /\ done \in 0 .. Len(files)
  BY DEF ArchiveInv
<1>2. PICK s, hs, ofs : /\ Layout(archive, s, hs, ofs, cur) /\ WrittenHeaders(hs, ofs)
                        /\ Reading(s, hs, ofs)
  BY DEF ArchiveInv
<1>3. /\ w = written[k]
      /\ hs[k] = StatToCpio(files[written[k]], hs[k].inode)
      /\ ~renumber => hs[k].inode = files[written[k]].inode
  BY <1>1, <1>2, EntryFacts
<1>4. hs[k][field] = files[w][field]
  BY <1>3 DEF StatToCpio, Shared
<1>5. Room(fmt, field, hs[k][field]) => got[k].header[field] = hs[k][field]
  BY <1>2, EntryNumbers
<1> QED BY <1>4, <1>5

(* to_ascii and from_ascii, the halfwords of the binary formats and their  *)
(* byte order, and the size that stands for a device number in the HP      *)
(* formats: a number for which the field has room comes back unchanged.    *)
THEOREM NumbersComeBack == Spec => []NumbersSurvive
BY ArchiveInvariant, NumbersAreKept, PTL

LEMMA DevicesAreKept == ArchiveInv => OldDevicesSurvive
<1> SUFFICES ASSUME ArchiveInv, NEW k \in Read, NEW w, w = got[k].of,
                    fmt \notin New, files[w].kind = "dev", FitsBytes(files[w].rdev),
                    files[w].rdev # << 0, 0 >>
             PROVE  << got[k].header.rdevmaj, got[k].header.rdevmin >> = files[w].rdev
  BY DEF OldDevicesSurvive
<1>1. OptionsOK /\ done \in 0 .. Len(files)
  BY DEF ArchiveInv
<1>2. PICK s, hs, ofs : /\ Layout(archive, s, hs, ofs, cur) /\ WrittenHeaders(hs, ofs)
                        /\ Reading(s, hs, ofs)
  BY DEF ArchiveInv
<1>3. /\ w = written[k] /\ files[written[k]] \in Files
      /\ hs[k] = StatToCpio(files[written[k]], hs[k].inode)
  BY <1>1, <1>2, EntryFacts
<1>4. PICK a \in Nat, b \in Nat : files[w].rdev = << a, b >>
  BY <1>3 DEF Files
<1>5. a < Byte /\ b < Byte /\ (a # 0 \/ b # 0)
  BY <1>4 DEF FitsBytes
<1>6. a % Byte = a /\ b % Byte = b
  BY <1>5, SmallParts
<1>7. hs[k].kind = "dev" /\ hs[k].rdevmaj = a /\ hs[k].rdevmin = b
  BY <1>3, <1>4 DEF StatToCpio
<1>8. hs[k].kind = "dev" /\ (hs[k].rdevmaj % Byte # 0 \/ hs[k].rdevmin % Byte # 0) =>
        /\ got[k].header.rdevmaj = hs[k].rdevmaj % Byte
        /\ got[k].header.rdevmin = hs[k].rdevmin % Byte
  BY <1>2, EntryNumbers
<1> QED BY <1>4, <1>5, <1>6, <1>7, <1>8

(* makedev, major and minor, and the device number that hp_compute_dev and *)
(* write_out_header put into the size: in the old formats the number of a  *)
(* device file comes back when it fits a byte for each part.               *)
THEOREM DevicesComeBack == Spec => []OldDevicesSurvive
BY ArchiveInvariant, DevicesAreKept, PTL


(* A number below one for which there is room                              *)
LEMMA RoomBelow ==
  ASSUME NEW f \in Formats, NEW v \in Nat, NEW u \in Int, v <= u, Room(f, "inode", u)
  PROVE  Room(f, "inode", v)
<1>1. Short \in Nat /\ Long \in Nat
  BY Sizes
<1>2. CASE f \in New
  BY <1>1, <1>2 DEF Room, New, OldAscii, Bin
<1>3. CASE f \in Bin
  BY <1>1, <1>3 DEF Room, New, OldAscii, Bin
<1>4. CASE f \in OldAscii
  <2>1. PICK n \in Nat : n = Values(2, Digits(f, "inode"))
    <3>1. Digits(f, "inode") \in Nat /\ 2 \in Nat
      BY <1>4, Sizes DEF Digits, New, OldAscii, Bin
    <3>2. Values(2, Digits(f, "inode")) \in Nat
      <4>1. PICK m \in Nat : m = Digits(f, "inode")
        BY <3>1
      <4>2. PICK w \in [0 .. m -> Nat] : Values(2, m) = w[m]
        BY ValuesIs
      <4> QED BY <4>1, <4>2
    <3> QED BY <3>2
  <2>2. u < n
    BY <1>4, <2>1 DEF Room, New, OldAscii, Bin
  <2>3. v < n
    BY <2>2
  <2> QED BY <1>4, <2>1, <2>3 DEF Room, New, OldAscii, Bin
<1> QED BY <1>2, <1>3, <1>4 DEF Formats

LEMMA FilesAreApart == ArchiveInv => FilesStayApart
<1> SUFFICES ASSUME ArchiveInv, NEW i \in Read, NEW j \in Read,
                    NEW f, f = files[got[i].of], NEW g, g = files[got[j].of],
                    IdentityFits(f), IdentityFits(g), Identity(got[i]) = Identity(got[j])
             PROVE  Id(f) = Id(g)
  BY DEF FilesStayApart
<1>1. OptionsOK /\ done \in 0 .. Len(files) /\ nextInode \in Nat
  BY DEF ArchiveInv
<1>2. PICK s, hs, ofs : /\ Layout(archive, s, hs, ofs, cur) /\ WrittenHeaders(hs, ofs)
                        /\ Numbered(hs) /\ Reading(s, hs, ofs)
  BY DEF ArchiveInv
<1>3. PICK x, y : x = hs[i] /\ y = hs[j]
  OBVIOUS
<1>4. /\ i \in 1 .. Len(written) /\ f = files[written[i]] /\ f \in Files /\ x \in Stats
      /\ x = StatToCpio(f, x.inode) /\ (~renumber => x.inode = f.inode)
  <2>1. /\ i \in 1 .. Len(written) /\ got[i].of = written[i] /\ files[written[i]] \in Files
        /\ hs[i] \in Stats /\ hs[i] = StatToCpio(files[written[i]], hs[i].inode)
        /\ ~renumber => hs[i].inode = files[written[i]].inode
    BY <1>1, <1>2, EntryFacts
  <2> QED BY <1>3, <2>1
<1>5. /\ j \in 1 .. Len(written) /\ g = files[written[j]] /\ g \in Files /\ y \in Stats
      /\ y = StatToCpio(g, y.inode) /\ (~renumber => y.inode = g.inode)
  <2>1. /\ j \in 1 .. Len(written) /\ got[j].of = written[j] /\ files[written[j]] \in Files
        /\ hs[j] \in Stats /\ hs[j] = StatToCpio(files[written[j]], hs[j].inode)
        /\ ~renumber => hs[j].inode = files[written[j]].inode
    BY <1>1, <1>2, EntryFacts
  <2> QED BY <1>3, <2>1
<1>6. PICK rx, ry : rx = got[i].header /\ ry = got[j].header
  OBVIOUS
<1>7. rx.inode = ry.inode /\ rx.devmaj = ry.devmaj /\ rx.devmin = ry.devmin
  BY <1>6 DEF Identity
<1>8. /\ Room(fmt, "inode", x.inode) => rx.inode = x.inode
      /\ fmt \in {"odc", "bin", "hpbin"} =>
           rx.devmaj = x.devmaj % Byte /\ rx.devmin = x.devmin % Byte
  <2>1. /\ \A field \in Shared : Room(fmt, field, x[field]) => rx[field] = x[field]
        /\ fmt \in {"odc", "bin", "hpbin"} =>
             rx.devmaj = x.devmaj % Byte /\ rx.devmin = x.devmin % Byte
    BY <1>2, <1>3, <1>6, EntryNumbers
  <2>2. Room(fmt, "inode", x["inode"]) => rx["inode"] = x["inode"]
    BY <2>1 DEF Shared
  <2> QED BY <2>1, <2>2
<1>9. /\ Room(fmt, "inode", y.inode) => ry.inode = y.inode
      /\ fmt \in {"odc", "bin", "hpbin"} =>
           ry.devmaj = y.devmaj % Byte /\ ry.devmin = y.devmin % Byte
  <2>1. /\ \A field \in Shared : Room(fmt, field, y[field]) => ry[field] = y[field]
        /\ fmt \in {"odc", "bin", "hpbin"} =>
             ry.devmaj = y.devmaj % Byte /\ ry.devmin = y.devmin % Byte
    BY <1>2, <1>3, <1>6, EntryNumbers
  <2>2. Room(fmt, "inode", y["inode"]) => ry["inode"] = y["inode"]
    BY <2>1 DEF Shared
  <2> QED BY <2>1, <2>2
<1>10. CASE renumber
  <2>1. Given(x.inode, Id(f), hs) /\ Given(y.inode, Id(g), hs)
    BY <1>3, <1>4, <1>5 DEF Given
  <2>2. /\ \A n, id : Given(n, id, hs) => n \in Nat /\ n < nextInode
        /\ \A n, id1, id2 : Given(n, id1, hs) /\ Given(n, id2, hs) => id1 = id2
    BY <1>2, <1>10 DEF Numbered
  <2>3. x.inode \in Nat /\ x.inode < nextInode /\ y.inode \in Nat /\ y.inode < nextInode
    BY <2>1, <2>2
  <2>4. Room(fmt, "inode", nextInode - 1) /\ fmt \in Formats
    BY <1>1, <1>10 DEF IdentityFits, OptionsOK
  <2>5. PICK u \in Int, v \in Nat, w \in Nat :
          u = nextInode - 1 /\ v = x.inode /\ w = y.inode /\ v <= u /\ w <= u
    <3>1. nextInode - 1 \in Int /\ x.inode <= nextInode - 1 /\ y.inode <= nextInode - 1
      BY <1>1, <2>3
    <3> QED BY <2>3, <3>1
  <2>6. Room(fmt, "inode", u)
    BY <2>4, <2>5
  <2>7. Room(fmt, "inode", v) /\ Room(fmt, "inode", w)
    BY <2>4, <2>5, <2>6, RoomBelow
  <2>8. x.inode = y.inode
    BY <1>7, <1>8, <1>9, <2>5, <2>7
  <2> QED BY <2>1, <2>2, <2>8
<1>11. CASE ~renumber
  <2>1. /\ fmt \in {"odc", "bin", "hpbin"} /\ ~ignoreDevno
        /\ FitsBytes(f.dev) /\ FitsBytes(g.dev)
        /\ Room(fmt, "inode", f.inode) /\ Room(fmt, "inode", g.inode)
    BY <1>11 DEF IdentityFits
  <2>2. f.inode = g.inode
    BY <1>4, <1>5, <1>7, <1>8, <1>9, <1>11, <2>1
  <2>3. PICK a \in Nat, b \in Nat : f.dev = << a, b >>
    <3>1. f \in Files
      BY <1>4
    <3>2. f.dev \in Nat \X Nat
      BY <3>1 DEF Files
    <3> QED BY <3>2
  <2>4. PICK c \in Nat, d \in Nat : g.dev = << c, d >>
    <3>1. g \in Files
      BY <1>5
    <3>2. g.dev \in Nat \X Nat
      BY <3>1 DEF Files
    <3> QED BY <3>2
  <2>5. a < Byte /\ b < Byte /\ c < Byte /\ d < Byte
    BY <2>1, <2>3, <2>4 DEF FitsBytes
  <2>6. a % Byte = a /\ b % Byte = b /\ c % Byte = c /\ d % Byte = d
    BY <2>5, SmallParts
  <2>7. x.devmaj = a /\ x.devmin = b
    BY <1>4, <2>1, <2>3 DEF StatToCpio
  <2>8. y.devmaj = c /\ y.devmin = d
    BY <1>5, <2>1, <2>4 DEF StatToCpio
  <2>9. a = c /\ b = d
    BY <1>7, <1>8, <1>9, <2>1, <2>6, <2>7, <2>8
  <2> QED BY <2>2, <2>3, <2>4, <2>9 DEF Id
<1> QED BY <1>1, <1>10, <1>11

(* get_inode_and_dev and the fields of the inode and the device: files     *)
(* whose numbers fit are never taken for links of one file by copy-in.     *)
THEOREM FilesAreNeverOne == Spec => []FilesStayApart
BY ArchiveInvariant, FilesAreApart, PTL
===============================================================================
