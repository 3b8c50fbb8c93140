--------------------------------- MODULE Casts ---------------------------------
(***************************************************************************)
(* The sizes of the headers are numbers of 64 bits.  The functions that    *)
(* copy and skip contents take a num_bytes: i32, to which their callers    *)
(* cast (`c_filesize as i32`), and those that copy cast it back to usize.  *)
(***************************************************************************)
EXTENDS Integers

CONSTANTS
  Half,  \* the first size that the signed word takes for negative: 2^31
  Word   \* the number of values of the wider unsigned word: 2^64

ASSUME CastsAssumption ==
  /\ Half \in Nat \ {0}
  /\ Word \in Nat
  /\ Word >= 2 * Half

AsI32(s) ==
  LET w == s % (2 * Half) IN IF w < Half THEN w ELSE w - 2 * Half

AsUsize(v) == v % Word
================================================================================
