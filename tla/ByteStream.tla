------------------------------ MODULE ByteStream ------------------------------
(***************************************************************************)
(* What the buffered reader of util.rs promises to the code that extracts  *)
(* an archive: whatever mixture of skipping, reading and copying it asks   *)
(* for, it is handed the bytes of the archive one after the other, none    *)
(* twice and none left out.  A byte is represented by its offset.          *)
(***************************************************************************)
EXTENDS Integers, Sequences

VARIABLES
  len,    \* length of the archive
  pos,    \* offset of the first byte not handed out
  out     \* the bytes handed out last

Init == /\ len \in Nat
        /\ pos = 0
        /\ out = << >>

Deliver(n) == /\ pos + n <= len
              /\ out' = [k \in 1 .. n |-> pos + k - 1]
              /\ pos' = pos + n
              /\ len' = len

Next == \E n \in 1 .. (len - pos) : Deliver(n)

Spec == Init /\ [][Next]_<<len, pos, out>>
===============================================================================
