----------------------------- MODULE MCDiskOutput -----------------------------
(* DiskOutput on small blocks: zeros that fill no block, one, two, or most *)
(* of one, and that a swap moves over the border of a halfword or not.     *)
EXTENDS DiskOutput

MCPatterns == {{}, 0 .. 20, 0 .. 3, 4 .. 7, 0 .. 7, 4 .. 20, 8 .. 20, 1 .. 3,
               {1, 4, 5, 6, 7}, {0, 2, 3, 5, 6, 9}}
===============================================================================
