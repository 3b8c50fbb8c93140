------------------------------- MODULE MCCopyIn -------------------------------
(* CopyIn for short archives.                                              *)
EXTENDS CopyIn, TLC

(* No definition tells the inodes apart.                                   *)
Symmetry == Permutations(Inodes)
===============================================================================
