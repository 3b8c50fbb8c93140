------------------------------ MODULE MCCopyPass ------------------------------
(* CopyPass for short lists of names.                                      *)
EXTENDS CopyPass, TLC

(* No definition tells the names apart.                                    *)
Symmetry == Permutations(Names)
===============================================================================
