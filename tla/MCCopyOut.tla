------------------------------- MODULE MCCopyOut -------------------------------
(* CopyOut for a few names and files.                                      *)
EXTENDS CopyOut, TLC

(* The files have one inode number, on different devices.                  *)
OneNumber == [i \in Inodes |-> 1]

(* No definition tells the names, or the inodes, apart.                    *)
Symmetry == Permutations(Names) \cup Permutations(Inodes)
===============================================================================
