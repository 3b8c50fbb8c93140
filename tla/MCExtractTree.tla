----------------------------- MODULE MCExtractTree -----------------------------
(* ExtractTree for short archives of the names dir, dir/sub, dir/sub/g, x  *)
(* and x/h.                                                                *)
EXTENDS ExtractTree

MCNames == {"dir", "dir/sub", "dir/sub/g", "x", "x/h"}
MCAbove == [n \in MCNames |-> CASE n = "dir/sub" -> {"dir"}
                               [] n = "dir/sub/g" -> {"dir", "dir/sub"}
                               [] n = "x/h" -> {"x"}
                               [] OTHER -> {}]
MCDirModes == SUBSET {"w", "x"}

(* An option without effect on the archive is not tried both ways.         *)
MCInit ==
  /\ Init
  /\ noAbsPaths => \E k \in 1 .. Len(archive) : archive[k].kind = "lnk"
  /\ unconditional =>
       \E j, k \in 1 .. Len(archive) : j # k /\ archive[j].name = archive[k].name

MCSpec == MCInit /\ [][Next]_vars
===============================================================================
