------------------------------ MODULE MCHeaders -------------------------------
(* Numbers at the limits of the fields: with bytes of 2 values a halfword  *)
(* has 4, a word 16, and the octal fields 8 and 32.                        *)
EXTENDS Headers

Plain == [kind |-> "reg", inode |-> 1, dev |-> <<0, 1>>, rdev |-> <<0, 0>>,
          owner |-> 1, links |-> 1, mtime |-> 1, size |-> 1, namesize |-> 2]

FirstFiles ==
       {[Plain EXCEPT !.size = s, !.namesize = n] :
          s \in {0, 3, 6, 15, 18, 33}, n \in {2, 3}}
  \cup {[Plain EXCEPT !.namesize = n] : n \in {5, 9, 17}}
  \cup {[Plain EXCEPT !.owner = o] : o \in {3, 6, 17}}
  \cup {[Plain EXCEPT !.mtime = t] : t \in {6, 15, 18, 33}}
  \cup {[Plain EXCEPT !.inode = i, !.dev = <<1, 1>>, !.links = l] :
          i \in {1, 2, 5, 17}, l \in {1, 2}}
  \cup {[Plain EXCEPT !.dev = d, !.links = l] :
          d \in {<<0, 0>>, <<5, 1>>, <<20, 1>>}, l \in {1, 2}}
  \cup {[Plain EXCEPT !.kind = "dev", !.size = 0, !.rdev = d] :
          d \in {<<0, 0>>, <<0, 1>>, <<1, 0>>, <<1, 1>>, <<3, 1>>, <<1, 2>>}}
  \cup {[Plain EXCEPT !.kind = k, !.size = 0] : k \in {"fifo", "dir"}}

SecondFiles ==
       {[Plain EXCEPT !.inode = i, !.dev = d, !.links = l] :
          i \in {1, 5}, d \in {<<0, 1>>, <<1, 1>>}, l \in {1, 2}}
  \cup {[Plain EXCEPT !.size = 2, !.namesize = 3]}

(* An inode field of the binary formats has room for four numbers.         *)
MCFileLists ==
       {<<f, g>> : f \in FirstFiles, g \in SecondFiles}
  \cup {[k \in 1 .. n |-> [Plain EXCEPT !.inode = k, !.size = 0]] : n \in {4, 5}}
===============================================================================
