------------------------------ MODULE InodeTable ------------------------------
(***************************************************************************)
(* The table of inodes of util.rs (HASH_TABLE): from the inode and device  *)
(* of a file to the name it was first copied to, and to the number it has  *)
(* in the archive.  The keys of the map are whole records, so that a look- *)
(* up finds only a record equal in every field to the sample.              *)
(***************************************************************************)
EXTENDS Naturals

NoName == "none"

Record(i, trans, name) == [inode |-> i, trans |-> trans, name |-> name]

(* get(&sample) of a map of which the key is compared as a whole           *)
FindInodeVal(table, i) == {r \in table : r = Record(i, 0, NoName)}

FindInodeFile(table, i) ==
  {r.name : r \in {r \in FindInodeVal(table, i) : r.name # NoName}}

(* With --renumber-inodes the numbers are counted, otherwise kept.         *)
AddInode(table, i, name, renumber, counter) ==
  table \cup {Record(i, IF renumber THEN counter ELSE i, name)}
===============================================================================
