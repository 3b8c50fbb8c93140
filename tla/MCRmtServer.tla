------------------------------ MODULE MCRmtServer -----------------------------
(* RmtServer for requests with good and with bad arguments and operands,   *)
(* and in any characters.                                                  *)
EXTENDS RmtServer

L(cmd, ok, len, operand) == [cmd |-> cmd, ok |-> ok, len |-> len, operand |-> operand]

Number == L("garbage", FALSE, 0, TRUE)
Word == L("garbage", FALSE, 0, FALSE)
Empty == L("empty", FALSE, 0, TRUE)       \* flags may be an empty line
ORdwr == L("O", TRUE, 0, TRUE)            \* the flags O_RDWR
Rdwr == L("R", FALSE, 0, TRUE)            \* the flags RDWR
Creat == L("C", TRUE, 0, TRUE)            \* the flags CREAT
NotUtf8 == L("garbled", FALSE, 0, FALSE)

MCRequests ==
  {<<L("O", ok, 0, FALSE), flags>> : ok \in BOOLEAN, flags \in {Empty, ORdwr, Rdwr, Creat, Word, NotUtf8}}
  \cup {<<L(cmd, ok, 0, FALSE), n>> : cmd \in {"I", "L"}, ok \in BOOLEAN, n \in {Number, Word, NotUtf8}}
  \cup {<<L("W", ok, 1, FALSE), data>> : ok \in BOOLEAN, data \in {Word, NotUtf8}}
  \cup {<<L("W", TRUE, 0, FALSE)>>, <<Word>>, <<NotUtf8>>, <<NotUtf8, ORdwr>>}
  \cup {<<L(cmd, ok, 0, FALSE)>> : cmd \in {"R", "S"}, ok \in BOOLEAN}
  \cup {<<L("C", TRUE, 0, FALSE)>>}
===============================================================================
