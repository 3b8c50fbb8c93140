------------------------------ MODULE MCInputTape ------------------------------
(* InputTape on small buffers.                                             *)
EXTENDS InputTape
===============================================================================
