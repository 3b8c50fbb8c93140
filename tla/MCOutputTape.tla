----------------------------- MODULE MCOutputTape -----------------------------
(* OutputTape on small blocks.                                             *)
EXTENDS OutputTape
===============================================================================
