------------------------------- MODULE MCEncoder -------------------------------
(* Small instances of Encoder for TLC: the constants are numbers. *)
EXTENDS Encoder
===============================================================================
