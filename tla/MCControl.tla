------------------------------- MODULE MCControl -------------------------------
(* Small instances of Control for TLC. *)
EXTENDS Control

MCAll == LiveModes
MCPair == {"Run", "Bench"}
===============================================================================
