----------------------------- MODULE MCController -----------------------------
(* Small instances of Controller for TLC. *)
EXTENDS Controller

CONSTANTS thread, adc, brk, g1, g2

MCAgents == {thread, adc, brk}
MCGains == {g1, g2}
===============================================================================
