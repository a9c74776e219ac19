------------------------------ MODULE MCWatchdog ------------------------------
(* Small instances of Watchdog for TLC: the constants are numbers. *)
EXTENDS Watchdog
===============================================================================
