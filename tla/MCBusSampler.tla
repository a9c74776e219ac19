----------------------------- MODULE MCBusSampler -----------------------------
(* Small instances of BusSampler for TLC: the constants are numbers. *)
EXTENDS BusSampler
===============================================================================
