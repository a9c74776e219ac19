------------------------------ MODULE MCAlignment ------------------------------
(* Small instances of Alignment for TLC: a turn of four counts, a hold of three *)
(* milliseconds, a clock that wraps within two alignments.                     *)
EXTENDS Alignment

MCStalls == {1, 2, 3}
MCRaws == {0, 1, 3}
MCCommands == {0, 1, 12}
MCMeasured == {<<0, 0>>, <<1, 0>>, <<9, 0>>, <<9, 3>>}
===============================================================================
