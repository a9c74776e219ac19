----------------------------- MODULE MCCalibration -----------------------------
(* Two offsets, two pole counts and a page of two slots for TLC. *)
EXTENDS Calibration

MCRecords == [off : {0, 1}, poles : {1, 2}]
MCEntered == {-1, 0, 1, 2}
===============================================================================
