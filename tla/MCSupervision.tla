----------------------------- MODULE MCSupervision -----------------------------
(* Ramps of a quarter of a unit and of most of one per millisecond, for TLC. *)
EXTENDS Supervision

MCTargets == {-1, 0}
MCRates == [idq |-> 1, speed_iq |-> 1, rpm |-> 3]
MCAxes == {"iq", "rpm"}
===============================================================================
