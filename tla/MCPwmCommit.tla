------------------------------ MODULE MCPwmCommit ------------------------------
(* A timer of four ticks each way for TLC. *)
EXTENDS PwmCommit

MCArrs == {4}
MCAfters == {1}
MCBefores == {1, 2}
\* UV at the peak; another pair; two high, so shifted; too high to be planned.
MCAsked == {<<2, 2, 2>>, <<1, 4, 1>>, <<4, 1, 1>>, <<3, 3, 1>>, <<5, 5, 0>>}
===============================================================================
