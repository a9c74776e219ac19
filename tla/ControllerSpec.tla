---------------------------- MODULE ControllerSpec ----------------------------
(***************************************************************************)
(* What src/app/controller.rs promises to its callers: a controller whose  *)
(* operations take effect one at a time, although the floating-point work  *)
(* runs with interrupts enabled and requests arrive in the middle of it.   *)
(*                                                                         *)
(* There is no checkout, no mailbox and no revision here: a reset or a     *)
(* gain change is visible at once, and a published output was computed in  *)
(* a single step from the controller as it stands.                         *)
(***************************************************************************)
EXTENDS Naturals

CONSTANTS
  Gains,     \* the gain pairs a caller may set
  NoGains,   \* stands for "no gain pair" (Option::None)
  NoOutput,  \* nothing has been published yet
  MaxAcc     \* the controller's accumulated state saturates here

VARIABLES
  ready,  \* init has run
  gains,  \* the gain pair in force
  acc,    \* state accumulated since the last reset
  pub     \* the last published output

vars == <<ready, gains, acc, pub>>

Outputs == [gains : Gains, acc : 0 .. MaxAcc]

Init ==
  /\ ready = FALSE
  /\ gains = NoGains
  /\ acc = 0
  /\ pub = NoOutput

Boot(g) ==
  /\ ~ready
  /\ ready' = TRUE
  /\ gains' = IF gains = NoGains THEN g ELSE gains
  /\ UNCHANGED <<acc, pub>>

Reset ==
  /\ acc' = 0
  /\ UNCHANGED <<ready, gains, pub>>

SetGains(g) ==
  /\ gains' = g
  /\ UNCHANGED <<ready, acc, pub>>

\* One step of the algorithm; the result is either published or dropped.
Compute ==
  /\ ready
  /\ acc' = IF acc < MaxAcc THEN acc + 1 ELSE acc
  /\ pub' \in {pub, [gains |-> gains, acc |-> acc']}
  /\ UNCHANGED <<ready, gains>>

Next ==
  \/ \E g \in Gains : Boot(g) \/ SetGains(g)
  \/ Reset
  \/ Compute

Spec == Init /\ [][Next]_vars
===============================================================================
