-------------------------------- MODULE NvmSpec --------------------------------
(***************************************************************************)
(* What the calibration journal of foc/src/nvm.rs promises: one record     *)
(* that survives, and a budget of slots. A save, whether it succeeds,      *)
(* fails or is cut by a power loss, costs at most a slot and never the     *)
(* stored record while a slot is left. Only when none is left may a        *)
(* reclaim lose it, and then never in favour of a record nobody saved.     *)
(***************************************************************************)
EXTENDS Naturals

CONSTANTS
  Records,    \* calibration records
  NoRecord,   \* nothing stored
  SlotCount   \* slots of the page

VARIABLES
  stored,  \* what load() returns
  room,    \* slots not yet consumed
  past     \* every record stored so far

vars == <<stored, room, past>>

Init ==
  /\ stored = NoRecord
  /\ room = SlotCount
  /\ past = {}

\* A slot is consumed before its record is complete.
Consume ==
  /\ room > 0
  /\ room' = room - 1
  /\ UNCHANGED <<stored, past>>

Store(r) ==
  /\ room < SlotCount
  /\ stored' = r
  /\ past' = past \cup {r}
  /\ UNCHANGED room

\* A reclaim, complete or not.
Reclaim ==
  /\ room = 0
  /\ room' \in 0 .. SlotCount
  /\ stored' \in past \cup {NoRecord}
  /\ UNCHANGED past

Next == Consume \/ Reclaim \/ \E r \in Records : Store(r)

Spec == Init /\ [][Next]_vars
===============================================================================
