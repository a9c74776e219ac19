------------------------------ MODULE Calibration ------------------------------
(***************************************************************************)
(* The calibration of src/app/control.rs (electrical offset, pole pairs    *)
(* and whether the two are qualified for each other) with everything that  *)
(* edits, uses, saves and loads it, over the journal of module Nvm and the *)
(* power losses there.                                                     *)
(*                                                                         *)
(* save() keeps the thread: while it runs (at # "idle") no command and no  *)
(* task does anything, but interrupts may trip and power may fail. An      *)
(* offset is one of Turn angles; what the encoder contributes to one is a  *)
(* parameter. Bench and Openloop ask for no calibration ("Open"), Run and  *)
(* Speed do ("Closed").                                                    *)
(***************************************************************************)
EXTENDS Nvm, Integers

CONSTANTS
  Turn,          \* distinct offsets: 6284 mrad in the code
  MaxPoles,      \* largest pole count (255)
  DefaultPoles,  \* DEFAULT_POLE_PAIRS
  Entered        \* offsets and pole counts an operator enters

ASSUME CalibrationAssumption ==
  /\ Turn \in Nat \ {0} /\ MaxPoles \in Nat \ {0}
  /\ DefaultPoles \in 1 .. MaxPoles
  /\ Entered \subseteq Int
  /\ Records = [off : 0 .. Turn - 1, poles : 1 .. MaxPoles]

VARIABLES
  mode,      \* MODE
  off,       \* THETA_E_OFF_MRAD
  poles,     \* POLES
  valid,     \* CALIBRATION_VALID
  owed,      \* the offset command has still to save (it awaits the UART in between)
  qualified  \* history: the pairs an alignment or the operator vouched for

calibration == <<off, poles, valid>>
journal == <<page, save, reply, past>>
volatile == <<mode, calibration, owed>>

Modes == {"Idle", "Align", "Open", "Closed", "Fault"}

Pair == [off |-> off, poles |-> poles]

CalTypeOK ==
  /\ TypeOK
  /\ mode \in Modes
  /\ off \in 0 .. Turn - 1 /\ poles \in 1 .. MaxPoles
  /\ valid \in BOOLEAN /\ owed \in BOOLEAN
  /\ qualified \subseteq Records

-------------------------------------------------------------------------------
\* The thread is not in save(); the shell is between two commands.
ThreadRuns == at = "idle"
ShellRuns == ThreadRuns /\ ~owed

\* latch_electrical_offset(): the angle at zero offset, for this pole count.
LatchedOffset(count) == (count * poles) % Turn

\* wrap_2pi in set_theta_e_off_mrad. Faulty variant: the value as it was entered.
Unwrapped(mrad) == mrad
Wrapped(mrad) == mrad % Turn

\* What a change of the pole count leaves of a qualification.
\* Faulty variant: all of it.
Requalified(n) == valid
StillValid(n) == valid /\ n = poles

\* Record::encode and the guard of load_nvm.
\* Faulty variant: the guard asks for a nonzero offset.
Encodes(r) == r.poles > 0 /\ r.off \in 0 .. Turn - 1
AcceptsNonzero(r) == r # NoRecord /\ r.poles > 0 /\ r.off \in 1 .. Turn - 1
Accepts(r) == r # NoRecord /\ r.poles > 0 /\ r.off \in 0 .. Turn - 1

-------------------------------------------------------------------------------
\* load_nvm() at boot, on statics that have their initial values.
Boot(p) ==
  /\ mode' = "Idle" /\ owed' = FALSE
  /\ IF Accepts(Latest(p))
     THEN off' = Latest(p).off /\ poles' = Latest(p).poles /\ valid' = TRUE
     ELSE off' = 0 /\ poles' = DefaultPoles /\ valid' = FALSE

\* Power fails and comes back.
PowerCycle ==
  /\ IF at = "idle" THEN UNCHANGED journal ELSE PowerLoss
  /\ Boot(page')
  /\ UNCHANGED qualified

\* fault(), from an interrupt or a task; the calibration stays.
Trip ==
  /\ mode' = "Fault"
  /\ UNCHANGED <<journal, calibration, owed, qualified>>

\* stop(), of the shell or the button.
Halt ==
  /\ ThreadRuns
  /\ mode' = "Idle"
  /\ UNCHANGED <<journal, calibration, owed, qualified>>

\* enter_mode(): the arming may fail once prepare has run.
Start(target) ==
  /\ IF target = "Closed" THEN ThreadRuns ELSE ShellRuns  \* the button starts Run
  /\ mode = "Idle" /\ (target = "Closed" => valid)
  /\ mode' \in {target, "Fault"}
  /\ valid' = (valid /\ target # "Align")
  /\ UNCHANGED <<journal, off, poles, owed, qualified>>

\* finish_align(): the encoder is good, else it is a Trip.
FinishAlign(count) ==
  /\ ThreadRuns /\ mode = "Align"
  /\ off' = LatchedOffset(count) /\ valid' = TRUE /\ mode' = "Idle"
  /\ qualified' = qualified \cup {[Pair EXCEPT !.off = off']}
  /\ UNCHANGED <<journal, poles, owed>>

SetPoles(n) ==
  /\ ShellRuns /\ mode = "Idle" /\ n \in 1 .. MaxPoles
  /\ poles' = n /\ valid' = StillValid(n)
  /\ UNCHANGED <<journal, mode, off, owed, qualified>>

\* capture_electrical_offset(): the zero command.
Capture(count) ==
  /\ ShellRuns /\ mode = "Idle"
  /\ off' = LatchedOffset(count) /\ valid' = FALSE
  /\ UNCHANGED <<journal, mode, poles, owed, qualified>>

\* set_theta_e_off_mrad(), then the offset command awaits the UART.
SetOffset(mrad) ==
  /\ ShellRuns /\ mode = "Idle"
  /\ off' = Wrapped(mrad) /\ valid' = TRUE /\ owed' = TRUE
  /\ qualified' = qualified \cup {[Pair EXCEPT !.off = off']}
  /\ UNCHANGED <<journal, mode, poles>>

\* persist_nvm(): of the save command, or what the offset command still owes.
Persist ==
  /\ ThreadRuns
  /\ owed' = FALSE
  /\ IF mode = "Idle" /\ valid
     THEN Save(IF Encodes(Pair) THEN Pair ELSE NoRecord)
     ELSE UNCHANGED journal
  /\ UNCHANGED <<mode, calibration, qualified>>

\* The rest of save(), one flash operation at a time.
Flash ==
  /\ \/ \E ok \in BOOLEAN, q \in Wiped(page) : Erase(ok, q)
     \/ Check
     \/ \E ok \in BOOLEAN : First(ok) \/ \E done \in BOOLEAN : Second(ok, done)
     \/ Readback
  /\ UNCHANGED <<volatile, qualified>>

-------------------------------------------------------------------------------
CalInit ==
  /\ Init
  /\ mode = "Idle" /\ off = 0 /\ poles = DefaultPoles /\ valid = FALSE
  /\ owed = FALSE /\ qualified = {}

CalNext ==
  \/ PowerCycle \/ Trip \/ Halt \/ Persist \/ Flash
  \/ \E target \in {"Align", "Open", "Closed"} : Start(target)
  \/ \E count \in 0 .. Turn - 1 : FinishAlign(count) \/ Capture(count)
  \/ \E n \in Entered : SetPoles(n) \/ SetOffset(n)

CalSpec == CalInit /\ [][CalNext]_<<journal, volatile, qualified>>

-------------------------------------------------------------------------------
\* Offset and pole count are authorized together or not at all: whatever order the
\* commands come in, a valid calibration, a closed loop and every record in flash rest
\* on a pair that was qualified as a pair.
QualifiedTogether ==
  /\ valid \/ mode = "Closed" => Pair \in qualified
  /\ past \subseteq qualified

\* A save that was reported as done is what the next power cycle brings back, ready to
\* run: load_nvm accepts everything that save() stores.
SavedComesBack ==
  [][PowerCycle /\ at = "idle" /\ reply \in {"ok", "unchanged"} => valid' /\ Pair' = rec]_<<journal, volatile>>

\* Whatever way the offset was set, a valid calibration can be saved: encode never
\* refuses it.
AlwaysEncodes == valid => Encodes(Pair)
===============================================================================
