------------------------------- MODULE Supervision -------------------------------
(***************************************************************************)
(* The supervisor of src/bin/main/tasks.rs (analog_task) with what it      *)
(* advances in src/app/control.rs: the control clock, the command timeout, *)
(* the stall watch on the current interrupt, and the ramps that lead the   *)
(* references to the operator's targets (Slew). Sensor interlocks, start   *)
(* conditions and the alignment are in Control and Alignment.              *)
(*                                                                         *)
(* Everything is in milliseconds. The supervisor runs at most once in a    *)
(* millisecond and at least every MaxDelay of them. The control clock      *)
(* NOW_MS stands still between two of its runs, so a command is stamped    *)
(* with the time of the last one; the true times are history.              *)
(***************************************************************************)
EXTENDS Slew

CONSTANTS
  Axes,        \* ramps the instance has, of "id", "iq" and "rpm"
  Targets,     \* values a target can take
  Rates,       \* IDQ_RAMP, SPEED_IQ_RAMP and SPEED_RAMP in position per millisecond
  TimeoutMs,   \* CMD_TIMEOUT_MS
  StallMs,     \* CURRENT_STALL_MS
  MaxDelay,    \* longest time between two runs of the supervisor
  ClockMod,    \* number of values of a 32-bit clock
  SequenceMod  \* number of values of the completion sequence

ASSUME SupervisionAssumption ==
  /\ Axes \subseteq {"id", "iq", "rpm"}
  /\ Targets \subseteq Int /\ 0 \in Targets
  /\ Rates \in [{"idq", "speed_iq", "rpm"} -> Nat]
  /\ {TimeoutMs, StallMs, MaxDelay, SequenceMod} \subseteq Nat \ {0}
  /\ ClockMod \in Nat /\ ClockMod > TimeoutMs + 2 * MaxDelay
  /\ ClockMod > StallMs + 2 * MaxDelay
  /\ SequenceMod > MaxDelay + 1

VARIABLES
  mode, cause,  \* MODE, LAST_FAULT
  target,       \* ID_TGT_MA, IQ_TGT_MA, RPM_TGT
  ramp,         \* RAMPS: positions
  ref,          \* ID_MA, IQ_MA, RPM_REF
  wall, now,    \* embassy_time; NOW_MS
  lastCmd,      \* LAST_CMD_MS
  sequence,     \* the completion sequence of telemetry.rs
  watch,        \* CURRENT_WATCH: sequence and time of the last change
  gap,          \* milliseconds since the last run of the supervisor
  cmdAge,       \* history: true time since the last command
  doneAge,      \* history: true time since the last completion, or since the start
  smooth        \* history: the ramps advanced millisecond by millisecond

clocks == <<wall, now, gap>>
refs == <<target, ramp, ref, smooth>>
vars == <<mode, cause, refs, clocks, lastCmd, sequence, watch, cmdAge, doneAge>>

LiveModes == {"Run", "Speed", "Bench"}
NoWatch == [none |-> TRUE]
Clock == 0 .. ClockMod - 1
Longest == (IF TimeoutMs >= StallMs THEN TimeoutMs ELSE StallMs) + 2 * MaxDelay + 1
Older(age) == IF age < Longest THEN age + 1 ELSE age
Since(a, b) == (a - b) % ClockMod

TypeOK ==
  /\ mode \in LiveModes \cup {"Idle", "Fault"} /\ cause \in {"none", "timeout", "stall", "other"}
  /\ target \in [Axes -> Targets]
  /\ ramp \in [Axes -> Int] /\ smooth \in [Axes -> Int] /\ ref \in [Axes -> Int]
  /\ wall \in Clock /\ now \in Clock /\ lastCmd \in Clock
  /\ sequence \in 0 .. SequenceMod - 1
  /\ watch \in {NoWatch} \cup [sequence : 0 .. SequenceMod - 1, at : Clock]
  /\ gap \in 0 .. MaxDelay
  /\ cmdAge \in 0 .. Longest /\ doneAge \in 0 .. Longest

-------------------------------------------------------------------------------
\* touch_cmd.
Touch == lastCmd' = now /\ cmdAge' = 0

\* clear_references with reset_ramps(0, 0, 0).
Zero == [a \in Axes |-> 0]
ClearReferences ==
  /\ target' = Zero /\ ramp' = Zero /\ ref' = Zero /\ smooth' = Zero
  /\ watch' = NoWatch

\* fault(), with the first cause kept.
Fault(kind) ==
  /\ IF mode = "Fault" THEN UNCHANGED <<mode, cause, refs, watch>>
     ELSE mode' = "Fault" /\ cause' = kind /\ ClearReferences

-------------------------------------------------------------------------------
\* cmd_timed_out. Faulty variant: a millisecond early.
CurrentAxes == Axes \cap {"id", "iq"}
Steered == mode = "Run" /\ \E a \in CurrentAxes : target[a] # 0
SilentEarly(age) == age >= TimeoutMs
Silent(age) == age > TimeoutMs
CmdTimedOut == Steered /\ Silent(Since(now, lastCmd))

\* supervise_current: the watch begins at the first run after a start. A change of
\* the sequence refreshes it. Faulty variant: every run does.
Begun == IF watch = NoWatch THEN [sequence |-> sequence, at |-> wall] ELSE watch
AlwaysRefreshed == [sequence |-> sequence, at |-> wall]
Refreshed ==
  IF Begun.sequence # sequence THEN [sequence |-> sequence, at |-> wall] ELSE Begun
Stalled == Since(wall, Refreshed.at) >= StallMs

\* poll_refs: which ramps a mode advances, and how fast.
Rate(m, a) ==
  CASE m = "Run" /\ a \in {"id", "iq"} -> Rates["idq"]
    [] m = "Speed" /\ a = "iq" -> Rates["speed_iq"]
    [] m = "Speed" /\ a = "rpm" -> Rates["rpm"]
    [] OTHER -> 0

\* The same, one millisecond after the other.
Fine(position, to, rate, ms) ==
  LET fine[n \in 0 .. ms] ==
        IF n = 0 THEN position ELSE Stepped(fine[n - 1], to, rate)
  IN  fine[ms]

PollRefs(dt) ==
  /\ ramp' = [a \in Axes |-> Step(ramp[a], target[a], Rate(mode, a) * dt)]
  /\ ref' = [a \in Axes |-> IF Rate(mode, a) > 0 THEN Nearest(ramp'[a]) ELSE ref[a]]
  /\ smooth' = [a \in Axes |-> Fine(smooth[a], target[a], Rate(mode, a), dt)]
  /\ UNCHANGED target

-------------------------------------------------------------------------------
Init ==
  /\ mode = "Idle" /\ cause = "none"
  /\ target = Zero /\ ramp = Zero /\ ref = Zero /\ smooth = Zero
  /\ wall = 0 /\ now = 0 /\ gap = 0 /\ lastCmd = 0
  /\ sequence = 0 /\ watch = NoWatch
  /\ cmdAge = Longest /\ doneAge = Longest

\* A millisecond passes.
Millisecond ==
  /\ gap < MaxDelay
  /\ wall' = (wall + 1) % ClockMod /\ gap' = gap + 1
  /\ cmdAge' = Older(cmdAge) /\ doneAge' = Older(doneAge)
  /\ UNCHANGED <<mode, cause, refs, now, lastCmd, sequence, watch>>

\* The ADC interrupt completes. Once in a millisecond stands for any number.
Complete ==
  /\ doneAge > 0
  /\ sequence' = (sequence + 1) % SequenceMod /\ doneAge' = 0
  /\ UNCHANGED <<mode, cause, refs, clocks, lastCmd, watch, cmdAge>>

\* enter_mode. Speed starts its ramp at the measured speed, and from zero targets.
Enter(m, rpm, to) ==
  /\ mode = "Idle" /\ m \in LiveModes
  /\ mode' = m /\ cause' = "none"
  /\ LET at == [a \in Axes |-> IF a = "rpm" /\ m = "Speed" THEN rpm ELSE 0] IN
     /\ ref' = at
     /\ ramp' = [a \in Axes |-> Position(at[a])] /\ smooth' = ramp'
  /\ target' = IF m = "Speed" THEN [a \in Axes |-> IF a = "rpm" THEN to ELSE 0] ELSE target
  /\ watch' = NoWatch /\ doneAge' = 0
  /\ Touch
  /\ UNCHANGED <<clocks, sequence>>

\* set_id_ma, set_iq_ma, and set_rpm_ref of a running speed mode.
SetTarget(a, to) ==
  /\ a = "rpm" => mode = "Speed"
  /\ target' = [target EXCEPT ![a] = to]
  /\ Touch
  /\ UNCHANGED <<mode, cause, ramp, ref, smooth, clocks, sequence, watch, doneAge>>

\* start() in Run.
StartAgain ==
  /\ mode = "Run"
  /\ Touch
  /\ UNCHANGED <<mode, cause, refs, clocks, sequence, watch, doneAge>>

\* write_iq_ma: the speed loop, which is no command.
WriteIq(to) ==
  /\ mode = "Speed" /\ "iq" \in Axes
  /\ target' = [target EXCEPT !["iq"] = to]
  /\ UNCHANGED <<mode, cause, ramp, ref, smooth, clocks, lastCmd, sequence, watch, cmdAge, doneAge>>

Stop ==
  /\ mode' = "Idle" /\ ClearReferences
  /\ UNCHANGED <<cause, clocks, lastCmd, sequence, cmdAge, doneAge>>

\* A trip of another part.
Trip ==
  /\ mode \in LiveModes
  /\ Fault("other")
  /\ UNCHANGED <<clocks, lastCmd, sequence, cmdAge, doneAge>>

\* One run of analog_task: the timeout, then the stall watch, then tick. A trip
\* clears what the later parts would use.
Supervise ==
  /\ gap > 0
  /\ CASE CmdTimedOut -> Fault("timeout")
       [] ~CmdTimedOut /\ mode \in LiveModes /\ Stalled -> Fault("stall")
       [] ~CmdTimedOut /\ mode \in LiveModes /\ ~Stalled ->
            watch' = Refreshed /\ PollRefs(gap) /\ UNCHANGED <<mode, cause>>
       [] OTHER -> watch' = NoWatch /\ UNCHANGED <<mode, cause, refs>>
  /\ now' = (now + gap) % ClockMod /\ gap' = 0
  /\ UNCHANGED <<wall, lastCmd, sequence, cmdAge, doneAge>>

Next ==
  \/ Millisecond \/ Complete \/ StartAgain \/ Stop \/ Trip \/ Supervise
  \/ \E m \in LiveModes, rpm, to \in Targets : Enter(m, rpm, to)
  \/ \E a \in Axes, to \in Targets : SetTarget(a, to)
  \/ \E to \in Targets : WriteIq(to)

Spec == Init /\ [][Next]_vars

-------------------------------------------------------------------------------
\* A ramp is the same however late its ticks come: it advances as if it were moved
\* every millisecond, neither standing still below a unit per tick nor overshooting,
\* and the published reference is the unit nearest to it.
RampIsContinuous ==
  \A a \in Axes :
    /\ ramp[a] = smooth[a]
    /\ 2 * Abs(Position(ref[a]) - smooth[a]) <= Scale

\* A motor that is driven by commands is not driven for longer than the timeout and
\* two runs of the supervisor without one, and is not tripped for silence within the
\* timeout less one run, on whichever side of a run the last command fell.
TimeoutInTime ==
  [][/\ Steered' => cmdAge' <= TimeoutMs + 2 * MaxDelay
     /\ cause' = "timeout" /\ mode # "Fault" /\ mode' = "Fault" => cmdAge >= TimeoutMs + 2 - MaxDelay]_vars

\* Outputs never outlive the current interrupt by more than the stall time and two
\* runs of the supervisor, and a stall is never reported while it completes in time.
StallInTime ==
  [][/\ mode' \in LiveModes => doneAge' <= StallMs + 2 * MaxDelay
     /\ cause' = "stall" /\ mode # "Fault" /\ mode' = "Fault" => doneAge >= StallMs]_vars
===============================================================================
