------------------------------- MODULE Alignment -------------------------------
(***************************************************************************)
(* The alignment of src/app/control.rs with its supervision in             *)
(* foc/src/alignment.rs: a D-axis current is ramped up, and the rotor      *)
(* position counts as electrical zero once measured current, feedback and  *)
(* position have qualified at every poll for HoldMs.                       *)
(*                                                                         *)
(* The clock NOW_MS moves only in tick(), which ramps and polls in the     *)
(* same critical section, so what a poll reads is an input of the action:  *)
(* the measured currents, the encoder count, and whether the control loop  *)
(* serviced a sample since the last poll with the encoder valid. Control   *)
(* has the other modes; here every other way to trip is the action Trip.   *)
(***************************************************************************)
EXTENDS Integers

CONSTANTS
  ClockMod,     \* number of values of the wrapping millisecond clock (2^32)
  HoldMs,       \* ALIGN_MS
  TimeoutMs,    \* ALIGN_TIMEOUT_MS
  PollGap,      \* longest time between two polls of one hold (5 in observe)
  Stalls,       \* the times between two ticks, a set of milliseconds
  Counts,       \* encoder counts of a turn (4096)
  Raws,         \* the counts the encoder may return
  MaxMotion,    \* ALIGN_MOTION_COUNTS
  MaxCurrent,   \* MAX_CURRENT_MA
  Tolerance,    \* ALIGN_CURRENT_TOL_MA
  RampPerMs,    \* IDQ_RAMP_A_S in mA per ms
  Commands,     \* the currents an operator asks for
  Measured      \* pairs <<d, q>> of measured currents

ASSUME AlignmentAssumption ==
  /\ HoldMs \in Nat \ {0} /\ TimeoutMs \in Nat /\ HoldMs < TimeoutMs
  /\ Stalls \subseteq Nat \ {0}
  /\ ClockMod \in Nat /\ \A dt \in Stalls : TimeoutMs + dt <= ClockMod
  /\ Counts \in Nat \ {0} /\ Raws \subseteq 0 .. Counts - 1
  /\ {PollGap, MaxMotion, Tolerance, RampPerMs} \subseteq Nat
  /\ MaxCurrent \in Nat \ {0}
  /\ Commands \subseteq Int
  /\ Measured \subseteq Int \X Int

VARIABLES
  mode,       \* MODE, of which Align matters here
  now,        \* NOW_MS
  target,     \* ID_TGT_MA
  ref,        \* ID_MA, the ramped reference
  started, hold, lastPoll,  \* the Alignment record; hold is a record or NoHold
  age,        \* history: milliseconds since the request
  streak,     \* history: the qualified polls of the last hold time, without a gap
  flowing,    \* history: current was measured at each of them
  verdict     \* history: how an alignment just ended

supervision == <<started, hold, lastPoll>>
evidence == <<age, streak, flowing>>
vars == <<mode, now, target, ref, supervision, evidence, verdict>>

Clock == 0 .. ClockMod - 1
NoHold == [since |-> 0, anchor |-> -1]
Currents == -MaxCurrent .. MaxCurrent

\* At a poll that leaves Align the age has grown once more.
Ages == 0 .. TimeoutMs + ClockMod

TypeOK ==
  /\ mode \in {"Idle", "Align", "Fault"}
  /\ now \in Clock
  /\ target \in Currents /\ ref \in Currents
  /\ started \in Clock /\ lastPoll \in Clock
  /\ hold \in [since : Clock, anchor : Raws] \cup {NoHold}
  /\ age \in Ages
  /\ streak \subseteq [t : Ages, raw : Raws]
  /\ flowing \in BOOLEAN
  /\ verdict \in {"none", "Complete", "TimedOut", "Stopped"}

-------------------------------------------------------------------------------
Abs(x) == IF x < 0 THEN -x ELSE x

\* i32::clamp.
Clamp(x, lo, hi) == IF x < lo THEN lo ELSE IF x > hi THEN hi ELSE x

\* Rust's division truncates toward zero.
Div(x, n) == IF x < 0 THEN -((-x) \div n) ELSE x \div n

\* raw_delta, its magnitude: the short way around the turn.
Distance(a, b) == LET d == Abs(a - b) IN IF d > Counts \div 2 THEN Counts - d ELSE d

\* wrapping_sub. Faulty variant: saturating.
Saturating(t, since) == IF t >= since THEN t - since ELSE 0
Since(t, since) == (t - since) % ClockMod

\* SlewI32::step: these rates are whole milliamperes per millisecond.
Ramped(dt) == ref + Clamp(target - ref, -(RampPerMs * dt), RampPerMs * dt)

\* poll_align: what qualifies a poll. fed: a sample was serviced since the last
\* poll and the encoder is valid.
Allowed == LET t == Div(target, 5) IN IF t < Tolerance THEN t ELSE Tolerance
Qualified(fed, meas, r) ==
  /\ fed
  /\ Abs(r - target) <= 2
  /\ Abs(meas[1] - target) <= Allowed
  /\ Abs(meas[2]) <= Allowed

\* observe: the parts of its decision. Faulty variant: a stall of the poll goes
\* unnoticed.
Due(t) == Since(t, started) >= TimeoutMs
Unqualified(t, qualified) == ~qualified
Broken(t, qualified) == ~qualified \/ Since(t, lastPoll) > PollGap
Steady(raw) == hold # NoHold /\ Distance(raw, hold.anchor) <= MaxMotion
Held(t, raw) == Steady(raw) /\ Since(t, hold.since) >= HoldMs
NextHold(t, raw) == IF Steady(raw) THEN hold ELSE [since |-> t, anchor |-> raw]

Result(t, qualified, raw) ==
  IF Due(t) THEN "TimedOut"
  ELSE IF ~Broken(t, qualified) /\ Held(t, raw) THEN "Complete" ELSE "Pending"

-------------------------------------------------------------------------------
Init ==
  /\ mode = "Idle" /\ now \in Clock
  /\ target = 0 /\ ref = 0
  /\ started = now /\ hold = NoHold /\ lastPoll = now
  /\ age = 0 /\ streak = {} /\ flowing = TRUE
  /\ verdict = "none"

\* clear_references as far as it concerns Align: ALIGNMENT becomes None.
Leave(m, v) ==
  /\ mode' = m
  /\ verdict' = v
  /\ target' = 0 /\ ref' = 0
  /\ started' = now' /\ hold' = NoHold /\ lastPoll' = now'

NoEvidence == age' = 0 /\ streak' = {} /\ flowing' = TRUE

\* request_align in enter_mode's start transaction, which may fail.
Request(id, armed) ==
  /\ mode = "Idle"
  /\ UNCHANGED now
  /\ NoEvidence
  /\ IF armed
     THEN /\ mode' = "Align"
          /\ target' = Clamp(id, 1, MaxCurrent) /\ ref' = 0
          /\ started' = now /\ hold' = NoHold /\ lastPoll' = now
          /\ verdict' = "none"
     ELSE /\ mode' = "Fault" /\ target' = 0 /\ ref' = 0
          /\ verdict' = "Stopped"
          /\ UNCHANGED supervision

\* set_id_ma, in any mode.
SetTarget(ma) ==
  /\ target' = Clamp(ma, -MaxCurrent, MaxCurrent)
  /\ IF mode = "Align" THEN UNCHANGED <<evidence, verdict>>
     ELSE NoEvidence /\ verdict' = "none"
  /\ UNCHANGED <<mode, now, ref, supervision>>

\* stop() and fault() for another reason.
Stop ==
  /\ UNCHANGED now
  /\ NoEvidence
  /\ Leave("Idle", "Stopped")

Trip ==
  /\ mode = "Align"
  /\ UNCHANGED now
  /\ NoEvidence
  /\ Leave("Fault", "Stopped")

\* The history of a poll: the polls a hold may rest on, each at most a poll gap
\* after the one before, the oldest ones forgotten once the rest spans a hold.
Recent == {e \in streak : age' - e.t <= HoldMs + PollGap}
Witness(dt, qualified, meas, raw) ==
  LET kept == IF dt > PollGap THEN {} ELSE Recent
      entry == [t |-> age', raw |-> raw]
  IN  /\ streak' = IF qualified THEN kept \cup {entry} ELSE {}
      /\ flowing' = IF qualified THEN meas[1] # 0 /\ (flowing \/ streak' = {entry}) ELSE TRUE

\* poll_align. finish_align may still find a sensor fault.
Poll(dt, fed, meas, raw) ==
  LET qualified == Qualified(fed, meas, Ramped(dt))
      result == Result(now', qualified, raw)
  IN  /\ age' = age + dt
      /\ Witness(dt, qualified, meas, raw)
      /\ \/ /\ result = "Pending"
            /\ lastPoll' = now'
            /\ hold' = IF Broken(now', qualified) THEN NoHold ELSE NextHold(now', raw)
            /\ ref' = Ramped(dt)
            /\ UNCHANGED <<mode, target, started, verdict>>
         \/ /\ result = "TimedOut"
            /\ Leave("Fault", "TimedOut")
         \/ /\ result = "Complete"
            /\ Leave("Idle", "Complete") \/ Leave("Fault", "Stopped")

\* tick(dt): the clock, the ramp, the poll.
Tick(dt, fed, meas, raw) ==
  /\ now' = (now + dt) % ClockMod
  /\ IF mode = "Align"
     THEN Poll(dt, fed, meas, raw)
     ELSE /\ NoEvidence /\ verdict' = "none"
          /\ UNCHANGED <<mode, target, ref, supervision>>

Next ==
  \/ \E id \in Commands : SetTarget(id) \/ \E armed \in BOOLEAN : Request(id, armed)
  \/ Stop \/ Trip
  \/ \E dt \in Stalls, fed \in BOOLEAN, meas \in Measured, raw \in Raws :
       Tick(dt, fed, meas, raw)

Spec == Init /\ [][Next]_vars

-------------------------------------------------------------------------------
\* An alignment never outlives its timeout by a poll, and never times out early,
\* wherever the wrapping clock stood when it was requested.
TimeoutExact ==
  /\ mode = "Align" => age < TimeoutMs
  /\ verdict = "TimedOut" => age >= TimeoutMs

\* The polls from e on stayed within the motion limit of the count of e.
StillSince(e) ==
  \A f \in streak : f.t >= e.t => Distance(f.raw, e.raw) <= MaxMotion

\* A completed alignment rests on a full hold time of polls without a gap, each
\* with fresh feedback, current in tolerance and the rotor near one anchor.
CompletedOnEvidence ==
  verdict = "Complete" => \E e \in streak : age - e.t >= HoldMs /\ StillSince(e)

\* The comment in poll_align: "A small target must not qualify with zero
\* measured current."
ZeroCurrentNeverQualifies == verdict = "Complete" => flowing
===============================================================================
