-------------------------------- MODULE Encoder --------------------------------
(***************************************************************************)
(* The encoder: the two I2C transactions of src/driver/as5600.rs, the      *)
(* angle track of foc/src/angle.rs, the speed window of foc/src/feedback.rs*)
(* and their publication in src/app/telemetry.rs, which every closed loop  *)
(* asks for an angle, its age and a speed.                                 *)
(*                                                                         *)
(* The rotor turns on its own by at most Speed counts per unit of time;    *)
(* pos is its true position over several turns, of which the sensor shows  *)
(* pos % Counts. The sensor latches the angle somewhere in the ANGLE       *)
(* transaction, at most Late after the time stamp. Time is counted twice,  *)
(* as in the code: 32-bit microseconds in the speed window and 32-bit      *)
(* milliseconds in the freshness stamp, each with its own wrap. Where the  *)
(* code compares 64-bit times the model keeps the true age, saturated      *)
(* where nothing tells larger ages apart.                                  *)
(***************************************************************************)
EXTENDS Integers

CONSTANTS
  Counts,     \* counts of a turn (4096)
  Speed,      \* counts the rotor moves in a unit of time, at most
  Travel,     \* bound of the model: the rotor stays within Travel counts of zero
  MaxUnwrap,  \* bound of the multi-turn position, which saturates (2^63 - 1)
  Late,       \* the angle is latched at most this long after the time stamp
  Window,     \* SPEED_RPM_WINDOW_S
  MaxGap,     \* ENC_SPEED_MAX_GAP_US
  MsUs,       \* microseconds in a millisecond
  EncFaultMs, \* ENC_FAULT_MS
  UsMod,      \* number of values of a 32-bit count of microseconds
  MsMod,      \* number of values of a 32-bit count of milliseconds
  MaxQuiet    \* longest time between two publications (the watchdog's bound)

ASSUME EncoderAssumption ==
  /\ {Counts, Speed, Travel, MaxUnwrap, Window, MaxGap, MsUs, EncFaultMs, UsMod, MsMod} \subseteq Nat \ {0}
  /\ {Late, MaxQuiet} \subseteq Nat
  /\ MaxGap * Speed <= Counts \div 2
  /\ Counts + 2 * Travel <= MaxUnwrap + 1
  /\ MaxQuiet + EncFaultMs * MsUs < UsMod
  /\ MaxQuiet + EncFaultMs * MsUs <= (MsMod - 1) * MsUs + 1
  /\ MsMod * MsUs % UsMod = 0

VARIABLES
  clock,     \* embassy_time, in microseconds
  pos,       \* the true position of the rotor
  read,      \* the read in progress: its step, the latched angle, and the true
             \* age of sampled_at_us
  track,     \* As5600: last_raw, unwrap, the true age of last_sample_us
  window,    \* WindowSpeed: previous, counts, elapsed_us, rpm
  published, \* telemetry: ENC_AGE, ENC_SAMPLED_US, and the true age of the sample
  quiet      \* time since the last publication

encVars == <<clock, pos, read, track, window, published, quiet>>

\* The fields pos, turns, origin, moved, took and outrun are history: true motion
\* and true time, which no code sees.
Nothing == [none |-> TRUE]
Half == Counts \div 2
FaultUs == EncFaultMs * MsUs
MaxReadAge == MaxGap + MaxQuiet
Us(t) == t % UsMod
Ms(t) == t \div MsUs
Aged(age, bound) == IF age < bound THEN age + 1 ELSE age

Positions == -Travel .. Travel
Angles == 0 .. Counts - 1
Reads == [step : {"angle", "latched"}, pos : Positions, age : 0 .. MaxQuiet]
Tracks == [raw : Angles, unwrap : -MaxUnwrap .. MaxUnwrap, age : 0 .. MaxReadAge,
           pos : Positions, turns : 1 - Travel - Counts .. Travel, outrun : BOOLEAN]
Readings == [raw : Angles, at : 0 .. UsMod - 1, age : 0 .. MaxReadAge, pos : Positions]
Stamps == [ms : 0 .. MsMod - 1, us : 0 .. UsMod - 1, age : 0 .. FaultUs]

EncTypeOK ==
  /\ clock \in 0 .. MsMod * MsUs - 1 /\ pos \in Positions /\ quiet \in 0 .. MaxQuiet
  /\ read \in {Nothing} \cup Reads
  /\ track \in {Nothing} \cup Tracks
  /\ window.previous \in {Nothing} \cup Readings
  /\ window.elapsed \in 0 .. Window - 1
  /\ published \in {Nothing} \cup Stamps
  /\ window.ready \in BOOLEAN /\ window.outrun \in BOOLEAN

-------------------------------------------------------------------------------
\* raw_delta.
RawDelta(raw, previous) ==
  LET d == raw - previous IN
  CASE d > Half -> d - Counts [] d < -Half -> d + Counts [] OTHER -> d

\* The limit of a gap compares time stamps, and half a turn at full speed takes no
\* less than the limit. But the angle is latched up to Late after its stamp: in a
\* gap that is accepted within Late of the limit the rotor can turn half a turn, and
\* no difference of two angles tells which way.
Outrun(gap, moved) ==
  gap \in MaxGap - Late .. MaxGap - 1 /\ (moved >= Half \/ moved <= -Half)

\* i64::saturating_add.
Saturated(n) ==
  CASE n > MaxUnwrap -> MaxUnwrap [] n < -MaxUnwrap -> -MaxUnwrap [] OTHER -> n

\* read() with AngleTrack::push: across a gap the track starts over.
Follow(raw) ==
  IF track = Nothing \/ track.age - read.age >= MaxGap
    THEN [raw |-> raw, unwrap |-> raw, age |-> read.age, pos |-> read.pos,
          turns |-> read.pos - raw, outrun |-> FALSE]
    ELSE LET outrun == track.outrun \/ Outrun(track.age - read.age, read.pos - track.pos) IN
         [raw |-> raw, unwrap |-> Saturated(track.unwrap + RawDelta(raw, track.raw)),
          age |-> read.age, pos |-> read.pos,
          turns |-> IF outrun THEN 0 ELSE track.turns, outrun |-> outrun]

\* WindowSpeed: reset, and the gap in which turns may have been missed.
\* Faulty variant: no gap is too long.
Unready == [previous |-> Nothing, counts |-> 0, elapsed |-> 0, ready |-> FALSE,
            origin |-> 0, took |-> 0, outrun |-> FALSE]
AnyGap(dt) == FALSE
Ambiguous(dt) == dt >= MaxGap \/ dt >= UsMod \div 2

\* The sample a window starts from.
Rebased(sample) == [Unready EXCEPT !.previous = sample, !.origin = sample.pos]

\* WindowSpeed::push: the window after it, and what it measured if that closes it.
Interval(sample) == (sample.at - window.previous.at) % UsMod
Measured(sample) ==
  [counts |-> window.counts + RawDelta(sample.raw, window.previous.raw),
   elapsed |-> window.elapsed + Interval(sample),
   moved |-> sample.pos - window.origin,
   took |-> window.took + window.previous.age - sample.age,
   outrun |-> \/ window.outrun
              \/ Outrun(Interval(sample), sample.pos - window.previous.pos)]
Usable(sample) ==
  window.previous # Nothing /\ Interval(sample) # 0 /\ ~Ambiguous(Interval(sample))
Closes(sample) == Usable(sample) /\ Measured(sample).elapsed >= Window
PushSpeed(sample) ==
  CASE window.previous = Nothing -> [window EXCEPT !.previous = sample, !.origin = sample.pos]
    [] window.previous # Nothing /\ Interval(sample) = 0 -> window
    [] Closes(sample) -> [Rebased(sample) EXCEPT !.ready = TRUE]
    [] Usable(sample) /\ ~Closes(sample) ->
         LET m == Measured(sample) IN
         [window EXCEPT !.previous = sample, !.counts = m.counts, !.elapsed = m.elapsed,
                        !.took = m.took, !.outrun = m.outrun]
    [] OTHER -> Rebased(sample)

\* enc_valid (is_fresh), and the time a published sample is dated with. Faulty
\* variant: the time of its publication.
EncValid == published # Nothing /\ (Ms(clock) - published.ms) % MsMod < EncFaultMs
PublishedAt(age) == clock
SampledAt(age) == (clock - age) % (MsMod * MsUs)

\* A read that took too long to be published. Faulty variant: a limit in milliseconds.
LateInMs(age) == age >= EncFaultMs
TooLate(age) == age >= FaultUs

\* The sample a latched read is about to return.
Latched == read # Nothing /\ read.step = "latched"
Sample == [raw |-> read.pos % Counts, at |-> Us(SampledAt(read.age)), age |-> read.age, pos |-> read.pos]

\* enc_age_us.
EncAge == Us(clock - published.us)

-------------------------------------------------------------------------------
EncInit ==
  /\ clock = 0 /\ pos = 0 /\ quiet = 0
  /\ read = Nothing /\ track = Nothing /\ window = Unready /\ published = Nothing

\* A microsecond passes and the rotor turns.
EncTick ==
  /\ quiet < MaxQuiet
  /\ clock' = (clock + 1) % (MsMod * MsUs) /\ quiet' = quiet + 1
  /\ \E d \in -Speed .. Speed : pos + d \in Positions /\ pos' = pos + d
  /\ read' = IF read = Nothing THEN Nothing ELSE [read EXCEPT !.age = @ + 1]
  /\ track' = IF track = Nothing THEN Nothing ELSE [track EXCEPT !.age = Aged(@, MaxReadAge)]
  /\ window' = IF window.previous = Nothing THEN window
               ELSE [window EXCEPT !.previous.age = Aged(@, MaxReadAge)]
  /\ published' = IF published = Nothing THEN Nothing ELSE [published EXCEPT !.age = Aged(@, FaultUs)]

\* read(), after the STATUS transaction: the time stamp, then the ANGLE transaction.
Stamp ==
  /\ read = Nothing
  /\ read' = [step |-> "angle", pos |-> 0, age |-> 0]
  /\ UNCHANGED <<clock, pos, track, window, published, quiet>>

\* The sensor latches the angle.
Latch ==
  /\ read # Nothing /\ read.step = "angle" /\ read.age <= Late
  /\ read' = [read EXCEPT !.step = "latched", !.pos = pos]
  /\ UNCHANGED <<clock, pos, track, window, published, quiet>>

\* publish_angle_at with an invalid sample.
Invalidate == published' = Nothing /\ window' = Unready

\* A transaction failed, or the magnet is out of range: hold().
Hold ==
  /\ read' = Nothing /\ quiet' = 0
  /\ Invalidate
  /\ UNCHANGED <<clock, pos, track>>

\* read() returns a sample and publish_angle_at takes it, unless it is too old by now.
PublishAngle ==
  /\ Latched
  /\ track' = Follow(Sample.raw)
  /\ IF TooLate(read.age) THEN Invalidate
     ELSE /\ published' = [ms |-> Ms(SampledAt(read.age)), us |-> Sample.at, age |-> read.age]
          /\ window' = PushSpeed(Sample)
  /\ read' = Nothing /\ quiet' = 0
  /\ UNCHANGED <<clock, pos>>

\* enc_valid: an expired stamp is dropped by the question.
Ask ==
  /\ published # Nothing /\ ~EncValid
  /\ published' = Nothing
  /\ UNCHANGED <<clock, pos, read, track, window, quiet>>

\* reset_speed_filter: a start, a stop or a trip.
ResetFilter ==
  /\ window' = Unready
  /\ UNCHANGED <<clock, pos, read, track, published, quiet>>

EncNext == EncTick \/ Stamp \/ Latch \/ Hold \/ PublishAngle \/ Ask \/ ResetFilter

\* Time passes and the encoder task goes on; a sample that is there is published.
EncFairness == WF_encVars(EncTick) /\ WF_encVars(Stamp) /\ WF_encVars(Latch) /\ WF_encVars(PublishAngle)

EncSpec == EncInit /\ [][EncNext]_encVars
EncFairSpec == EncSpec /\ EncFairness

-------------------------------------------------------------------------------
\* No displacement is misread: the multi-turn position follows the rotor, and the
\* speed that a sample closes is the true motion over the true time between the samples that
\* opened and closed its window, through the zero of the angle, across wraps of the
\* clock, slow or failed transactions and resets in between. The one exception is a
\* rotor that turned half a turn within an accepted gap, which takes full speed, a gap
\* within Late of the limit and a late latch.
MotionIsTrue ==
  /\ track # Nothing /\ ~track.outrun => track.pos = track.unwrap + track.turns
  /\ Latched /\ Usable(Sample) =>
       LET m == Measured(Sample) IN
       /\ m.elapsed = m.took
       /\ ~m.outrun => m.counts = m.moved

\* A closed loop is never told that an angle is valid ENC_FAULT_MS or more after the
\* sensor was asked for it, however long the transaction took; the age it is told is
\* the true one.
ValidIsRecent == EncValid => published.age < FaultUs /\ EncAge = published.age

\* Whatever was missed before, speed is ready again once transactions succeed, samples
\* come without gaps and nobody resets the filter: no reset is a dead end.
ReadsGoWell == <>[][~Hold /\ ~ResetFilter]_encVars
AnglesCome == <>[](read # Nothing /\ ~Latched => read.age <= Late)
NoGaps == <>[](Latched => /\ read.age < FaultUs
                          /\ track # Nothing => track.age - read.age < MaxGap)
SpeedReturns == ReadsGoWell /\ AnglesCome /\ NoGaps => <>[]window.ready
===============================================================================
