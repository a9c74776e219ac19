------------------------------ MODULE BusSampler ------------------------------
(***************************************************************************)
(* VBUS and temperature: the nonblocking sequence of regular conversions   *)
(* in src/driver/analog.rs (poll_bus), its publication in telemetry.rs,    *)
(* and the freshness latch of foc/src/safety.rs that every interlock asks. *)
(*                                                                         *)
(* Time is a wrapping millisecond clock. A conversion is the channel it    *)
(* takes and, as history, its age: the true time since it was started,     *)
(* which no code can see. Ages saturate. With EOS set the data register    *)
(* holds the result of the conversion that was started last.               *)
(*                                                                         *)
(* A conversion ends within ConvMs or never. poll_bus and publish_bus are  *)
(* two critical sections of one task iteration; interrupts may ask for the *)
(* sample between them. recalibrate keeps the thread from start to end.    *)
(***************************************************************************)
EXTENDS Integers

CONSTANTS
  ClockMod,    \* number of values of the wrapping millisecond clock (2^32)
  FaultMs,     \* BUS_FAULT_MS
  MaxDelay,    \* longest time between two polls (the watchdog resets later ones)
  ConvMs,      \* longest conversion that ends
  MaxSilence   \* longest time a stamp waits for a question or a publication

ASSUME BusAssumption ==
  /\ {ClockMod, FaultMs, MaxDelay, ConvMs, MaxSilence} \subseteq Nat \ {0}
  /\ 2 * FaultMs + ConvMs + MaxDelay <= ClockMod
  /\ FaultMs + MaxDelay + MaxSilence <= ClockMod

VARIABLES
  now,        \* embassy_time, in milliseconds
  phase,      \* bus_phase
  started,    \* bus_started_ms
  vbus,       \* the result BusPhase::Ntc carries, or NoResult
  adstart,    \* ADC1 CR.ADSTART: a regular conversion runs
  eos, ovr,   \* ADC1 ISR flags
  latest,     \* the conversion that was started last
  sample,     \* what read_bus returned and publish_bus has not yet seen
  stamp,      \* BUS_AGE.updated_ms, or None
  shown,      \* VBUS_MV and TEMP_C10
  answer,     \* what bus_snapshot answered last, until time passes
  polled,     \* history: time since the last poll
  silence     \* history: time the stamp has waited for a publication or a question

sequencer == <<phase, started, vbus>>
adc == <<adstart, eos, ovr, latest>>
telemetry == <<stamp, shown, answer>>
vars == <<now, sequencer, adc, sample, telemetry, polled, silence>>

Clock == 0 .. ClockMod - 1
None == -1
MaxAge == FaultMs + ConvMs
Results == [channel : {"vbus", "ntc", "shunt"}, age : 0 .. MaxAge]
NoResult == [channel |-> "shunt", age |-> 0]
NoSample == [at |-> None]
Samples == [at : Clock, vbus : Results, ntc : Results]

TypeOK ==
  /\ now \in Clock /\ started \in Clock
  /\ phase \in {"Idle", "Vbus", "Ntc"}
  /\ {vbus, latest} \subseteq Results
  /\ {adstart, eos, ovr} \subseteq BOOLEAN
  /\ sample \in {NoSample} \cup Samples
  /\ stamp \in Clock \cup {None}
  /\ shown \in {NoSample} \cup Samples
  /\ answer \in {"none", "fresh", "stale"}
  /\ polled \in 0 .. MaxDelay /\ silence \in 0 .. MaxSilence

-------------------------------------------------------------------------------
\* wrapping_sub, and the clock.
Since(t) == (now - t) % ClockMod
NextClock == (now + 1) % ClockMod

\* A millisecond passes for a result and for a sample.
Older(r) == IF r.channel = "shunt" THEN r ELSE [r EXCEPT !.age = IF @ < MaxAge THEN @ + 1 ELSE @]
OlderSample(s) == IF s = NoSample THEN s ELSE [s EXCEPT !.vbus = Older(@), !.ntc = Older(@)]

\* poll_bus: when the sequence is started over. Faulty variant: never.
NeverOver == FALSE
StartOver == ovr \/ Since(started) >= FaultMs

\* The time that goes with a sample. Faulty variant: the time of the poll.
PollTime == now
SampleTime == started

\* is_fresh.
Fresh(at) == at # None /\ Since(at) < FaultMs

\* configure_sampling, the sequence. Faulty variant: it is left where it was.
PhaseKept == phase
PhaseReset == "Idle"

\* start_regular: flags cleared, one conversion of one channel.
StartRegular(channel) ==
  /\ adstart' = TRUE /\ eos' = FALSE /\ ovr' = FALSE
  /\ latest' = [channel |-> channel, age |-> 0]

-------------------------------------------------------------------------------
Init ==
  /\ now = 0
  /\ phase = "Idle" /\ started = 0 /\ vbus = NoResult
  /\ adstart = FALSE /\ eos \in BOOLEAN /\ ovr = FALSE /\ latest = NoResult
  /\ sample = NoSample
  /\ stamp = None /\ shown = NoSample /\ answer = "none"
  /\ polled = 0 /\ silence = 0

\* A millisecond passes.
Tick ==
  /\ polled < MaxDelay
  /\ stamp # None => silence < MaxSilence
  /\ now' = NextClock
  /\ vbus' = Older(vbus) /\ latest' = Older(latest)
  /\ sample' = OlderSample(sample) /\ shown' = OlderSample(shown)
  /\ polled' = polled + 1 /\ silence' = IF stamp = None THEN 0 ELSE silence + 1
  /\ answer' = "none"
  /\ UNCHANGED <<phase, started, adstart, eos, ovr, stamp>>

\* The hardware ends a conversion.
Convert(overrun) ==
  /\ adstart /\ latest.age <= ConvMs
  /\ adstart' = FALSE /\ eos' = TRUE /\ ovr' = overrun
  /\ UNCHANGED <<now, sequencer, latest, sample, telemetry, polled, silence>>

\* poll_bus.
Begin ==
  /\ phase = "Idle" \/ StartOver
  /\ started' = now /\ phase' = "Vbus" /\ vbus' = NoResult
  /\ StartRegular("vbus")
  /\ UNCHANGED sample

TakeVbus ==
  /\ phase = "Vbus" /\ ~StartOver /\ eos
  /\ vbus' = latest /\ phase' = "Ntc"
  /\ StartRegular("ntc")
  /\ UNCHANGED <<started, sample>>

TakeNtc ==
  /\ phase = "Ntc" /\ ~StartOver /\ eos
  /\ sample' = [at |-> SampleTime, vbus |-> vbus, ntc |-> latest]
  /\ started' = now /\ phase' = "Vbus" /\ vbus' = NoResult
  /\ StartRegular("vbus")

Wait ==
  /\ adstart \/ (phase # "Idle" /\ ~StartOver /\ ~eos)
  /\ UNCHANGED <<sequencer, adc, sample>>

Poll ==
  /\ sample = NoSample
  /\ Wait \/ (~adstart /\ (Begin \/ TakeVbus \/ TakeNtc))
  /\ polled' = 0
  /\ UNCHANGED <<now, telemetry, silence>>

\* publish_bus; finite: both conversions to physical units are.
Publish(finite) ==
  /\ sample # NoSample
  /\ shown' = sample
  /\ stamp' = IF finite THEN sample.at ELSE None
  /\ sample' = NoSample
  /\ answer' = "none"
  /\ silence' = 0
  /\ UNCHANGED <<now, sequencer, adc, polled>>

\* bus_snapshot: an expired stamp is invalidated by the question.
Snapshot ==
  /\ answer' = IF Fresh(stamp) THEN "fresh" ELSE "stale"
  /\ stamp' = IF Fresh(stamp) THEN stamp ELSE None
  /\ silence' = 0
  /\ UNCHANGED <<now, sequencer, adc, sample, shown, polled>>

\* recalibrate: the blocking reads of the shunts use the same data register. If
\* the ADC cannot be stopped nothing is reconfigured; a stop that comes late
\* ends the conversion without a result.
Recalibrate(stopped) ==
  /\ sample = NoSample
  /\ stamp' = None
  /\ answer' = "none"
  /\ \/ /\ stopped
        /\ adstart' = FALSE /\ eos' \in BOOLEAN /\ ovr' = FALSE
        /\ latest' = NoResult
        /\ phase' = PhaseReset
        /\ UNCHANGED <<started, vbus>>
     \/ /\ ~stopped /\ adstart
        /\ adstart' = FALSE
        /\ UNCHANGED <<sequencer, eos, ovr, latest>>
     \/ /\ ~stopped
        /\ UNCHANGED <<sequencer, adc>>
  /\ UNCHANGED <<now, sample, shown, polled, silence>>

Next ==
  \/ Tick \/ Poll \/ Snapshot
  \/ \E b \in BOOLEAN : Convert(b) \/ Publish(b) \/ Recalibrate(b)

\* The supervisor polls and publishes; a conversion that can end does.
Fairness == WF_vars(Tick) /\ WF_vars(Poll) /\ WF_vars(\E b \in BOOLEAN : Publish(b))
              /\ WF_vars(Convert(FALSE))

Spec == Init /\ [][Next]_vars
FairSpec == Spec /\ Fairness

-------------------------------------------------------------------------------
\* What is published as VBUS was converted from VBUS and what is published as
\* temperature from the NTC, across timeouts, overruns and recalibrations that
\* use the same register.
RightChannel ==
  shown # NoSample => shown.vbus.channel = "vbus" /\ shown.ntc.channel = "ntc"

\* The interlocks are never told that a sample is fresh when either half of it
\* was acquired BUS_FAULT_MS ago or earlier, however late it was published.
FreshMeansRecent ==
  answer = "fresh" => shown.vbus.age < FaultMs /\ shown.ntc.age < FaultMs

\* Once the disturbances are over (no recalibration, no overrun, no conversion
\* that fails to end) samples are delivered again and again: no state that a
\* timeout, an aborted conversion or a stop left behind is a dead end.
Undisturbed == <>[][~Convert(TRUE) /\ ~\E b \in BOOLEAN : Recalibrate(b)]_vars
ConversionsEnd == <>[](adstart => latest.age <= ConvMs)
Recovers == Undisturbed /\ ConversionsEnd => []<>(sample # NoSample)
===============================================================================
