---------------------------- MODULE SensorProofs ----------------------------
(***************************************************************************)
(* VBUS and temperature for every width of the clock, every deadline and   *)
(* every conversion time. A wrapped age is the true one as long as the     *)
(* true one stays below ClockMod, so the invariant carries, for every      *)
(* stamp the sequence may still use, a bound on its age: Sequenced for the *)
(* conversions in progress, Waiting for the sample that publish_bus has    *)
(* not yet seen, Stamped for what is published.                            *)
(***************************************************************************)
EXTENDS BusSampler, Encoder, TLAPS

\* The true age t as the history shows it.
Capped(t) == IF t < MaxAge THEN t ELSE MaxAge

\* Both halves of a sample: the right channels, and dated no later than acquired.
Timed(s) ==
  /\ s.vbus.age = Capped(Since(s.at)) /\ s.ntc.age <= s.vbus.age
  /\ s.vbus.channel = "vbus" /\ s.ntc.channel = "ntc"

\* What the data register will hold, by the phase.
Converts ==
  /\ phase # "Idle" => ~(adstart /\ eos)
  /\ phase = "Vbus" => latest.channel = "vbus"
  /\ phase = "Ntc" => latest.channel = "ntc" /\ vbus.channel = "vbus" /\ latest.age <= vbus.age

\* A conversion that ended, ended in time and is taken in time; one that did not end
\* may leave a stamp of any age.
Sequenced ==
  /\ phase = "Vbus" =>
       /\ latest.age < MaxAge => Since(started) = latest.age
       /\ eos => Since(started) <= ConvMs + polled /\ latest.age = Capped(Since(started))
  /\ phase = "Ntc" =>
       /\ latest.age <= ConvMs => /\ Since(started) <= FaultMs - 1 + latest.age
                                  /\ vbus.age = Since(started)
       /\ eos => /\ Since(started) <= FaultMs - 1 + ConvMs + polled
                 /\ vbus.age = Capped(Since(started))

Waiting ==
  sample # NoSample =>
    sample \in Samples /\ Timed(sample) /\ Since(sample.at) <= FaultMs - 1 + polled

Stamped ==
  /\ shown # NoSample =>
       shown \in Samples /\ shown.vbus.channel = "vbus" /\ shown.ntc.channel = "ntc"
  /\ stamp # None =>
       /\ shown # NoSample /\ shown.at = stamp /\ Timed(shown)
       /\ Since(stamp) <= FaultMs - 1 + MaxDelay + silence
  /\ answer = "fresh" =>
       shown # NoSample /\ shown.vbus.age < FaultMs /\ shown.ntc.age < FaultMs

BusInv == TypeOK /\ Converts /\ Sequenced /\ Waiting /\ Stamped

-------------------------------------------------------------------------------
\* A wrapped difference of two clock values, and what one tick does to it.
LEMMA WrappedDifference ==
  ASSUME NEW m \in Nat, m > 0, NEW n \in 0 .. m - 1, NEW t \in 0 .. m - 1
  PROVE  (n - t) % m = IF t <= n THEN n - t ELSE n - t + m
OBVIOUS

LEMMA NextValue ==
  ASSUME NEW m \in Nat, m > 0, NEW n \in 0 .. m - 1
  PROVE  (n + 1) % m = IF n = m - 1 THEN 0 ELSE n + 1
OBVIOUS

LEMMA Constants ==
  /\ ClockMod \in Nat /\ FaultMs \in Nat /\ MaxDelay \in Nat /\ ConvMs \in Nat /\ MaxSilence \in Nat
  /\ ClockMod > 0 /\ FaultMs > 0 /\ MaxDelay > 0 /\ ConvMs > 0 /\ MaxSilence > 0
  /\ FaultMs + ConvMs + MaxDelay < ClockMod /\ FaultMs + MaxDelay + MaxSilence <= ClockMod
  /\ MaxAge = FaultMs + ConvMs
PROOF
<1>1. {ClockMod, FaultMs, MaxDelay, ConvMs, MaxSilence} \subseteq Nat \ {0}
  BY BusAssumption
<1>2. /\ ClockMod \in Nat \ {0} /\ FaultMs \in Nat \ {0} /\ MaxDelay \in Nat \ {0}
      /\ ConvMs \in Nat \ {0} /\ MaxSilence \in Nat \ {0}
  BY <1>1
<1>3. 2 * FaultMs + ConvMs + MaxDelay <= ClockMod /\ FaultMs + MaxDelay + MaxSilence <= ClockMod
  BY BusAssumption
<1>4. FaultMs + ConvMs + MaxDelay < ClockMod
  BY <1>2, <1>3
<1>. QED BY <1>2, <1>3, <1>4 DEF MaxAge

LEMMA SinceRange ==
  ASSUME now \in Clock, NEW t \in Clock
  PROVE  Since(t) \in Clock
BY Constants, WrappedDifference DEF Since, Clock

LEMMA SinceNow ==
  ASSUME now \in Clock
  PROVE  Since(now) = 0
BY Constants, WrappedDifference DEF Since, Clock

\* Before it wraps, an age grows by one with each tick.
LEMMA SinceTicks ==
  ASSUME now \in Clock, NEW t \in Clock, now' = NextClock, Since(t) + 1 < ClockMod
  PROVE  ((now' - t) % ClockMod) = Since(t) + 1
PROOF
<1>1. ClockMod \in Nat /\ ClockMod > 0
  BY Constants
<1>2. now' = IF now = ClockMod - 1 THEN 0 ELSE now + 1
  BY <1>1, NextValue DEF NextClock, Clock
<1>3. now' \in 0 .. ClockMod - 1 /\ now \in 0 .. ClockMod - 1 /\ t \in 0 .. ClockMod - 1
  BY <1>1, <1>2 DEF Clock
<1>4. ((now' - t) % ClockMod) = IF t <= now' THEN now' - t ELSE now' - t + ClockMod
  BY <1>1, <1>3, WrappedDifference
<1>5. Since(t) = IF t <= now THEN now - t ELSE now - t + ClockMod
  BY <1>1, <1>3, WrappedDifference DEF Since
<1>. QED BY <1>1, <1>2, <1>3, <1>4, <1>5

\* A sample is told from none by its time.
LEMMA SomeSample ==
  ASSUME NEW s \in Samples
  PROVE  s # NoSample /\ s.at \in Clock /\ s.vbus \in Results /\ s.ntc \in Results
PROOF
<1>1. s.at \in Clock /\ s.vbus \in Results /\ s.ntc \in Results
  BY DEF Samples
<1>2. s.at # None
  BY <1>1, Constants DEF Clock, None
<1>. QED BY <1>1, <1>2 DEF NoSample

LEMMA OlderFits ==
  ASSUME NEW r \in Results
  PROVE  /\ Older(r) \in Results /\ Older(r).channel = r.channel
         /\ r.channel # "shunt" => Older(r).age = IF r.age < MaxAge THEN r.age + 1 ELSE r.age
PROOF
<1>1. MaxAge \in Nat
  BY Constants
<1>2. CASE r.channel = "shunt"
  BY <1>2 DEF Older
<1>3. CASE r.channel # "shunt"
  <2>1. Older(r) = [r EXCEPT !.age = IF @ < MaxAge THEN @ + 1 ELSE @]
    BY <1>3 DEF Older
  <2>2. r.age \in 0 .. MaxAge
    BY DEF Results
  <2>3. (IF r.age < MaxAge THEN r.age + 1 ELSE r.age) \in 0 .. MaxAge
    BY <1>1, <2>2
  <2>. QED BY <1>3, <2>1, <2>3 DEF Results
<1>. QED BY <1>2, <1>3

LEMMA OlderSampleFits ==
  ASSUME NEW s \in Samples
  PROVE  /\ OlderSample(s) \in Samples /\ OlderSample(s).at = s.at
         /\ OlderSample(s).vbus = Older(s.vbus) /\ OlderSample(s).ntc = Older(s.ntc)
PROOF
<1>1. OlderSample(s) = [s EXCEPT !.vbus = Older(@), !.ntc = Older(@)]
  BY SomeSample DEF OlderSample
<1>2. Older(s.vbus) \in Results /\ Older(s.ntc) \in Results
  BY SomeSample, OlderFits
<1>. QED BY <1>1, <1>2 DEF Samples

\* A tick keeps a dated sample dated, as long as its age does not wrap.
LEMMA TimedTicks ==
  ASSUME now \in Clock, now' = NextClock, NEW s \in Samples, Timed(s), Since(s.at) + 1 < ClockMod
  PROVE  LET o == OlderSample(s)
         IN  /\ o.vbus.age = Capped((now' - o.at) % ClockMod) /\ o.ntc.age <= o.vbus.age
             /\ o.vbus.channel = "vbus" /\ o.ntc.channel = "ntc"
PROOF
<1>. DEFINE o == OlderSample(s)
<1>1. /\ s.at \in Clock /\ s.vbus \in Results /\ s.ntc \in Results
      /\ s.vbus.channel = "vbus" /\ s.ntc.channel = "ntc"
  BY SomeSample DEF Timed
<1>2. /\ o.at = s.at /\ o.vbus = Older(s.vbus) /\ o.ntc = Older(s.ntc)
  BY OlderSampleFits
<1>. HIDE DEF o
<1>3. /\ o.vbus.channel = "vbus" /\ o.ntc.channel = "ntc"
      /\ o.vbus.age = IF s.vbus.age < MaxAge THEN s.vbus.age + 1 ELSE s.vbus.age
      /\ o.ntc.age = IF s.ntc.age < MaxAge THEN s.ntc.age + 1 ELSE s.ntc.age
  BY <1>1, <1>2, OlderFits
<1>4. ((now' - o.at) % ClockMod) = Since(s.at) + 1
  BY <1>1, <1>2, SinceTicks
<1>5. s.vbus.age \in 0 .. MaxAge /\ s.ntc.age \in 0 .. MaxAge /\ Since(s.at) \in Nat /\ MaxAge \in Nat
  BY <1>1, SinceRange, Constants DEF Results, Clock
<1>6. s.vbus.age = Capped(Since(s.at)) /\ s.ntc.age <= s.vbus.age
  BY DEF Timed
<1>7. o.vbus.age = Capped(Since(s.at) + 1)
  BY <1>3, <1>5, <1>6 DEF Capped
<1>8. o.ntc.age <= o.vbus.age
  BY <1>3, <1>5, <1>6
<1>. QED BY <1>3, <1>4, <1>7, <1>8 DEF o

-------------------------------------------------------------------------------
LEMMA BusInitHolds == Init => BusInv
PROOF
<1>. SUFFICES ASSUME Init
              PROVE  BusInv
  OBVIOUS
<1>1. NoResult \in Results /\ 0 \in Clock /\ 0 \in 0 .. MaxDelay /\ 0 \in 0 .. MaxSilence
  BY Constants DEF NoResult, Results, Clock
<1>2. TypeOK
  BY <1>1 DEF Init, TypeOK
<1>. QED BY <1>2 DEF Init, BusInv, Converts, Sequenced, Waiting, Stamped

LEMMA TickKeeps ==
  ASSUME BusInv, Tick
  PROVE  BusInv'
PROOF
<1>0. TypeOK /\ Converts /\ Sequenced /\ Waiting /\ Stamped
  BY DEF BusInv
<1>1. /\ now \in Clock /\ now' = NextClock /\ polled < MaxDelay /\ polled' = polled + 1
      /\ polled \in 0 .. MaxDelay /\ silence \in 0 .. MaxSilence
      /\ answer' = "none"
      /\ vbus' = Older(vbus) /\ latest' = Older(latest)
      /\ sample' = OlderSample(sample) /\ shown' = OlderSample(shown)
      /\ UNCHANGED <<phase, started, adstart, eos, ovr, stamp>>
      /\ vbus \in Results /\ latest \in Results /\ started \in Clock
  BY <1>0 DEF Tick, TypeOK
<1>2. /\ stamp # None => silence < MaxSilence /\ silence' = silence + 1
      /\ silence' \in 0 .. MaxSilence
  BY <1>0, <1>1, Constants DEF Tick, TypeOK
<1>3. now' \in Clock
  BY <1>1, NextValue, Constants DEF Clock, NextClock
<1>4. /\ vbus' \in Results /\ latest' \in Results
      /\ vbus'.channel = vbus.channel /\ latest'.channel = latest.channel
      /\ vbus.channel = "vbus" => vbus'.age = IF vbus.age < MaxAge THEN vbus.age + 1 ELSE vbus.age
      /\ latest.channel \in {"vbus", "ntc"} =>
           latest'.age = IF latest.age < MaxAge THEN latest.age + 1 ELSE latest.age
  BY <1>1, OlderFits
<1>5. /\ sample = NoSample => sample' = NoSample
      /\ shown = NoSample => shown' = NoSample
      /\ sample # NoSample => sample' \in Samples
      /\ shown # NoSample => shown' \in Samples
  BY <1>0, <1>1, OlderSampleFits DEF OlderSample, Waiting, Stamped
<1>6. vbus.age \in 0 .. MaxAge /\ latest.age \in 0 .. MaxAge
  BY <1>1 DEF Results
<1>7. Since(started) \in Nat
  BY <1>1, SinceRange, Constants DEF Clock
<1>8. Since(started) + 1 < ClockMod => Since(started)' = Since(started) + 1
  BY <1>1, SinceTicks DEF Since
<1>a. TypeOK'
  BY <1>0, <1>1, <1>2, <1>3, <1>4, <1>5, Constants DEF TypeOK
<1>b. Converts'
  BY <1>0, <1>1, <1>4, <1>6, Constants DEF Converts
<1>c. Sequenced'
  <2>1. ASSUME phase = "Vbus"
        PROVE  /\ latest'.age < MaxAge => Since(started)' = latest'.age
               /\ eos => Since(started)' <= ConvMs + polled' /\ latest'.age = Capped(Since(started)')
    <3>1. latest'.age = IF latest.age < MaxAge THEN latest.age + 1 ELSE latest.age
      BY <1>0, <1>4, <2>1 DEF Converts
    <3>2. latest.age < MaxAge => Since(started) = latest.age
      BY <1>0, <2>1 DEF Sequenced
    <3>3. ASSUME latest'.age < MaxAge
          PROVE  Since(started)' = latest'.age
      BY <1>6, <1>8, <3>1, <3>2, <3>3, Constants
    <3>4. ASSUME eos
          PROVE  Since(started)' <= ConvMs + polled' /\ latest'.age = Capped(Since(started)')
      <4>1. Since(started) <= ConvMs + polled /\ latest.age = Capped(Since(started))
        BY <1>0, <2>1, <3>4 DEF Sequenced
      <4>2. Since(started)' = Since(started) + 1
        BY <1>1, <1>7, <1>8, <4>1, Constants
      <4>. QED BY <1>1, <1>6, <1>7, <3>1, <4>1, <4>2, Constants DEF Capped
    <3>. QED BY <3>3, <3>4
  <2>2. ASSUME phase = "Ntc"
        PROVE  /\ latest'.age <= ConvMs =>
                    Since(started)' <= FaultMs - 1 + latest'.age /\ vbus'.age = Since(started)'
               /\ eos => /\ Since(started)' <= FaultMs - 1 + ConvMs + polled'
                         /\ vbus'.age = Capped(Since(started)')
    <3>1. /\ latest'.age = IF latest.age < MaxAge THEN latest.age + 1 ELSE latest.age
          /\ vbus'.age = IF vbus.age < MaxAge THEN vbus.age + 1 ELSE vbus.age
      BY <1>0, <1>4, <2>2 DEF Converts
    <3>2. ASSUME latest'.age <= ConvMs
          PROVE  Since(started)' <= FaultMs - 1 + latest'.age /\ vbus'.age = Since(started)'
      <4>1. latest.age < ConvMs /\ latest'.age = latest.age + 1
        BY <1>6, <3>1, <3>2, Constants
      <4>2. Since(started) <= FaultMs - 1 + latest.age /\ vbus.age = Since(started)
        BY <1>0, <1>6, <2>2, <4>1, Constants DEF Sequenced
      <4>. QED BY <1>6, <1>7, <1>8, <3>1, <4>1, <4>2, Constants
    <3>3. ASSUME eos
          PROVE  Since(started)' <= FaultMs - 1 + ConvMs + polled' /\ vbus'.age = Capped(Since(started)')
      <4>1. Since(started) <= FaultMs - 1 + ConvMs + polled /\ vbus.age = Capped(Since(started))
        BY <1>0, <2>2, <3>3 DEF Sequenced
      <4>2. Since(started)' = Since(started) + 1
        BY <1>1, <1>7, <1>8, <4>1, Constants
      <4>. QED BY <1>1, <1>6, <1>7, <3>1, <4>1, <4>2, Constants DEF Capped
    <3>. QED BY <3>2, <3>3
  <2>. QED BY <1>1, <2>1, <2>2 DEF Sequenced, Capped
<1>d. Waiting'
  <2>. SUFFICES ASSUME sample # NoSample
                PROVE  /\ sample' \in Samples /\ Timed(sample)'
                       /\ Since(sample.at)' <= FaultMs - 1 + polled'
    BY <1>5 DEF Waiting
  <2>1. sample \in Samples /\ Timed(sample) /\ Since(sample.at) <= FaultMs - 1 + polled
    BY <1>0 DEF Waiting
  <2>2. Since(sample.at) \in Nat /\ sample.at \in Clock
    BY <1>1, <2>1, SinceRange, SomeSample, Constants DEF Clock
  <2>3. Since(sample.at) + 1 < ClockMod
    BY <1>1, <2>1, <2>2, Constants
  <2>4. Timed(sample)'
    BY <1>1, <2>1, <2>3, TimedTicks DEF Timed, Since, Capped
  <2>5. sample'.at = sample.at
    BY <1>1, <2>1, OlderSampleFits
  <2>6. Since(sample.at)' = Since(sample.at) + 1
    BY <1>1, <2>2, <2>3, <2>5, SinceTicks DEF Since
  <2>. QED BY <1>1, <1>5, <2>1, <2>2, <2>4, <2>6, Constants
<1>e. Stamped'
  <2>1. ASSUME shown # NoSample
        PROVE  shown' \in Samples /\ shown'.vbus.channel = "vbus" /\ shown'.ntc.channel = "ntc"
    <3>1. shown \in Samples /\ shown.vbus.channel = "vbus" /\ shown.ntc.channel = "ntc"
      BY <1>0, <2>1 DEF Stamped
    <3>2. shown'.vbus = Older(shown.vbus) /\ shown'.ntc = Older(shown.ntc) /\ shown' \in Samples
      BY <1>1, <3>1, OlderSampleFits
    <3>. QED BY <3>1, <3>2, SomeSample, OlderFits
  <2>2. ASSUME stamp # None
        PROVE  /\ shown' # NoSample /\ shown'.at = stamp /\ Timed(shown)'
               /\ Since(stamp)' <= FaultMs - 1 + MaxDelay + silence'
    <3>1. /\ shown \in Samples /\ shown.at = stamp /\ Timed(shown)
          /\ Since(stamp) <= FaultMs - 1 + MaxDelay + silence
      BY <1>0, <2>2 DEF Stamped
    <3>2. Since(stamp) \in Nat /\ stamp \in Clock
      BY <1>1, <3>1, SinceRange, SomeSample, Constants DEF Clock
    <3>3. Since(stamp) + 1 < ClockMod
      BY <1>1, <1>2, <2>2, <3>1, <3>2, Constants
    <3>4. Timed(shown)'
      BY <1>1, <3>1, <3>3, TimedTicks DEF Timed, Since, Capped
    <3>5. shown'.at = shown.at /\ shown' # NoSample
      BY <1>1, <3>1, OlderSampleFits, SomeSample
    <3>6. Since(stamp)' = Since(stamp) + 1
      BY <1>1, <3>2, <3>3, SinceTicks DEF Since
    <3>. QED BY <1>1, <1>2, <2>2, <3>1, <3>2, <3>4, <3>5, <3>6, Constants
  <2>. QED BY <1>1, <1>5, <2>1, <2>2 DEF Stamped
<1>. QED BY <1>a, <1>b, <1>c, <1>d, <1>e DEF BusInv

LEMMA ConvertKeeps ==
  ASSUME BusInv, NEW overrun \in BOOLEAN, Convert(overrun)
  PROVE  BusInv'
PROOF
<1>0. TypeOK /\ Converts /\ Sequenced /\ Waiting /\ Stamped
  BY DEF BusInv
<1>1. /\ adstart /\ latest.age <= ConvMs /\ adstart' = FALSE /\ eos' = TRUE /\ ovr' = overrun
      /\ UNCHANGED <<now, phase, started, vbus, latest, sample, stamp, shown, answer, polled, silence>>
  BY DEF Convert, sequencer, telemetry
<1>2. TypeOK'
  BY <1>0, <1>1 DEF TypeOK
<1>3. Converts'
  BY <1>0, <1>1 DEF Converts
<1>4. Sequenced'
  <2>1. latest.age \in 0 .. MaxAge /\ polled \in Nat
    BY <1>0, Constants DEF TypeOK, Results
  <2>2. Since(started)' = Since(started)
    BY <1>1 DEF Since
  <2>3. latest.age < MaxAge
    BY <1>1, <2>1, Constants
  <2>4. ASSUME phase = "Vbus"
        PROVE  Since(started) <= ConvMs + polled /\ latest.age = Capped(Since(started))
    <3>1. Since(started) = latest.age
      BY <1>0, <2>3, <2>4 DEF Sequenced
    <3>. QED BY <1>1, <2>1, <2>3, <3>1, Constants DEF Capped
  <2>5. ASSUME phase = "Ntc"
        PROVE  /\ Since(started) <= FaultMs - 1 + ConvMs + polled
               /\ vbus.age = Capped(Since(started))
    <3>1. Since(started) <= FaultMs - 1 + latest.age /\ vbus.age = Since(started)
      BY <1>0, <1>1, <2>5 DEF Sequenced
    <3>2. Since(started) \in Nat
      BY <1>0, SinceRange, Constants DEF TypeOK, Clock
    <3>. QED BY <1>1, <2>1, <3>1, <3>2, Constants DEF Capped
  <2>. QED BY <1>0, <1>1, <2>2, <2>3, <2>4, <2>5 DEF Sequenced, Capped
<1>5. Waiting' /\ Stamped'
  BY <1>0, <1>1 DEF Waiting, Stamped, Timed, Since, Capped
<1>. QED BY <1>2, <1>3, <1>4, <1>5 DEF BusInv

\* A sequence that starts or starts over is dated now.
LEMMA RestartKeeps ==
  ASSUME BusInv, started' = now, phase' = "Vbus", vbus' = NoResult, StartRegular("vbus"),
         polled' = 0, UNCHANGED <<now, telemetry, silence>>
  PROVE  /\ Converts' /\ Sequenced' /\ Stamped'
         /\ sample' \in {NoSample} \cup Samples => TypeOK'
PROOF
<1>0. TypeOK /\ Converts /\ Sequenced /\ Waiting /\ Stamped
  BY DEF BusInv
<1>1. /\ adstart' = TRUE /\ eos' = FALSE /\ ovr' = FALSE /\ latest' = [channel |-> "vbus", age |-> 0]
  BY DEF StartRegular
<1>2. latest'.channel = "vbus" /\ latest'.age = 0
  BY <1>1
<1>3. Converts'
  BY <1>1, <1>2 DEF Converts
<1>4. Since(started)' = 0
  <2>1. now \in Clock
    BY <1>0 DEF TypeOK
  <2>. QED BY <2>1, SinceNow DEF Since
<1>5. Sequenced'
  BY <1>1, <1>2, <1>4 DEF Sequenced
<1>6. Stamped'
  BY <1>0 DEF Stamped, Timed, Since, Capped, telemetry
<1>7. latest' \in Results /\ vbus' \in Results /\ polled' \in 0 .. MaxDelay
  BY <1>1, Constants DEF Results, NoResult
<1>8. sample' \in {NoSample} \cup Samples => TypeOK'
  BY <1>0, <1>1, <1>7 DEF TypeOK, telemetry
<1>. QED BY <1>3, <1>5, <1>6, <1>8

LEMMA PollKeeps ==
  ASSUME BusInv, Poll
  PROVE  BusInv'
PROOF
<1>0. TypeOK /\ Converts /\ Sequenced /\ Waiting /\ Stamped
  BY DEF BusInv
<1>1. sample = NoSample /\ polled' = 0 /\ UNCHANGED <<now, telemetry, silence>> /\ 0 \in 0 .. MaxDelay
  BY Constants DEF Poll
<1>2. Stamped'
  BY <1>0, <1>1 DEF Stamped, Timed, Since, Capped, telemetry
<1>3. CASE Wait
  <2>1. UNCHANGED <<phase, started, vbus, adstart, eos, ovr, latest, sample>>
        /\ (adstart \/ (phase # "Idle" /\ ~eos))
    BY <1>3 DEF Wait, sequencer, adc
  <2>2. TypeOK' /\ Converts' /\ Waiting'
    BY <1>0, <1>1, <2>1 DEF TypeOK, Converts, Waiting, telemetry
  <2>3. phase # "Idle" => ~eos
    BY <1>0, <2>1 DEF Converts
  <2>4. Sequenced'
    BY <1>0, <1>1, <2>1, <2>3 DEF Sequenced, Since, Capped
  <2>. QED BY <1>2, <2>2, <2>4 DEF BusInv
<1>4. CASE Begin
  <2>1. started' = now /\ phase' = "Vbus" /\ vbus' = NoResult /\ StartRegular("vbus") /\ sample' = NoSample
    BY <1>1, <1>4 DEF Begin
  <2>2. Waiting'
    BY <2>1 DEF Waiting
  <2>. QED BY <1>1, <2>1, <2>2, RestartKeeps DEF BusInv
<1>5. CASE ~adstart /\ TakeVbus
  <2>1. /\ phase = "Vbus" /\ Since(started) < FaultMs /\ eos
        /\ vbus' = latest /\ phase' = "Ntc" /\ UNCHANGED <<started, sample>>
        /\ adstart' = TRUE /\ eos' = FALSE /\ ovr' = FALSE /\ latest' = [channel |-> "ntc", age |-> 0]
    BY <1>0, <1>5, SinceRange, Constants DEF TakeVbus, StartOver, StartRegular, TypeOK, Clock
  <2>2. latest'.channel = "ntc" /\ latest'.age = 0 /\ latest' \in Results
    BY <2>1, Constants DEF Results
  <2>3. latest \in Results /\ latest.channel = "vbus" /\ latest.age = Capped(Since(started))
    BY <1>0, <2>1 DEF TypeOK, Converts, Sequenced
  <2>4. Since(started) \in Nat
    BY <1>0, SinceRange, Constants DEF TypeOK, Clock
  <2>5. TypeOK'
    BY <1>0, <1>1, <2>1, <2>2, <2>3 DEF TypeOK, telemetry
  <2>6. Converts'
    BY <2>1, <2>2, <2>3, Constants DEF Converts, Results
  <2>7. vbus'.age = Since(started) /\ Since(started)' = Since(started)
    BY <1>1, <2>1, <2>3, <2>4, Constants DEF Capped, Since
  <2>8. Sequenced'
    BY <2>1, <2>2, <2>4, <2>7, Constants DEF Sequenced
  <2>9. Waiting'
    BY <1>1, <2>1 DEF Waiting
  <2>. QED BY <1>2, <2>5, <2>6, <2>8, <2>9 DEF BusInv
<1>6. CASE ~adstart /\ TakeNtc
  <2>1. /\ phase = "Ntc" /\ Since(started) < FaultMs /\ eos
        /\ sample' = [at |-> started, vbus |-> vbus, ntc |-> latest]
        /\ started' = now /\ phase' = "Vbus" /\ vbus' = NoResult /\ StartRegular("vbus")
    BY <1>0, <1>6, SinceRange, Constants DEF TakeNtc, StartOver, SampleTime, TypeOK, Clock
  <2>2. /\ started \in Clock /\ vbus \in Results /\ latest \in Results
        /\ vbus.channel = "vbus" /\ latest.channel = "ntc" /\ latest.age <= vbus.age
        /\ vbus.age = Capped(Since(started))
    BY <1>0, <2>1 DEF TypeOK, Converts, Sequenced
  <2>3. sample' \in Samples /\ sample'.at = started /\ sample'.vbus = vbus /\ sample'.ntc = latest
    BY <2>1, <2>2 DEF Samples
  <2>4. Since(started) \in Nat
    BY <1>0, SinceRange, Constants DEF TypeOK, Clock
  <2>5. Since(sample.at)' = Since(started)
    BY <1>1, <2>3 DEF Since
  <2>6. Timed(sample)'
    BY <2>2, <2>3, <2>5 DEF Timed, Capped
  <2>7. Waiting'
    BY <1>1, <2>1, <2>3, <2>4, <2>5, <2>6, Constants DEF Waiting
  <2>. QED BY <1>1, <2>1, <2>3, <2>7, RestartKeeps DEF BusInv
<1>. QED BY <1>3, <1>4, <1>5, <1>6 DEF Poll

LEMMA PublishKeeps ==
  ASSUME BusInv, NEW finite \in BOOLEAN, Publish(finite)
  PROVE  BusInv'
PROOF
<1>0. TypeOK /\ Converts /\ Sequenced /\ Waiting /\ Stamped
  BY DEF BusInv
<1>1. /\ sample # NoSample /\ shown' = sample /\ sample' = NoSample /\ answer' = "none" /\ silence' = 0
      /\ stamp' = IF finite THEN sample.at ELSE None
      /\ UNCHANGED <<now, phase, started, vbus, adstart, eos, ovr, latest, polled>>
  BY DEF Publish, sequencer, adc
<1>2. sample \in Samples /\ Timed(sample) /\ Since(sample.at) <= FaultMs - 1 + polled
  BY <1>0, <1>1 DEF Waiting
<1>3. sample.at \in Clock /\ 0 \in 0 .. MaxSilence
  BY <1>2, SomeSample, Constants
<1>4. TypeOK'
  BY <1>0, <1>1, <1>2, <1>3 DEF TypeOK
<1>5. Converts' /\ Sequenced' /\ Waiting'
  BY <1>0, <1>1 DEF Converts, Sequenced, Waiting, Since, Capped
<1>6. Stamped'
  <2>1. Since(sample.at) \in Nat /\ polled \in 0 .. MaxDelay
    BY <1>0, <1>3, SinceRange, Constants DEF TypeOK, Clock
  <2>2. Timed(shown)'
    BY <1>1, <1>2 DEF Timed, Since, Capped
  <2>3. stamp' # None => stamp' = sample.at /\ Since(stamp)' = Since(sample.at)
    BY <1>1 DEF Since
  <2>4. stamp' # None => Since(stamp)' <= FaultMs - 1 + MaxDelay + silence'
    BY <1>1, <1>2, <2>1, <2>3, Constants
  <2>. QED BY <1>1, <1>2, <2>2, <2>3, <2>4, SomeSample DEF Stamped, Timed
<1>. QED BY <1>4, <1>5, <1>6 DEF BusInv

LEMMA SnapshotKeeps ==
  ASSUME BusInv, Snapshot
  PROVE  BusInv'
PROOF
<1>0. TypeOK /\ Converts /\ Sequenced /\ Waiting /\ Stamped
  BY DEF BusInv
<1>1. /\ UNCHANGED <<now, phase, started, vbus, adstart, eos, ovr, latest, sample, shown, polled>>
      /\ silence' = 0
  BY DEF Snapshot, sequencer, adc
<1>2. 0 \in 0 .. MaxSilence
  BY Constants
<1>3. Converts' /\ Sequenced' /\ Waiting'
  BY <1>0, <1>1 DEF Converts, Sequenced, Waiting, Timed, Since, Capped
<1>4. CASE Fresh(stamp)
  <2>1. answer' = "fresh" /\ stamp' = stamp /\ stamp # None /\ Since(stamp) < FaultMs
    BY <1>4 DEF Snapshot, Fresh
  <2>2. TypeOK'
    BY <1>0, <1>1, <1>2, <2>1 DEF TypeOK
  <2>3. stamp \in Clock /\ Since(stamp) \in Nat
    BY <1>0, <2>1, SinceRange, Constants DEF TypeOK, Clock
  <2>4. shown # NoSample /\ shown \in Samples /\ shown.at = stamp /\ Timed(shown)
    BY <1>0, <2>1 DEF Stamped
  <2>5. shown.vbus.age < FaultMs /\ shown.ntc.age < FaultMs
    <3>1. shown.vbus.age = Since(stamp)
      BY <2>1, <2>3, <2>4, Constants DEF Timed, Capped
    <3>2. shown.ntc.age \in 0 .. MaxAge
      BY <2>4, SomeSample DEF Results
    <3>. QED BY <2>1, <2>3, <2>4, <3>1, <3>2, Constants DEF Timed
  <2>6. Since(stamp) <= FaultMs - 1 + MaxDelay + 0
    BY <2>1, <2>3, Constants
  <2>7. Timed(shown)' /\ Since(stamp)' = Since(stamp)
    BY <1>1, <2>1, <2>4 DEF Timed, Since, Capped
  <2>8. Stamped'
    BY <1>0, <1>1, <2>1, <2>4, <2>5, <2>6, <2>7 DEF Stamped
  <2>. QED BY <1>3, <2>2, <2>8 DEF BusInv
<1>5. CASE ~Fresh(stamp)
  <2>1. answer' = "stale" /\ stamp' = None
    BY <1>5 DEF Snapshot
  <2>2. TypeOK'
    BY <1>0, <1>1, <1>2, <2>1 DEF TypeOK
  <2>3. Stamped'
    BY <1>0, <1>1, <2>1 DEF Stamped
  <2>. QED BY <1>3, <2>2, <2>3 DEF BusInv
<1>. QED BY <1>4, <1>5

LEMMA RecalibrateKeeps ==
  ASSUME BusInv, NEW stopped \in BOOLEAN, Recalibrate(stopped)
  PROVE  BusInv'
PROOF
<1>0. TypeOK /\ Converts /\ Sequenced /\ Waiting /\ Stamped
  BY DEF BusInv
<1>1. /\ sample = NoSample /\ sample' = NoSample /\ stamp' = None /\ answer' = "none"
      /\ UNCHANGED <<now, shown, polled, silence>>
  BY DEF Recalibrate
<1>2. Waiting' /\ Stamped'
  BY <1>0, <1>1 DEF Waiting, Stamped
<1>3. CASE /\ adstart' = FALSE /\ eos' \in BOOLEAN /\ ovr' = FALSE /\ latest' = NoResult
           /\ phase' = "Idle" /\ UNCHANGED <<started, vbus>>
  <2>1. NoResult \in Results
    BY Constants DEF NoResult, Results
  <2>2. TypeOK'
    BY <1>0, <1>1, <1>3, <2>1 DEF TypeOK
  <2>3. Converts' /\ Sequenced'
    BY <1>3 DEF Converts, Sequenced
  <2>. QED BY <1>2, <2>2, <2>3 DEF BusInv
<1>4. CASE /\ adstart' \in {FALSE, adstart}
           /\ UNCHANGED <<phase, started, vbus, eos, ovr, latest>>
  <2>1. TypeOK'
    BY <1>0, <1>1, <1>4 DEF TypeOK
  <2>2. Converts'
    <3>1. CASE adstart' = FALSE
      BY <1>0, <1>4, <3>1 DEF Converts
    <3>2. CASE adstart' = adstart
      BY <1>0, <1>4, <3>2 DEF Converts
    <3>. QED BY <1>4, <3>1, <3>2
  <2>3. Sequenced'
    BY <1>0, <1>1, <1>4 DEF Sequenced, Since, Capped
  <2>. QED BY <1>2, <2>1, <2>2, <2>3 DEF BusInv
<1>. QED BY <1>3, <1>4 DEF Recalibrate, PhaseReset, sequencer, adc

LEMMA BusStepKeeps == BusInv /\ [Next]_vars => BusInv'
PROOF
<1>. SUFFICES ASSUME BusInv, [Next]_vars
              PROVE  BusInv'
  OBVIOUS
<1>1. CASE UNCHANGED vars
  BY <1>1 DEF vars, sequencer, adc, telemetry, BusInv, TypeOK, Converts, Sequenced, Waiting, Stamped,
              Timed, Since, Capped
<1>2. CASE Next
  BY <1>2, TickKeeps, PollKeeps, SnapshotKeeps, ConvertKeeps, PublishKeeps, RecalibrateKeeps DEF Next
<1>. QED BY <1>1, <1>2

LEMMA BusInvariant == Spec => []BusInv
BY BusInitHolds, BusStepKeeps, PTL DEF Spec

-------------------------------------------------------------------------------
\* The clock, the sequence, the stamps and the ages of poll_bus and publish_bus keep
\* their types.
THEOREM BusTypes == Spec => []TypeOK
PROOF
<1>1. BusInv => TypeOK
  BY DEF BusInv
<1>. QED BY <1>1, BusInvariant, PTL

\* poll_bus and recalibrate: what is published as VBUS was converted from VBUS and
\* what is published as temperature from the NTC, whatever conversions were cut off.
THEOREM ChannelsAreRight == Spec => []RightChannel
PROOF
<1>1. BusInv => RightChannel
  BY DEF BusInv, Stamped, RightChannel
<1>. QED BY <1>1, BusInvariant, PTL

\* is_fresh: no wrap of the clock and no delay of the publication makes a sample fresh
\* of which either half was acquired BUS_FAULT_MS ago.
THEOREM FreshIsRecent == Spec => []FreshMeansRecent
PROOF
<1>1. BusInv => FreshMeansRecent
  BY DEF BusInv, Stamped, FreshMeansRecent
<1>. QED BY <1>1, BusInvariant, PTL

-------------------------------------------------------------------------------
(***************************************************************************)
(* The rotor angle, for every resolution of the counter, every width of    *)
(* the clock and every speed up to half a turn in the limit of a gap.      *)
(* The invariant says how far the rotor, and the angle a read in progress  *)
(* has latched, can be from each earlier sample the code still uses, and   *)
(* gives each stamp the time it was made at, which has not gone round.     *)
(***************************************************************************)
\* The whole clock, the true age of the time t, and how far the rotor gets in d.
ClockUs == MsMod * MsUs
Passed(t) == (clock - t) % ClockUs
Reach(d) == Speed * d
Within(a, b, d) == a - b <= d /\ b - a <= d
Bounded(age, bound) == IF age < bound THEN age ELSE bound

\* What a read in progress has to do with the rotor.
Reading ==
  read # Nothing =>
    /\ read \in Reads /\ read.age <= quiet
    /\ read.step = "latched" => Within(pos, read.pos, Reach(read.age))

\* How far the rotor, and the angle latched since, can be from an earlier sample. An
\* age that is saturated says nothing.
Near(p, r, age, at) ==
  age < MaxReadAge =>
    /\ Within(p, at, Reach(age))
    /\ r # Nothing /\ r.step = "latched" => Within(r.pos, at, Reach(age - r.age + Late))

\* Half a turn fits within the longest accepted gap and the delay of a latch.
CanOutrun == Half <= Reach(MaxGap - 1 + Late)

Followed ==
  track # Nothing =>
    /\ track \in Tracks
    /\ track.raw = track.pos % Counts
    /\ ~track.outrun => track.pos = track.unwrap + track.turns
    /\ track.outrun => CanOutrun
    /\ Near(pos, read, track.age, track.pos)
    /\ read # Nothing => read.age <= track.age

\* A window that is open holds the motion between its first and its last sample, and
\* that sample carries the time t, which has not gone round.
Windows ==
  [previous : {Nothing} \cup Readings, counts : Int, elapsed : 0 .. Window - 1,
   ready : BOOLEAN, origin : Int, took : Int, outrun : BOOLEAN]
Dated(age, us, t) ==
  /\ us = Us(t) /\ Passed(t) <= FaultUs - 1 + quiet /\ age = Bounded(Passed(t), MaxReadAge)
  /\ read # Nothing => read.age <= Passed(t)
Accumulated ==
  /\ window \in Windows /\ window.elapsed = window.took /\ (window.outrun => CanOutrun)
  /\ window.previous = Nothing => window.counts = 0
  /\ window.previous # Nothing =>
       /\ window.previous.raw = window.previous.pos % Counts
       /\ ~window.outrun => window.counts = window.previous.pos - window.origin
       /\ Near(pos, read, window.previous.age, window.previous.pos)
       /\ \E t \in 0 .. ClockUs - 1 : Dated(window.previous.age, window.previous.at, t)

\* What is published carries a time that has not gone round either.
Announced ==
  published # Nothing =>
    /\ published \in Stamps
    /\ \E t \in 0 .. ClockUs - 1 :
         /\ published.ms = Ms(t) /\ published.us = Us(t)
         /\ Passed(t) <= FaultUs - 1 + quiet /\ published.age = Bounded(Passed(t), FaultUs)

EncInv == EncTypeOK /\ Reading /\ Followed /\ Accumulated /\ Announced

-------------------------------------------------------------------------------
LEMMA MultipleAtLeast ==
  ASSUME NEW m \in Nat, NEW z \in Int, z >= 1
  PROVE  m * z >= m
OBVIOUS

LEMMA Factor ==
  ASSUME NEW m \in Int, NEW a \in Int, NEW b \in Int
  PROVE  m * (a + b) = m * a + m * b /\ m * (a - b) = m * a - m * b /\ m * a \in Int
OBVIOUS

LEMMA Division ==
  ASSUME NEW m \in Nat, m > 0, NEW x \in Int
  PROVE  /\ x % m \in 0 .. m - 1 /\ x \div m \in Int
         /\ x = m * (x \div m) + (x % m)
PROOF
<1>. DEFINE q == x \div m
            r == x % m
<1>1. r \in 0 .. m - 1 /\ q \in Int
  OBVIOUS
<1>2. r = x - m * q
  OBVIOUS
<1>3. x = m * q + r
  <2>. HIDE DEF q, r
  <2>1. m * q \in Int
    BY <1>1, Factor
  <2>. QED BY <1>1, <1>2, <2>1
<1>. QED BY <1>1, <1>3, Zenon

\* A number has one remainder.
LEMMA OneRemainder ==
  ASSUME NEW m \in Nat, m > 0, NEW d \in 0 .. m - 1, NEW z \in Int
  PROVE  (d + m * z) % m = d
PROOF
<1>. DEFINE x == d + m * z
<1>1. x \in Int
  BY Factor
<1>2. PICK q \in Int, r \in 0 .. m - 1 : r = x % m /\ x = m * q + r
  <2>. HIDE DEF x
  <2>. QED BY <1>1, Division
<1>3. m * (q - z) = d - r
  BY <1>2
<1>4. q - z = 0
  <2>1. ~(q - z >= 1)
    BY <1>3, MultipleAtLeast
  <2>2. ~(z - q >= 1)
    <3>1. m * (z - q) = r - d
      BY <1>2
    <3>. QED BY <3>1, MultipleAtLeast
  <2>. QED BY <2>1, <2>2
<1>. QED BY <1>2, <1>3, <1>4

-------------------------------------------------------------------------------
LEMMA EncConstants ==
  /\ Counts \in Nat /\ Speed \in Nat /\ Travel \in Nat /\ Late \in Nat /\ Window \in Nat
  /\ MaxGap \in Nat /\ MsUs \in Nat /\ EncFaultMs \in Nat /\ UsMod \in Nat /\ MsMod \in Nat
  /\ MaxQuiet \in Nat /\ FaultUs \in Nat /\ ClockUs \in Nat /\ MaxReadAge \in Nat
  /\ Counts > 0 /\ Window > 0 /\ MaxGap > 0 /\ MsUs > 0 /\ UsMod > 0 /\ MsMod > 0
  /\ MaxUnwrap \in Nat /\ Counts + 2 * Travel <= MaxUnwrap + 1 /\ Speed > 0 /\ Travel > 0
  /\ FaultUs > 0 /\ MaxReadAge = MaxGap + MaxQuiet
  /\ MaxQuiet + FaultUs < UsMod /\ MaxQuiet + FaultUs <= ClockUs - MsUs + 1
PROOF
<1>1. /\ {Counts, Speed, Travel, MaxUnwrap, Window, MaxGap, MsUs, EncFaultMs, UsMod, MsMod} \subseteq Nat \ {0}
      /\ {Late, MaxQuiet} \subseteq Nat
  BY EncoderAssumption
<1>2. /\ Counts \in Nat \ {0} /\ Speed \in Nat \ {0} /\ Travel \in Nat \ {0}
      /\ Window \in Nat \ {0} /\ MaxGap \in Nat \ {0} /\ MsUs \in Nat \ {0}
      /\ EncFaultMs \in Nat \ {0} /\ UsMod \in Nat \ {0} /\ MsMod \in Nat \ {0}
      /\ Late \in Nat /\ MaxQuiet \in Nat /\ MaxUnwrap \in Nat \ {0}
  BY <1>1
<1>3. /\ EncFaultMs * MsUs \in Nat /\ EncFaultMs * MsUs > 0
      /\ MsMod * MsUs \in Nat /\ (MsMod - 1) * MsUs = MsMod * MsUs - MsUs
  BY <1>2
<1>4. /\ MaxQuiet + EncFaultMs * MsUs < UsMod
      /\ MaxQuiet + EncFaultMs * MsUs <= (MsMod - 1) * MsUs + 1
      /\ Counts + 2 * Travel <= MaxUnwrap + 1
  BY EncoderAssumption
<1>. QED BY <1>2, <1>3, <1>4 DEF FaultUs, ClockUs, MaxReadAge

\* The millisecond clock wraps where the count of microseconds wraps.
LEMMA WholeClock == \E k \in Int : ClockUs = UsMod * k
PROOF
<1>1. ClockUs \in Int /\ UsMod \in Nat /\ UsMod > 0
  BY EncConstants
<1>2. ClockUs % UsMod = 0
  BY EncoderAssumption DEF ClockUs
<1>3. ClockUs = UsMod * (ClockUs \div UsMod) + (ClockUs % UsMod) /\ ClockUs \div UsMod \in Int
  BY <1>1, Division
<1>4. UsMod * (ClockUs \div UsMod) \in Int
  BY <1>1, <1>3, Factor
<1>. QED BY <1>2, <1>3, <1>4

LEMMA ReachGrows ==
  ASSUME NEW d \in Int
  PROVE  Reach(d) \in Int /\ Reach(d + 1) = Reach(d) + Speed
PROOF
<1>1. Speed \in Int
  BY EncConstants
<1>. QED BY <1>1, Factor DEF Reach

LEMMA ReachMonotone ==
  ASSUME NEW d \in Int, NEW e \in Int, d <= e
  PROVE  Reach(d) <= Reach(e)
PROOF
<1>1. Speed \in Nat
  BY EncConstants
<1>2. Speed * (e - d) = Speed * e - Speed * d /\ Speed * e \in Int /\ Speed * d \in Int
  BY <1>1, Factor
<1>3. CASE e = d
  BY <1>1, <1>2, <1>3 DEF Reach
<1>4. CASE e - d >= 1
  <2>1. Speed * (e - d) >= Speed
    BY <1>1, <1>4, MultipleAtLeast
  <2>. QED BY <1>1, <1>2, <2>1 DEF Reach
<1>. QED BY <1>3, <1>4

\* Until Late before the limit of a gap the rotor moves less than half a turn.
LEMMA ReachOfGap ==
  ASSUME NEW d \in Int, d < MaxGap
  PROVE  Reach(d) < Half
PROOF
<1>1. MaxGap \in Int /\ Speed \in Int /\ Speed > 0
  BY EncConstants
<1>2. MaxGap * Speed <= Half
  BY EncoderAssumption DEF Half
<1>3. Reach(MaxGap) = MaxGap * Speed
  BY <1>1 DEF Reach
<1>4. Reach(d) \in Int /\ Reach(d + 1) = Reach(d) + Speed /\ Reach(d + 1) <= Reach(MaxGap)
  <2>1. d + 1 \in Int /\ d + 1 <= MaxGap
    BY <1>1
  <2>. QED BY <1>1, <2>1, ReachGrows, ReachMonotone
<1>5. Half \in Int /\ Reach(MaxGap) \in Int
  BY <1>1, EncConstants, ReachGrows DEF Half
<1>. QED BY <1>1, <1>2, <1>3, <1>4, <1>5

\* A displacement of less than half a turn is read back from two angles, through zero
\* and in both directions.
LEMMA DisplacementIsRead ==
  ASSUME NEW a \in Int, NEW b \in Int, NEW d \in Int, Within(a, b, d), d < Half
  PROVE  RawDelta(a % Counts, b % Counts) = a - b
PROOF
<1>1. Counts \in Nat /\ Counts > 0
  BY EncConstants
<1>2. Half \in Nat /\ 2 * Half <= Counts /\ Counts <= 2 * Half + 1
  BY <1>1 DEF Half
<1>. DEFINE p == a \div Counts
            q == b \div Counts
            r == a % Counts
            s == b % Counts
<1>3. /\ p \in Int /\ r \in 0 .. Counts - 1 /\ a = Counts * p + r
      /\ q \in Int /\ s \in 0 .. Counts - 1 /\ b = Counts * q + s
  BY <1>1, Division
<1>. HIDE DEF p, q, r, s
<1>4. a - b = Counts * (p - q) + (r - s)
  BY <1>1, <1>3, Factor
<1>5. a - b < Half /\ b - a < Half
  BY <1>2 DEF Within
<1>6. p - q \in {-1, 0, 1}
  <2>1. ~(p - q >= 2)
    <3>1. ASSUME p - q >= 2
          PROVE  FALSE
      <4>1. Counts * (p - q - 1) >= Counts
        BY <1>1, <1>3, <3>1, MultipleAtLeast
      <4>2. Counts * (p - q - 1) = Counts * (p - q) - Counts
        BY <1>1, <1>3
      <4>3. Counts * (p - q) \in Int
        BY <1>1, <1>3, Factor
      <4>. QED BY <1>1, <1>2, <1>3, <1>4, <1>5, <4>1, <4>2, <4>3
    <3>. QED BY <3>1
  <2>2. ~(q - p >= 2)
    <3>1. ASSUME q - p >= 2
          PROVE  FALSE
      <4>1. Counts * (q - p - 1) >= Counts
        BY <1>1, <1>3, <3>1, MultipleAtLeast
      <4>2. Counts * (q - p - 1) = - (Counts * (p - q)) - Counts
        BY <1>1, <1>3
      <4>3. Counts * (p - q) \in Int
        BY <1>1, <1>3, Factor
      <4>. QED BY <1>1, <1>2, <1>3, <1>4, <1>5, <4>1, <4>2, <4>3
    <3>. QED BY <3>1
  <2>. QED BY <1>3, <2>1, <2>2
<1>7. RawDelta(r, s) = IF r - s > Half THEN r - s - Counts
                       ELSE IF r - s < -Half THEN r - s + Counts ELSE r - s
  BY <1>1, <1>2, <1>3 DEF RawDelta
<1>8. CASE p - q = 0
  <2>1. a - b = r - s
    BY <1>1, <1>3, <1>4, <1>8
  <2>. QED BY <1>2, <1>3, <1>5, <1>7, <2>1 DEF r, s
<1>9. CASE p - q = 1
  <2>1. a - b = r - s + Counts
    BY <1>1, <1>3, <1>4, <1>9
  <2>. QED BY <1>1, <1>2, <1>3, <1>5, <1>7, <2>1 DEF r, s
<1>10. CASE p - q = -1
  <2>1. a - b = r - s - Counts
    BY <1>1, <1>3, <1>4, <1>10
  <2>. QED BY <1>1, <1>2, <1>3, <1>5, <1>7, <2>1 DEF r, s
<1>. QED BY <1>6, <1>8, <1>9, <1>10

\* The reading of an accepted gap is true unless the rotor has outrun it, and it can
\* do that only where the latest latch leaves it the room.
LEMMA AcceptedGap ==
  ASSUME NEW a \in Int, NEW b \in Int, NEW d \in Int, d < MaxGap,
         Within(a, b, Reach(d + Late))
  PROVE  /\ ~Outrun(d, a - b) => RawDelta(a % Counts, b % Counts) = a - b
         /\ Outrun(d, a - b) => CanOutrun
         /\ Outrun(d, a - b) \in BOOLEAN
PROOF
<1>1. MaxGap \in Int /\ Late \in Nat /\ Half \in Int
  BY EncConstants DEF Half
<1>2. Reach(d + Late) \in Int /\ d + Late \in Int
  BY <1>1, ReachGrows
<1>3. ASSUME ~Outrun(d, a - b)
      PROVE  RawDelta(a % Counts, b % Counts) = a - b
  <2>1. CASE d + Late < MaxGap
    <3>1. Reach(d + Late) < Half
      BY <1>2, <2>1, ReachOfGap
    <3>. QED BY <1>2, <3>1, DisplacementIsRead
  <2>2. CASE ~(d + Late < MaxGap)
    <3>1. d \in MaxGap - Late .. MaxGap - 1
      BY <1>1, <2>2
    <3>2. ~(a - b >= Half \/ a - b <= -Half)
      BY <1>3, <3>1 DEF Outrun
    <3>3. Within(a, b, Half - 1) /\ Half - 1 \in Int /\ Half - 1 < Half
      BY <1>1, <3>2 DEF Within
    <3>. QED BY <3>3, DisplacementIsRead
  <2>. QED BY <2>1, <2>2
<1>4. ASSUME Outrun(d, a - b)
      PROVE  CanOutrun
  <2>1. d <= MaxGap - 1 /\ (a - b >= Half \/ a - b <= -Half)
    BY <1>1, <1>4 DEF Outrun
  <2>2. Half <= Reach(d + Late)
    BY <1>1, <1>2, <2>1 DEF Within
  <2>3. Reach(d + Late) <= Reach(MaxGap - 1 + Late) /\ Reach(MaxGap - 1 + Late) \in Int
    BY <1>1, <1>2, <2>1, ReachMonotone, ReachGrows
  <2>. QED BY <1>1, <1>2, <2>2, <2>3 DEF CanOutrun
<1>5. Outrun(d, a - b) \in BOOLEAN
  BY DEF Outrun
<1>. QED BY <1>3, <1>4, <1>5

LEMMA RawDeltaIsInt ==
  ASSUME NEW a \in Int, NEW b \in Int
  PROVE  RawDelta(a % Counts, b % Counts) \in Int
PROOF
<1>1. Counts \in Nat /\ Counts > 0 /\ Half \in Int
  BY EncConstants DEF Half
<1>. DEFINE r == a % Counts
            s == b % Counts
<1>2. r \in Int /\ s \in Int
  BY <1>1
<1>. HIDE DEF r, s
<1>3. RawDelta(r, s) \in Int
  BY <1>1, <1>2 DEF RawDelta
<1>. QED BY <1>3 DEF r, s

-------------------------------------------------------------------------------
LEMMA PassedRange ==
  ASSUME clock \in 0 .. ClockUs - 1, NEW t \in 0 .. ClockUs - 1
  PROVE  /\ Passed(t) \in 0 .. ClockUs - 1
         /\ Passed(t) = IF t <= clock THEN clock - t ELSE clock - t + ClockUs
BY EncConstants, WrappedDifference DEF Passed

\* Before it wraps, an age grows by one with each microsecond.
LEMMA PassedTicks ==
  ASSUME clock \in 0 .. ClockUs - 1, NEW t \in 0 .. ClockUs - 1,
         clock' = (clock + 1) % ClockUs, Passed(t) + 1 < ClockUs
  PROVE  Passed(t)' = Passed(t) + 1
PROOF
<1>1. ClockUs \in Nat /\ ClockUs > 0
  BY EncConstants
<1>2. clock' = IF clock = ClockUs - 1 THEN 0 ELSE clock + 1
  BY <1>1, NextValue
<1>3. clock' \in 0 .. ClockUs - 1
  BY <1>1, <1>2
<1>4. ((clock' - t) % ClockUs) = IF t <= clock' THEN clock' - t ELSE clock' - t + ClockUs
  BY <1>1, <1>3, WrappedDifference
<1>5. Passed(t) = IF t <= clock THEN clock - t ELSE clock - t + ClockUs
  BY PassedRange
<1>6. Passed(t)' = ((clock' - t) % ClockUs)
  BY DEF Passed, ClockUs
<1>. QED BY <1>1, <1>2, <1>3, <1>4, <1>5, <1>6

\* The time of a sample of some age, and back.
LEMMA SampledRange ==
  ASSUME clock \in 0 .. ClockUs - 1, NEW age \in 0 .. ClockUs - 1
  PROVE  SampledAt(age) \in 0 .. ClockUs - 1 /\ Passed(SampledAt(age)) = age
PROOF
<1>1. ClockUs \in Nat /\ ClockUs > 0
  BY EncConstants
<1>2. SampledAt(age) = IF age <= clock THEN clock - age ELSE clock - age + ClockUs
  BY <1>1, WrappedDifference DEF SampledAt, ClockUs
<1>3. SampledAt(age) \in 0 .. ClockUs - 1
  BY <1>1, <1>2
<1>4. Passed(SampledAt(age)) = IF SampledAt(age) <= clock THEN clock - SampledAt(age)
                               ELSE clock - SampledAt(age) + ClockUs
  BY <1>3, PassedRange
<1>. QED BY <1>1, <1>2, <1>3, <1>4

\* Two clock values that are d apart are d apart as counts of microseconds, too.
LEMMA UsDifference ==
  ASSUME NEW t \in Int, NEW s \in Int, NEW d \in 0 .. UsMod - 1, NEW j \in Int,
         t - s = d + ClockUs * j
  PROVE  (Us(t) - Us(s)) % UsMod = d /\ Us(t - Us(s)) = d
PROOF
<1>1. UsMod \in Nat /\ UsMod > 0
  BY EncConstants
<1>2. PICK k \in Int : ClockUs = UsMod * k
  BY WholeClock
<1>. DEFINE p == t \div UsMod
            q == s \div UsMod
            x == t % UsMod
            y == s % UsMod
<1>3. /\ p \in Int /\ x \in 0 .. UsMod - 1 /\ t = UsMod * p + x
      /\ q \in Int /\ y \in 0 .. UsMod - 1 /\ s = UsMod * q + y
  BY <1>1, Division
<1>4. Us(t) = x /\ Us(s) = y /\ Us(t - Us(s)) = ((t - y) % UsMod)
  BY DEF Us
<1>. HIDE DEF p, q, x, y
<1>5. (UsMod * k) * j = UsMod * (k * j) /\ k * j \in Int
  BY <1>1
<1>6. x - y = d + UsMod * (k * j - p + q)
  BY <1>1, <1>2, <1>3, <1>5
<1>7. t - y = d + UsMod * (k * j + q)
  BY <1>1, <1>2, <1>3, <1>5
<1>8. ((d + UsMod * (k * j - p + q)) % UsMod) = d
  BY <1>1, <1>3, <1>5, OneRemainder
<1>9. ((d + UsMod * (k * j + q)) % UsMod) = d
  BY <1>1, <1>3, <1>5, OneRemainder
<1>. QED BY <1>4, <1>6, <1>7, <1>8, <1>9

\* A time is within the milliseconds of the clock.
LEMMA MsRange ==
  ASSUME NEW n \in 0 .. ClockUs - 1
  PROVE  Ms(n) \in 0 .. MsMod - 1
PROOF
<1>1. /\ MsUs \in Nat /\ MsUs > 0 /\ MsMod \in Nat /\ MsMod > 0 /\ ClockUs \in Nat
  BY EncConstants
<1>2. ClockUs = MsUs * MsMod
  BY <1>1 DEF ClockUs
<1>. DEFINE q == n \div MsUs
            r == n % MsUs
<1>3. q \in Int /\ r \in 0 .. MsUs - 1 /\ n = MsUs * q + r
  BY <1>1, Division
<1>4. Ms(n) = q
  BY DEF Ms
<1>. HIDE DEF q, r
<1>5. /\ MsUs * q \in Int /\ MsUs * (-q) = -(MsUs * q)
      /\ MsUs * (q - MsMod + 1) = MsUs * q - ClockUs + MsUs
  BY <1>1, <1>2, <1>3
<1>6. q >= 0
  <2>1. ASSUME -q >= 1
        PROVE  FALSE
    <3>1. MsUs * (-q) >= MsUs
      BY <1>1, <1>3, <2>1, MultipleAtLeast
    <3>. QED BY <1>1, <1>3, <1>5, <3>1
  <2>. QED BY <1>3, <2>1
<1>7. q < MsMod
  <2>1. ASSUME q - MsMod + 1 >= 1
        PROVE  FALSE
    <3>1. MsUs * (q - MsMod + 1) >= MsUs
      BY <1>1, <1>3, <2>1, MultipleAtLeast
    <3>. QED BY <1>1, <1>3, <1>5, <3>1
  <2>. QED BY <1>1, <1>3, <2>1
<1>. QED BY <1>1, <1>3, <1>4, <1>6, <1>7

\* A freshness stamp that has not gone round is fresh only in time.
LEMMA FreshIsInTime ==
  ASSUME clock \in 0 .. ClockUs - 1, NEW t \in 0 .. ClockUs - 1,
         Passed(t) <= FaultUs - 1 + MaxQuiet,
         (Ms(clock) - Ms(t)) % MsMod < EncFaultMs
  PROVE  Passed(t) < FaultUs
PROOF
<1>1. /\ MsUs \in Nat /\ MsUs > 0 /\ MsMod \in Nat /\ MsMod > 0 /\ EncFaultMs \in Nat
      /\ ClockUs \in Nat /\ FaultUs \in Nat /\ MaxQuiet \in Nat
      /\ MaxQuiet + FaultUs <= ClockUs - MsUs + 1
  BY EncConstants
<1>2. ClockUs = MsUs * MsMod /\ FaultUs = MsUs * EncFaultMs
  BY <1>1 DEF ClockUs, FaultUs
<1>. DEFINE c == clock \div MsUs
            a == t \div MsUs
            x == clock % MsUs
            y == t % MsUs
<1>3. /\ c \in Int /\ x \in 0 .. MsUs - 1 /\ clock = MsUs * c + x
      /\ a \in Int /\ y \in 0 .. MsUs - 1 /\ t = MsUs * a + y
  BY <1>1, Division
<1>4. Ms(clock) = c /\ Ms(t) = a
  BY DEF Ms
<1>5. ((c - a) % MsMod) < EncFaultMs
  BY <1>4
<1>. HIDE DEF c, a, x, y
<1>6. c \in 0 .. MsMod - 1 /\ a \in 0 .. MsMod - 1
  BY MsRange DEF Ms, c, a
<1>7. ((c - a) % MsMod) = IF a <= c THEN c - a ELSE c - a + MsMod
  BY <1>1, <1>6, WrappedDifference
<1>8. Passed(t) = IF t <= clock THEN clock - t ELSE clock - t + ClockUs
  BY PassedRange
\* In milliseconds the age differs from the true one by less than one.
<1>9. ASSUME NEW n \in Int, Passed(t) = MsUs * n + (x - y), n < EncFaultMs
      PROVE  Passed(t) < FaultUs
  <2>1. MsUs * (EncFaultMs - n) >= MsUs
    BY <1>1, <1>9, MultipleAtLeast
  <2>2. MsUs * (EncFaultMs - n) = FaultUs - MsUs * n /\ MsUs * n \in Int
    BY <1>1, <1>2
  <2>. QED BY <1>1, <1>3, <1>9, <2>1, <2>2
<1>10. CASE t <= clock
  <2>1. Passed(t) = MsUs * (c - a) + (x - y)
    BY <1>1, <1>3, <1>8, <1>10
  <2>2. a <= c
    <3>1. ASSUME a - c >= 1
          PROVE  FALSE
      <4>1. MsUs * (a - c) >= MsUs
        BY <1>1, <1>3, <3>1, MultipleAtLeast
      <4>2. MsUs * (a - c) = MsUs * a - MsUs * c /\ MsUs * a \in Int /\ MsUs * c \in Int
        BY <1>1, <1>3
      <4>. QED BY <1>1, <1>3, <1>10, <4>1, <4>2
    <3>. QED BY <1>3, <3>1
  <2>3. c - a < EncFaultMs
    BY <1>5, <1>7, <2>2
  <2>. QED BY <1>3, <1>9, <2>1, <2>3
<1>11. CASE ~(t <= clock)
  <2>1. Passed(t) = MsUs * (c - a + MsMod) + (x - y)
    BY <1>1, <1>2, <1>3, <1>8, <1>11
  \* The bound on the age keeps the milliseconds from going round.
  <2>2. c < a
    <3>1. ASSUME c - a >= 0
          PROVE  FALSE
      <4>1. MsUs * (c - a + 1) >= MsUs
        BY <1>1, <1>3, <3>1, MultipleAtLeast
      <4>2. MsUs * (c - a + 1) = MsUs * c - MsUs * a + MsUs /\ MsUs * a \in Int /\ MsUs * c \in Int
        BY <1>1, <1>3
      <4>3. MsUs * (c - a + MsMod) = MsUs * c - MsUs * a + ClockUs
        BY <1>1, <1>2, <1>3
      <4>. QED BY <1>1, <1>3, <2>1, <4>1, <4>2, <4>3
    <3>. QED BY <1>3, <3>1
  <2>3. c - a + MsMod < EncFaultMs
    BY <1>1, <1>3, <1>5, <1>7, <2>2
  <2>4. c - a + MsMod \in Int
    BY <1>1, <1>3
  <2>. QED BY <1>9, <2>1, <2>3, <2>4
<1>. QED BY <1>10, <1>11

\* The interval between two samples, as the code computes it and as it is.
LEMMA IntervalIsTrue ==
  ASSUME clock \in 0 .. ClockUs - 1, NEW s \in 0 .. ClockUs - 1, NEW t \in 0 .. ClockUs - 1,
         Passed(s) <= Passed(t), Passed(t) - Passed(s) < UsMod
  PROVE  (Us(s) - Us(t)) % UsMod = Passed(t) - Passed(s)
PROOF
<1>1. UsMod \in Nat /\ ClockUs \in Nat
  BY EncConstants
<1>2. /\ Passed(s) = IF s <= clock THEN clock - s ELSE clock - s + ClockUs
      /\ Passed(t) = IF t <= clock THEN clock - t ELSE clock - t + ClockUs
  BY PassedRange
<1>. DEFINE d == Passed(t) - Passed(s)
<1>3. d \in 0 .. UsMod - 1
  BY <1>1, <1>2
<1>4. \E j \in {-1, 0, 1} : s - t = d + ClockUs * j
  BY <1>1, <1>2
<1>. HIDE DEF d
<1>5. (Us(s) - Us(t)) % UsMod = d
  <2>1. PICK j \in {-1, 0, 1} : s - t = d + ClockUs * j
    BY <1>4
  <2>2. j \in Int /\ s \in Int /\ t \in Int
    BY <1>1
  <2>. QED BY <1>3, <2>1, <2>2, UsDifference
<1>. QED BY <1>5 DEF d

LEMMA ReportedAge ==
  ASSUME clock \in 0 .. ClockUs - 1, NEW t \in 0 .. ClockUs - 1, Passed(t) < UsMod
  PROVE  Us(clock - Us(t)) = Passed(t)
PROOF
<1>1. UsMod \in Nat /\ ClockUs \in Nat
  BY EncConstants
<1>2. Passed(t) \in 0 .. ClockUs - 1 /\ Passed(t) = IF t <= clock THEN clock - t ELSE clock - t + ClockUs
  BY PassedRange
<1>3. Passed(t) \in 0 .. UsMod - 1
  BY <1>1, <1>2
<1>4. \E j \in {-1, 0, 1} : clock - t = Passed(t) + ClockUs * j
  BY <1>1, <1>2
<1>5. clock \in Int /\ t \in Int
  BY <1>1
<1>. QED BY <1>3, <1>4, <1>5, UsDifference

-------------------------------------------------------------------------------
LEMMA EncTypes ==
  ASSUME EncInv
  PROVE  /\ clock \in 0 .. ClockUs - 1 /\ pos \in Int /\ quiet \in 0 .. MaxQuiet
         /\ quiet \in Nat /\ quiet + FaultUs - 1 < UsMod /\ quiet + FaultUs - 1 < ClockUs
PROOF
<1>1. clock \in 0 .. ClockUs - 1 /\ quiet \in 0 .. MaxQuiet
  BY DEF EncInv, EncTypeOK, ClockUs
<1>2. pos \in Int
  BY EncConstants DEF EncInv, EncTypeOK, Positions
<1>. QED BY <1>1, <1>2, EncConstants

LEMMA ReadTypes ==
  ASSUME EncInv, read # Nothing
  PROVE  /\ read.age \in 0 .. MaxQuiet /\ read.age <= quiet /\ read.pos \in Positions
         /\ read.pos \in Int /\ read.age \in Nat
PROOF
<1>1. read \in Reads /\ read.age <= quiet
  BY DEF EncInv, Reading
<1>2. read.age \in 0 .. MaxQuiet /\ read.pos \in Positions
  BY <1>1 DEF Reads
<1>. QED BY <1>1, <1>2, EncConstants DEF Positions

\* The sample that is about to be returned.
LEMMA SampleIs ==
  ASSUME EncInv, Latched
  PROVE  /\ SampledAt(read.age) \in 0 .. ClockUs - 1 /\ Passed(SampledAt(read.age)) = read.age
         /\ Sample.raw = read.pos % Counts /\ Sample.at = Us(SampledAt(read.age))
         /\ Sample.age = read.age /\ Sample.pos = read.pos
         /\ Sample \in Readings
PROOF
<1>1. read # Nothing
  BY DEF Latched
<1>2. read.age \in 0 .. MaxQuiet /\ read.pos \in Positions /\ read.pos \in Int
  BY <1>1, ReadTypes
<1>3. read.age \in 0 .. ClockUs - 1 /\ read.age \in 0 .. MaxReadAge
  BY <1>2, EncConstants
<1>4. SampledAt(read.age) \in 0 .. ClockUs - 1 /\ Passed(SampledAt(read.age)) = read.age
  BY <1>3, EncTypes, SampledRange
<1>5. read.pos % Counts \in Angles
  BY <1>2, EncConstants, Division DEF Angles
<1>6. Us(SampledAt(read.age)) \in 0 .. UsMod - 1
  BY <1>4, EncConstants, Division DEF Us
<1>. QED BY <1>2, <1>3, <1>4, <1>5, <1>6 DEF Sample, Readings

\* The sample that a window ends with so far, and the interval to the next one.
LEMMA IntervalOfWindow ==
  ASSUME EncInv, Latched, window.previous # Nothing,
         NEW t \in 0 .. ClockUs - 1, Dated(window.previous.age, window.previous.at, t)
  PROVE  /\ Interval(Sample) = Passed(t) - read.age /\ read.age <= Passed(t)
         /\ Passed(t) \in Nat
PROOF
<1>1. read # Nothing
  BY DEF Latched
<1>2. Passed(t) \in 0 .. ClockUs - 1
  BY EncTypes, PassedRange
<1>3. read.age \in Nat /\ read.age <= Passed(t) /\ Passed(t) <= FaultUs - 1 + quiet
      /\ window.previous.at = Us(t)
  BY <1>1, ReadTypes DEF Dated
<1>4. Passed(t) - read.age < UsMod
  BY <1>2, <1>3, EncTypes, EncConstants
<1>5. (Us(SampledAt(read.age)) - Us(t)) % UsMod = Passed(t) - read.age
  BY <1>3, <1>4, SampleIs, EncTypes, IntervalIsTrue
<1>. QED BY <1>2, <1>3, <1>5, SampleIs DEF Interval

\* What a sample that counts measures is the true motion over the true time.
LEMMA MeasuredIsTrue ==
  ASSUME EncInv, Latched, Usable(Sample)
  PROVE  /\ ~Measured(Sample).outrun => Measured(Sample).counts = Measured(Sample).moved
         /\ Measured(Sample).outrun \in BOOLEAN /\ (Measured(Sample).outrun => CanOutrun)
         /\ Measured(Sample).elapsed = Measured(Sample).took
         /\ Measured(Sample).counts \in Int /\ Measured(Sample).elapsed \in Nat
PROOF
<1>1. window.previous # Nothing /\ read # Nothing /\ Interval(Sample) < MaxGap
  <2>1. window.previous # Nothing /\ ~Ambiguous(Interval(Sample))
    BY DEF Usable
  <2>2. Interval(Sample) \in Int
    <3>1. PICK t \in 0 .. ClockUs - 1 : Dated(window.previous.age, window.previous.at, t)
      BY <2>1 DEF EncInv, Accumulated
    <3>. QED BY <2>1, <3>1, IntervalOfWindow, ReadTypes DEF Latched
  <2>. QED BY <2>1, <2>2, EncConstants DEF Ambiguous, Latched
<1>2. /\ window \in Windows /\ window.elapsed = window.took
      /\ window.outrun \in BOOLEAN /\ (window.outrun => CanOutrun)
      /\ window.previous.raw = window.previous.pos % Counts
      /\ ~window.outrun => window.counts = window.previous.pos - window.origin
      /\ Near(pos, read, window.previous.age, window.previous.pos)
  BY <1>1 DEF EncInv, Accumulated, Windows
<1>3. PICK t \in 0 .. ClockUs - 1 : Dated(window.previous.age, window.previous.at, t)
  BY <1>1 DEF EncInv, Accumulated
<1>4. Interval(Sample) = Passed(t) - read.age /\ read.age <= Passed(t) /\ Passed(t) \in Nat
  BY <1>1, <1>3, IntervalOfWindow
<1>5. read.age \in 0 .. MaxQuiet /\ read.pos \in Int
  BY <1>1, ReadTypes
<1>6. Passed(t) < MaxReadAge
  BY <1>1, <1>4, <1>5, EncConstants
<1>7. window.previous.age = Passed(t)
  BY <1>3, <1>6 DEF Dated, Bounded
<1>8. /\ window.previous.pos \in Int /\ window.counts \in Int /\ window.origin \in Int
      /\ window.elapsed \in Nat
  BY <1>1, <1>2, EncConstants DEF Windows, Readings, Positions
<1>9. Within(read.pos, window.previous.pos, Reach(Interval(Sample) + Late))
  BY <1>1, <1>2, <1>4, <1>6, <1>7 DEF Near, Latched
<1>10. Interval(Sample) \in Nat /\ Interval(Sample) + Late \in Int
  BY <1>4, <1>5, EncConstants
<1>. DEFINE moved == read.pos - window.previous.pos
            turned == Outrun(Interval(Sample), moved)
            delta == RawDelta(read.pos % Counts, window.previous.pos % Counts)
<1>11. (~turned => delta = moved) /\ (turned => CanOutrun) /\ turned \in BOOLEAN
  BY <1>1, <1>5, <1>8, <1>9, <1>10, AcceptedGap
<1>12. delta \in Int
  BY <1>5, <1>8, RawDeltaIsInt
<1>13. /\ Measured(Sample).counts = window.counts + delta
       /\ Measured(Sample).elapsed = window.elapsed + Interval(Sample)
       /\ Measured(Sample).moved = read.pos - window.origin
       /\ Measured(Sample).took = window.took + window.previous.age - read.age
       /\ Measured(Sample).outrun = (window.outrun \/ turned)
  BY <1>2, SampleIs DEF Measured
<1>. HIDE DEF turned, delta
<1>14. Measured(Sample).elapsed = Measured(Sample).took /\ Measured(Sample).counts \in Int
       /\ Measured(Sample).elapsed \in Nat
  BY <1>2, <1>4, <1>5, <1>7, <1>8, <1>10, <1>12, <1>13
<1>15. ASSUME ~Measured(Sample).outrun
       PROVE  Measured(Sample).counts = Measured(Sample).moved
  <2>1. ~window.outrun /\ ~turned
    BY <1>13, <1>15
  <2>. QED BY <1>2, <1>5, <1>8, <1>11, <1>13, <2>1
<1>16. Measured(Sample).outrun \in BOOLEAN /\ (Measured(Sample).outrun => CanOutrun)
  BY <1>2, <1>11, <1>13
<1>. QED BY <1>14, <1>15, <1>16

-------------------------------------------------------------------------------
LEMMA EncInitHolds == EncInit => EncInv
PROOF
<1>. SUFFICES ASSUME EncInit PROVE EncInv
  OBVIOUS
<1>1. 0 \in 0 .. ClockUs - 1 /\ 0 \in 0 .. MaxQuiet /\ 0 \in Positions /\ 0 \in 0 .. Window - 1
  BY EncConstants DEF Positions
<1>2. /\ Unready.previous = Nothing /\ Unready.counts = 0 /\ Unready.elapsed = 0
      /\ Unready.took = 0 /\ Unready.ready = FALSE /\ Unready.outrun = FALSE
      /\ Unready \in Windows
  BY <1>1 DEF Unready, Windows
<1>3. EncTypeOK
  BY <1>1, <1>2 DEF EncInit, EncTypeOK, ClockUs
<1>. QED BY <1>2, <1>3 DEF EncInit, EncInv, Reading, Followed, Accumulated, Announced

\* What an action keeps that leaves the sensor's side and the clocks alone.
LEMMA UnreadyIsAccumulated ==
  ASSUME window' = Unready
  PROVE  Accumulated' /\ window'.previous = Nothing /\ window'.elapsed \in 0 .. Window - 1
         /\ window'.ready \in BOOLEAN /\ window'.outrun \in BOOLEAN
PROOF
<1>1. 0 \in 0 .. Window - 1
  BY EncConstants
<1>2. /\ Unready.previous = Nothing /\ Unready.counts = 0 /\ Unready.elapsed = 0
      /\ Unready.took = 0 /\ Unready.ready = FALSE /\ Unready.outrun = FALSE
      /\ Unready \in Windows
  BY <1>1 DEF Unready, Windows
<1>. QED BY <1>1, <1>2 DEF Accumulated

-------------------------------------------------------------------------------
\* A microsecond: the rotor gets no further away than the bound grows.
LEMMA NearTicks ==
  ASSUME NEW p \in Int, NEW q \in Int, Within(q, p, Speed),
         NEW r, NEW s, NEW at \in Int, NEW age \in 0 .. MaxReadAge,
         r # Nothing => r.age \in Nat /\ s # Nothing /\ s.age = r.age + 1 /\ s.step = r.step /\ s.pos = r.pos,
         r = Nothing => s = Nothing,
         Near(p, r, age, at)
  PROVE  Near(q, s, Aged(age, MaxReadAge), at)
PROOF
<1>. SUFFICES ASSUME Aged(age, MaxReadAge) < MaxReadAge
              PROVE  /\ Within(q, at, Reach(Aged(age, MaxReadAge)))
                     /\ s # Nothing /\ s.step = "latched" =>
                          Within(s.pos, at, Reach(Aged(age, MaxReadAge) - s.age + Late))
  BY DEF Near
<1>1. MaxReadAge \in Nat /\ Speed \in Nat /\ Late \in Nat
  BY EncConstants
<1>2. age < MaxReadAge /\ Aged(age, MaxReadAge) = age + 1 /\ age \in Int
  BY <1>1 DEF Aged
<1>3. Within(p, at, Reach(age))
  BY <1>2 DEF Near
<1>4. Reach(age) \in Int /\ Reach(age + 1) = Reach(age) + Speed
  BY <1>2, ReachGrows
<1>5. Within(q, at, Reach(age + 1))
  BY <1>1, <1>3, <1>4 DEF Within
<1>6. ASSUME s # Nothing, s.step = "latched"
      PROVE  Within(s.pos, at, Reach(Aged(age, MaxReadAge) - s.age + Late))
  <2>1. r # Nothing /\ r.step = "latched" /\ s.pos = r.pos /\ s.age = r.age + 1 /\ r.age \in Nat
    BY <1>6
  <2>2. Within(r.pos, at, Reach(age - r.age + Late))
    BY <1>2, <2>1 DEF Near
  <2>3. age + 1 - s.age + Late = age - r.age + Late
    BY <1>1, <1>2, <2>1
  <2>. QED BY <1>2, <2>1, <2>2, <2>3
<1>. QED BY <1>2, <1>5, <1>6

LEMMA EncTickKeeps ==
  ASSUME EncInv, EncTick
  PROVE  EncInv'
PROOF
<1>1. /\ quiet < MaxQuiet /\ quiet' = quiet + 1
      /\ clock' = (clock + 1) % ClockUs
      /\ read = Nothing => read' = Nothing
      /\ read # Nothing => read' = [read EXCEPT !.age = @ + 1]
      /\ track = Nothing => track' = Nothing
      /\ track # Nothing => track' = [track EXCEPT !.age = Aged(@, MaxReadAge)]
      /\ window.previous = Nothing => window' = window
      /\ window.previous # Nothing => window' = [window EXCEPT !.previous.age = Aged(@, MaxReadAge)]
      /\ published = Nothing => published' = Nothing
      /\ published # Nothing => published' = [published EXCEPT !.age = Aged(@, FaultUs)]
  BY DEF EncTick, ClockUs
<1>2. PICK d \in -Speed .. Speed : pos + d \in Positions /\ pos' = pos + d
  BY DEF EncTick
<1>3. /\ clock \in 0 .. ClockUs - 1 /\ pos \in Int /\ quiet \in Nat
      /\ quiet + FaultUs - 1 < UsMod /\ quiet + FaultUs - 1 < ClockUs
  BY EncTypes
<1>4. /\ MaxReadAge \in Nat /\ FaultUs \in Nat /\ MaxQuiet \in Nat /\ ClockUs \in Nat /\ ClockUs > 0
      /\ MaxReadAge = MaxGap + MaxQuiet /\ MaxGap \in Nat /\ MaxGap > 0 /\ Travel \in Nat
      /\ MaxQuiet + FaultUs <= ClockUs - MsUs + 1 /\ MsUs \in Nat /\ MsUs > 0
  BY EncConstants
<1>5. quiet' \in 0 .. MaxQuiet /\ clock' \in 0 .. ClockUs - 1 /\ pos' \in Positions
  BY <1>1, <1>2, <1>3, <1>4, NextValue
<1>6. read # Nothing => /\ read' # Nothing /\ read' \in Reads /\ read'.age <= quiet'
                        /\ read.age \in Nat /\ read'.age = read.age + 1 /\ read'.step = read.step
                        /\ read'.pos = read.pos
  <2>. SUFFICES ASSUME read # Nothing
                PROVE  /\ read' # Nothing /\ read' \in Reads /\ read'.age <= quiet'
                       /\ read.age \in Nat /\ read'.age = read.age + 1 /\ read'.step = read.step
                       /\ read'.pos = read.pos
    OBVIOUS
  <2>1. read \in Reads /\ read.age <= quiet
    BY DEF EncInv, Reading
  <2>2. read' = [read EXCEPT !.age = read.age + 1]
    BY <1>1
  <2>3. read.age \in Nat /\ read.age + 1 \in 0 .. MaxQuiet /\ read.age + 1 <= quiet'
    BY <1>1, <1>3, <1>4, <2>1 DEF Reads
  <2>4. read' \in Reads /\ read'.age = read.age + 1 /\ read'.step = read.step /\ read'.pos = read.pos
    BY <2>1, <2>2, <2>3 DEF Reads
  <2>5. read' # Nothing
    BY <2>4, <2>3 DEF Reads, Nothing
  <2>. QED BY <2>3, <2>4, <2>5
<1>7. Reading'
  <2>. SUFFICES ASSUME read' # Nothing, read'.step = "latched"
                PROVE  Within(pos', read'.pos, Reach(read'.age))
    BY <1>1, <1>6 DEF Reading
  <2>1. read # Nothing /\ read.step = "latched"
    BY <1>1, <1>6
  <2>2. Within(pos, read.pos, Reach(read.age)) /\ read.pos \in Int
    BY <2>1, ReadTypes DEF EncInv, Reading
  <2>3. Reach(read.age) \in Int /\ Reach(read.age + 1) = Reach(read.age) + Speed
    BY <1>6, <2>1, ReachGrows
  <2>. QED BY <1>2, <1>3, <1>6, <2>1, <2>2, <2>3, EncConstants DEF Within
<1>8. ASSUME NEW age \in 0 .. MaxReadAge, NEW at \in Int, Near(pos, read, age, at)
      PROVE  Near(pos', read', Aged(age, MaxReadAge), at)
  <2>1. pos \in Int /\ pos' \in Int /\ Within(pos', pos, Speed)
    BY <1>2, <1>3, EncConstants DEF Within
  <2>2. read = Nothing => read' = Nothing
    BY <1>1
  <2>3. read # Nothing => /\ read.age \in Nat /\ read' # Nothing /\ read'.age = read.age + 1
                          /\ read'.step = read.step /\ read'.pos = read.pos
    BY <1>6
  <2>. QED BY <1>8, <2>1, <2>2, <2>3, NearTicks
<1>9. \A age \in 0 .. MaxReadAge : Aged(age, MaxReadAge) \in 0 .. MaxReadAge
                                   /\ Aged(age, MaxReadAge) = IF age < MaxReadAge THEN age + 1 ELSE age
  BY <1>4 DEF Aged
<1>10. Followed' /\ track' \in {Nothing} \cup Tracks
  <2>1. CASE track = Nothing
    BY <1>1, <2>1 DEF Followed
  <2>2. CASE track # Nothing
    <3>1. /\ track \in Tracks /\ track.raw = track.pos % Counts
          /\ ~track.outrun => track.pos = track.unwrap + track.turns
          /\ track.outrun => CanOutrun
          /\ Near(pos, read, track.age, track.pos)
          /\ read # Nothing => read.age <= track.age
      BY <2>2 DEF EncInv, Followed
    <3>2. track.age \in 0 .. MaxReadAge /\ track.pos \in Int
      BY <3>1, <1>4 DEF Tracks, Positions
    <3>3. track' = [track EXCEPT !.age = Aged(track.age, MaxReadAge)]
      BY <1>1, <2>2
    <3>4. /\ track' \in Tracks /\ track'.raw = track.raw /\ track'.pos = track.pos
          /\ track'.unwrap = track.unwrap /\ track'.turns = track.turns
          /\ track'.age = Aged(track.age, MaxReadAge) /\ track'.outrun = track.outrun
      BY <1>9, <3>1, <3>2, <3>3 DEF Tracks
    <3>5. Near(pos', read', track'.age, track'.pos)
      BY <1>8, <3>1, <3>2, <3>4
    <3>6. read' # Nothing => read'.age <= track'.age
      <4>1. read # Nothing => read.age <= MaxQuiet
        BY ReadTypes
      <4>. QED BY <1>1, <1>4, <1>6, <1>9, <3>1, <3>2, <3>4, <4>1
    <3>7. (~track'.outrun => track'.pos = track'.unwrap + track'.turns) /\ (track'.outrun => CanOutrun)
      BY <3>1, <3>4
    <3>. QED BY <3>1, <3>4, <3>5, <3>6, <3>7 DEF Followed
  <2>. QED BY <2>1, <2>2
\* An age that has not gone round goes on.
<1>11. ASSUME NEW t \in 0 .. ClockUs - 1, Passed(t) <= FaultUs - 1 + quiet
       PROVE  /\ Passed(t)' = Passed(t) + 1 /\ Passed(t)' <= FaultUs - 1 + quiet'
              /\ Passed(t) \in Nat
  <2>1. Passed(t) \in 0 .. ClockUs - 1
    BY <1>3, PassedRange
  <2>2. Passed(t) + 1 < ClockUs
    BY <1>1, <1>3, <1>4, <1>11, <2>1
  <2>3. Passed(t)' = Passed(t) + 1
    BY <1>1, <1>3, <2>2, PassedTicks
  <2>. QED BY <1>1, <1>3, <1>4, <1>11, <2>1, <2>3
<1>12. Accumulated' /\ window'.previous \in {Nothing} \cup Readings
       /\ window'.elapsed = window.elapsed /\ window'.ready = window.ready
       /\ window'.outrun = window.outrun
  <2>1. CASE window.previous = Nothing
    BY <1>1, <2>1 DEF EncInv, EncTypeOK, Accumulated
  <2>2. CASE window.previous # Nothing
    <3>1. /\ window \in Windows /\ window.elapsed = window.took
          /\ window.previous.raw = window.previous.pos % Counts
          /\ ~window.outrun => window.counts = window.previous.pos - window.origin
          /\ window.outrun => CanOutrun
          /\ Near(pos, read, window.previous.age, window.previous.pos)
      BY <2>2 DEF EncInv, Accumulated
    <3>2. PICK t \in 0 .. ClockUs - 1 : Dated(window.previous.age, window.previous.at, t)
      BY <2>2 DEF EncInv, Accumulated
    <3>3. window.previous \in Readings
      BY <2>2, <3>1 DEF Windows
    <3>4. window.previous.age \in 0 .. MaxReadAge /\ window.previous.pos \in Int
      BY <3>3, <1>4 DEF Readings, Positions
    <3>. DEFINE prev == [window.previous EXCEPT !.age = Aged(window.previous.age, MaxReadAge)]
    <3>5. window' = [window EXCEPT !.previous = prev]
      BY <1>1, <2>2
    <3>6. /\ prev \in Readings /\ prev.raw = window.previous.raw /\ prev.at = window.previous.at
          /\ prev.pos = window.previous.pos /\ prev.age = Aged(window.previous.age, MaxReadAge)
      BY <1>9, <3>3, <3>4 DEF Readings
    <3>. HIDE DEF prev
    <3>7. /\ window' \in Windows /\ window'.previous = prev /\ window'.counts = window.counts
          /\ window'.elapsed = window.elapsed /\ window'.took = window.took
          /\ window'.origin = window.origin /\ window'.ready = window.ready
          /\ window'.outrun = window.outrun
      BY <3>1, <3>5, <3>6 DEF Windows
    <3>8. Near(pos', read', window'.previous.age, window'.previous.pos)
      BY <1>8, <3>1, <3>4, <3>6, <3>7
    <3>9. Dated(window.previous.age, window.previous.at, t)'
      <4>1. /\ window.previous.at = Us(t) /\ Passed(t) <= FaultUs - 1 + quiet
            /\ window.previous.age = Bounded(Passed(t), MaxReadAge)
            /\ read # Nothing => read.age <= Passed(t)
        BY <3>2 DEF Dated
      <4>2. Passed(t)' = Passed(t) + 1 /\ Passed(t)' <= FaultUs - 1 + quiet' /\ Passed(t) \in Nat
        BY <1>11, <4>1
      <4>3. window'.previous.age = Bounded(Passed(t)', MaxReadAge)
        BY <1>4, <1>9, <3>4, <3>6, <3>7, <4>1, <4>2 DEF Bounded
      <4>4. read' # Nothing => read'.age <= Passed(t)'
        BY <1>1, <1>6, <4>1, <4>2
      <4>. QED BY <3>6, <3>7, <4>1, <4>2, <4>3, <4>4 DEF Dated, Us, Bounded
    <3>10. window'.previous # Nothing =>
             /\ window'.previous.raw = window'.previous.pos % Counts
             /\ ~window'.outrun => window'.counts = window'.previous.pos - window'.origin
      BY <3>1, <3>6, <3>7
    <3>11. window'.previous = Nothing => window'.counts = 0
      BY <3>6, <3>7 DEF Readings, Nothing
    <3>. QED BY <3>1, <3>6, <3>7, <3>8, <3>9, <3>10, <3>11 DEF Accumulated
  <2>. QED BY <2>1, <2>2
<1>13. Announced' /\ published' \in {Nothing} \cup Stamps
  <2>1. CASE published = Nothing
    BY <1>1, <2>1 DEF Announced
  <2>2. CASE published # Nothing
    <3>1. published \in Stamps
      BY <2>2 DEF EncInv, Announced
    <3>2. PICK t \in 0 .. ClockUs - 1 :
            /\ published.ms = Ms(t) /\ published.us = Us(t)
            /\ Passed(t) <= FaultUs - 1 + quiet /\ published.age = Bounded(Passed(t), FaultUs)
      BY <2>2 DEF EncInv, Announced
    <3>3. Aged(published.age, FaultUs) \in 0 .. FaultUs
          /\ Aged(published.age, FaultUs) = IF published.age < FaultUs THEN published.age + 1 ELSE published.age
      BY <1>4, <3>1 DEF Stamps, Aged
    <3>4. published' = [published EXCEPT !.age = Aged(published.age, FaultUs)]
      BY <1>1, <2>2
    <3>5. /\ published' \in Stamps /\ published'.ms = published.ms /\ published'.us = published.us
          /\ published'.age = Aged(published.age, FaultUs)
      BY <3>1, <3>3, <3>4 DEF Stamps
    <3>6. Passed(t)' = Passed(t) + 1 /\ Passed(t)' <= FaultUs - 1 + quiet' /\ Passed(t) \in Nat
      BY <1>11, <3>2
    <3>7. published'.age = Bounded(Passed(t)', FaultUs)
      BY <1>4, <3>2, <3>3, <3>5, <3>6 DEF Bounded
    <3>8. published'.ms = Ms(t) /\ published'.us = Us(t)
      BY <3>2, <3>5
    <3>. QED BY <3>5, <3>6, <3>7, <3>8 DEF Announced, Us, Ms, Bounded
  <2>. QED BY <2>1, <2>2
<1>14. EncTypeOK'
  <2>1. read' \in {Nothing} \cup Reads
    BY <1>1, <1>6
  <2>2. window'.elapsed \in 0 .. Window - 1 /\ window'.ready \in BOOLEAN /\ window'.outrun \in BOOLEAN
    BY <1>12 DEF EncInv, EncTypeOK
  <2>. QED BY <1>5, <1>10, <1>12, <1>13, <2>1, <2>2 DEF EncTypeOK, ClockUs
<1>. QED BY <1>7, <1>10, <1>12, <1>13, <1>14 DEF EncInv

LEMMA StampKeeps ==
  ASSUME EncInv, Stamp
  PROVE  EncInv'
PROOF
<1>1. /\ read = Nothing /\ read' = [step |-> "angle", pos |-> 0, age |-> 0]
      /\ UNCHANGED <<clock, pos, track, window, published, quiet>>
  BY DEF Stamp
<1>2. 0 \in Positions /\ 0 \in 0 .. MaxQuiet /\ quiet \in Nat
  BY EncConstants, EncTypes DEF Positions
<1>3. read' \in Reads /\ read'.age = 0 /\ read'.step = "angle"
  BY <1>1, <1>2 DEF Reads
<1>4. Reading'
  BY <1>1, <1>2, <1>3 DEF Reading
<1>5. ASSUME NEW age, NEW at, Near(pos, read, age, at)
      PROVE  Near(pos', read', age, at)
  BY <1>1, <1>3, <1>5 DEF Near
<1>6. Followed'
  <2>. SUFFICES ASSUME track # Nothing
                PROVE  Followed'
    BY <1>1 DEF Followed
  <2>1. /\ track \in Tracks /\ track.raw = track.pos % Counts
        /\ ~track.outrun => track.pos = track.unwrap + track.turns
        /\ track.outrun => CanOutrun
        /\ Near(pos, read, track.age, track.pos)
    BY DEF EncInv, Followed
  <2>2. track.age \in Nat
    BY <2>1, EncConstants DEF Tracks
  <2>3. Near(pos', read', track'.age, track'.pos) /\ read'.age <= track'.age
    BY <1>1, <1>3, <1>5, <2>1, <2>2
  <2>. QED BY <1>1, <2>1, <2>3 DEF Followed
<1>7. Accumulated'
  <2>1. CASE window.previous = Nothing
    BY <1>1, <2>1 DEF EncInv, Accumulated
  <2>2. CASE window.previous # Nothing
    <3>1. /\ window \in Windows /\ window.elapsed = window.took
          /\ window.previous.raw = window.previous.pos % Counts
          /\ ~window.outrun => window.counts = window.previous.pos - window.origin
          /\ window.outrun => CanOutrun
          /\ Near(pos, read, window.previous.age, window.previous.pos)
      BY <2>2 DEF EncInv, Accumulated
    <3>2. PICK t \in 0 .. ClockUs - 1 : Dated(window.previous.age, window.previous.at, t)
      BY <2>2 DEF EncInv, Accumulated
    <3>3. Near(pos', read', window'.previous.age, window'.previous.pos)
      BY <1>1, <1>5, <3>1
    <3>4. Passed(t) \in Nat /\ Passed(t)' = Passed(t)
      BY <1>1, EncTypes, PassedRange DEF Passed
    <3>5. Dated(window.previous.age, window.previous.at, t)'
      BY <1>1, <1>3, <3>2, <3>4 DEF Dated
    <3>. QED BY <1>1, <2>2, <3>1, <3>3, <3>5 DEF Accumulated
  <2>. QED BY <2>1, <2>2
<1>8. Announced'
  BY <1>1 DEF EncInv, Announced, Passed
<1>9. EncTypeOK'
  BY <1>1, <1>3 DEF EncInv, EncTypeOK
<1>. QED BY <1>4, <1>6, <1>7, <1>8, <1>9 DEF EncInv

LEMMA LatchKeeps ==
  ASSUME EncInv, Latch
  PROVE  EncInv'
PROOF
<1>1. /\ read # Nothing /\ read.age <= Late
      /\ read' = [read EXCEPT !.step = "latched", !.pos = pos]
      /\ UNCHANGED <<clock, pos, track, window, published, quiet>>
  BY DEF Latch
<1>2. read \in Reads /\ read.age <= quiet /\ read.age \in Nat /\ pos \in Positions /\ pos \in Int
  BY <1>1, ReadTypes, EncTypes DEF EncInv, Reading, EncTypeOK
<1>3. /\ read' \in Reads /\ read'.age = read.age /\ read'.pos = pos
      /\ read'.step = "latched"
  BY <1>1, <1>2 DEF Reads
<1>4. Reading'
  <2>1. Reach(read.age) \in Int /\ Reach(0) <= Reach(read.age)
    BY <1>2, ReachGrows, ReachMonotone
  <2>2. Reach(0) = 0
    BY EncConstants DEF Reach
  <2>3. Within(pos', read'.pos, Reach(read'.age))
    BY <1>1, <1>2, <1>3, <2>1, <2>2 DEF Within
  <2>. QED BY <1>1, <1>2, <1>3, <2>3 DEF Reading
\* The rotor was here less than Late after the time stamp.
<1>5. ASSUME NEW age \in Int, NEW at \in Int, Near(pos, read, age, at)
      PROVE  Near(pos', read', age, at)
  <2>. SUFFICES ASSUME age < MaxReadAge
                PROVE  Within(pos, at, Reach(age)) /\ Within(pos, at, Reach(age - read.age + Late))
    BY <1>1, <1>3 DEF Near
  <2>1. Within(pos, at, Reach(age))
    BY <1>5 DEF Near
  <2>2. age <= age - read.age + Late /\ age - read.age + Late \in Int
    BY <1>1, <1>2, EncConstants
  <2>3. Reach(age) \in Int /\ Reach(age - read.age + Late) \in Int
        /\ Reach(age) <= Reach(age - read.age + Late)
    BY <2>2, ReachGrows, ReachMonotone
  <2>. QED BY <1>2, <2>1, <2>3 DEF Within
<1>6. Followed'
  <2>. SUFFICES ASSUME track # Nothing
                PROVE  Followed'
    BY <1>1 DEF Followed
  <2>1. /\ track \in Tracks /\ track.raw = track.pos % Counts
        /\ ~track.outrun => track.pos = track.unwrap + track.turns
        /\ track.outrun => CanOutrun
        /\ Near(pos, read, track.age, track.pos) /\ read.age <= track.age
    BY <1>1 DEF EncInv, Followed
  <2>2. track.age \in Int /\ track.pos \in Int
    BY <2>1, EncConstants DEF Tracks, Positions
  <2>3. Near(pos', read', track'.age, track'.pos)
    BY <1>1, <1>5, <2>1, <2>2
  <2>. QED BY <1>1, <1>3, <2>1, <2>3 DEF Followed
<1>7. Accumulated'
  <2>1. CASE window.previous = Nothing
    BY <1>1, <2>1 DEF EncInv, Accumulated
  <2>2. CASE window.previous # Nothing
    <3>1. /\ window \in Windows /\ window.elapsed = window.took
          /\ window.previous.raw = window.previous.pos % Counts
          /\ ~window.outrun => window.counts = window.previous.pos - window.origin
          /\ window.outrun => CanOutrun
          /\ Near(pos, read, window.previous.age, window.previous.pos)
      BY <2>2 DEF EncInv, Accumulated
    <3>2. PICK t \in 0 .. ClockUs - 1 : Dated(window.previous.age, window.previous.at, t)
      BY <2>2 DEF EncInv, Accumulated
    <3>3. window.previous.age \in Int /\ window.previous.pos \in Int
      BY <2>2, <3>1, EncConstants DEF Windows, Readings, Positions
    <3>4. Near(pos', read', window'.previous.age, window'.previous.pos)
      BY <1>1, <1>5, <3>1, <3>3
    <3>5. Dated(window.previous.age, window.previous.at, t)'
      BY <1>1, <1>3, <3>2 DEF Dated, Passed
    <3>. QED BY <1>1, <2>2, <3>1, <3>4, <3>5 DEF Accumulated
  <2>. QED BY <2>1, <2>2
<1>8. Announced'
  BY <1>1 DEF EncInv, Announced, Passed
<1>9. EncTypeOK'
  BY <1>1, <1>3 DEF EncInv, EncTypeOK
<1>. QED BY <1>4, <1>6, <1>7, <1>8, <1>9 DEF EncInv

LEMMA HoldKeeps ==
  ASSUME EncInv, Hold
  PROVE  EncInv'
PROOF
<1>1. /\ read' = Nothing /\ quiet' = 0 /\ published' = Nothing /\ window' = Unready
      /\ UNCHANGED <<clock, pos, track>>
  BY DEF Hold, Invalidate
<1>2. 0 \in 0 .. MaxQuiet
  BY EncConstants
<1>3. Followed'
  BY <1>1 DEF EncInv, Followed, Near
<1>4. Reading' /\ Announced'
  BY <1>1 DEF Reading, Announced
<1>5. EncTypeOK'
  BY <1>1, <1>2, UnreadyIsAccumulated DEF EncInv, EncTypeOK
<1>. QED BY <1>1, <1>3, <1>4, <1>5, UnreadyIsAccumulated DEF EncInv

LEMMA ResetFilterKeeps ==
  ASSUME EncInv, ResetFilter
  PROVE  EncInv'
PROOF
<1>1. window' = Unready /\ UNCHANGED <<clock, pos, read, track, published, quiet>>
  BY DEF ResetFilter
<1>2. Followed' /\ Reading' /\ Announced'
  BY <1>1 DEF EncInv, Followed, Reading, Announced, Near, Passed
<1>3. EncTypeOK'
  BY <1>1, UnreadyIsAccumulated DEF EncInv, EncTypeOK
<1>. QED BY <1>1, <1>2, <1>3, UnreadyIsAccumulated DEF EncInv

LEMMA AskKeeps ==
  ASSUME EncInv, Ask
  PROVE  EncInv'
PROOF
<1>1. published' = Nothing /\ UNCHANGED <<clock, pos, read, track, window, quiet>>
  BY DEF Ask
<1>2. Followed' /\ Reading' /\ Announced' /\ Accumulated'
  BY <1>1 DEF EncInv, Followed, Reading, Announced, Accumulated, Near, Dated, Passed
<1>3. EncTypeOK'
  BY <1>1 DEF EncInv, EncTypeOK
<1>. QED BY <1>2, <1>3 DEF EncInv

-------------------------------------------------------------------------------
\* The multi-turn position follows the sample.
LEMMA FollowKeeps ==
  ASSUME EncInv, Latched, track' = Follow(Sample.raw), read' = Nothing, UNCHANGED pos
  PROVE  Followed' /\ track' \in Tracks
PROOF
<1>1. /\ read # Nothing /\ read.step = "latched"
  BY DEF Latched
<1>2. /\ read.age \in 0 .. MaxQuiet /\ read.age \in Nat /\ read.pos \in Positions /\ read.pos \in Int
      /\ read.age \in 0 .. MaxReadAge
  BY <1>1, ReadTypes, EncConstants
<1>3. Within(pos, read.pos, Reach(read.age))
  BY <1>1 DEF EncInv, Reading
<1>4. Sample.raw = read.pos % Counts /\ Sample.raw \in Angles /\ Sample.raw \in Int
  BY <1>2, SampleIs, EncConstants, Division DEF Angles
<1>5. ASSUME track' \in Tracks, track'.raw = read.pos % Counts, track'.pos = read.pos,
             track'.age = read.age, ~track'.outrun => track'.pos = track'.unwrap + track'.turns,
             track'.outrun => CanOutrun
      PROVE  Followed' /\ track' \in Tracks
  <2>1. Near(pos', read', track'.age, track'.pos)
    BY <1>3, <1>5 DEF Near
  <2>. QED BY <1>5, <2>1 DEF Followed
<1>6. CASE track = Nothing \/ track.age - read.age >= MaxGap
  <2>1. track' = [raw |-> Sample.raw, unwrap |-> Sample.raw, age |-> read.age, pos |-> read.pos,
                  turns |-> read.pos - Sample.raw, outrun |-> FALSE]
    BY <1>6 DEF Follow
  <2>2. track' \in Tracks
    <3>1. Sample.raw \in -MaxUnwrap .. MaxUnwrap
          /\ read.pos - Sample.raw \in 1 - Travel - Counts .. Travel
      BY <1>2, <1>4, EncConstants DEF Angles, Positions
    <3>. DEFINE raw == Sample.raw
                turns == read.pos - Sample.raw
    <3>2. raw \in Angles /\ raw \in -MaxUnwrap .. MaxUnwrap /\ turns \in 1 - Travel - Counts .. Travel
      BY <1>4, <3>1
    <3>3. track' = [raw |-> raw, unwrap |-> raw, age |-> read.age, pos |-> read.pos,
                    turns |-> turns, outrun |-> FALSE]
      BY <2>1
    <3>. HIDE DEF raw, turns
    <3>. QED BY <1>2, <3>2, <3>3 DEF Tracks
  <2>3. read.pos = Sample.raw + (read.pos - Sample.raw)
    BY <1>2, <1>4
  <2>. QED BY <1>4, <1>5, <2>1, <2>2, <2>3
<1>7. CASE ~(track = Nothing \/ track.age - read.age >= MaxGap)
  <2>1. /\ track \in Tracks /\ track.raw = track.pos % Counts
        /\ ~track.outrun => track.pos = track.unwrap + track.turns
        /\ track.outrun => CanOutrun
        /\ Near(pos, read, track.age, track.pos) /\ read.age <= track.age
    BY <1>1, <1>7 DEF EncInv, Followed
  <2>2. track.age \in Int /\ track.pos \in Int /\ track.unwrap \in Int /\ track.turns \in Int
    BY <2>1, EncConstants DEF Tracks, Positions
  <2>3. track.age - read.age < MaxGap /\ track.age - read.age \in Int
    BY <1>2, <1>7, <2>2, EncConstants
  <2>4. track.age < MaxReadAge
    BY <1>2, <2>2, <2>3, EncConstants
  <2>5. Within(read.pos, track.pos, Reach(track.age - read.age + Late))
    BY <1>1, <2>1, <2>4 DEF Near
  <2>. DEFINE moved == read.pos - track.pos
              turned == Outrun(track.age - read.age, moved)
              delta == RawDelta(read.pos % Counts, track.pos % Counts)
              next == Saturated(track.unwrap + delta)
  <2>6. (~turned => delta = moved) /\ (turned => CanOutrun) /\ turned \in BOOLEAN
    BY <1>2, <2>2, <2>3, <2>5, AcceptedGap
  <2>7. delta \in Int /\ next \in -MaxUnwrap .. MaxUnwrap
    <3>1. delta \in Int
      BY <1>2, <2>2, RawDeltaIsInt
    <3>. HIDE DEF delta
    <3>. QED BY <2>2, <3>1, EncConstants DEF Saturated
  <2>8. track' = [raw |-> Sample.raw, unwrap |-> next, age |-> read.age, pos |-> read.pos,
                  turns |-> IF track.outrun \/ turned THEN 0 ELSE track.turns,
                  outrun |-> track.outrun \/ turned]
    BY <1>4, <1>7, <2>1 DEF Follow
  <2>. HIDE DEF next, turned, delta
  <2>9. 0 \in 1 - Travel - Counts .. Travel
    BY EncConstants
  <2>10. /\ track' \in Tracks /\ track'.raw = Sample.raw /\ track'.pos = read.pos
         /\ track'.age = read.age /\ track'.unwrap = next
         /\ track'.outrun = (track.outrun \/ turned)
         /\ ~track'.outrun => track'.turns = track.turns
    BY <1>2, <1>4, <2>1, <2>6, <2>7, <2>8, <2>9 DEF Tracks
  <2>11. ASSUME ~track'.outrun
         PROVE  track'.pos = track'.unwrap + track'.turns
    <3>1. ~track.outrun /\ ~turned
      BY <2>10, <2>11
    <3>2. track.pos = track.unwrap + track.turns /\ delta = read.pos - track.pos
      BY <2>1, <2>6, <3>1
    <3>3. track.unwrap + delta = read.pos - track.turns
      BY <1>2, <2>2, <3>2
    <3>4. track.turns \in 1 - Travel - Counts .. Travel /\ read.pos \in -Travel .. Travel
      BY <1>2, <2>1 DEF Tracks, Positions
    \* The position is within the range that does not saturate.
    <3>5. read.pos - track.turns \in -MaxUnwrap .. MaxUnwrap
      BY <3>4, EncConstants
    <3>6. next = read.pos - track.turns
      BY <3>3, <3>5, EncConstants DEF Saturated, next
    <3>. QED BY <1>2, <2>2, <2>10, <2>11, <3>6
  <2>12. track'.outrun => CanOutrun
    BY <2>1, <2>6, <2>10
  <2>. QED BY <1>4, <1>5, <2>10, <2>11, <2>12
<1>. QED BY <1>6, <1>7

\* The speed window takes the sample.
LEMMA PushKeeps ==
  ASSUME EncInv, Latched, read.age < FaultUs, window' = PushSpeed(Sample), read' = Nothing,
         quiet' = 0, UNCHANGED <<clock, pos>>
  PROVE  /\ Accumulated' /\ window'.previous \in {Nothing} \cup Readings
         /\ window'.elapsed \in 0 .. Window - 1 /\ window'.ready \in BOOLEAN /\ window'.outrun \in BOOLEAN
PROOF
<1>1. read # Nothing /\ read.step = "latched"
  BY DEF Latched
<1>2. read.age \in Nat /\ read.pos \in Int /\ read.age \in 0 .. MaxReadAge
  BY <1>1, ReadTypes, EncConstants
<1>3. Within(pos, read.pos, Reach(read.age))
  BY <1>1 DEF EncInv, Reading
<1>4. PICK s \in 0 .. ClockUs - 1 :
        /\ Passed(s) = read.age /\ Sample.raw = read.pos % Counts /\ Sample.at = Us(s)
        /\ Sample.age = read.age /\ Sample.pos = read.pos /\ Sample \in Readings
  BY SampleIs
<1>5. window \in Windows /\ window.elapsed = window.took
      /\ (window.previous = Nothing => window.counts = 0) /\ (window.outrun => CanOutrun)
  BY DEF EncInv, Accumulated
<1>6. /\ window.counts \in Int /\ window.origin \in Int /\ window.elapsed \in 0 .. Window - 1
      /\ window.ready \in BOOLEAN /\ window.took \in Int /\ window.outrun \in BOOLEAN
  BY <1>5, EncConstants DEF Windows
\* A window that ends with this sample.
<1>7. ASSUME window' \in Windows, window'.elapsed = window'.took, window'.previous = Sample,
             ~window'.outrun => window'.counts = read.pos - window'.origin,
             window'.outrun => CanOutrun
      PROVE  /\ Accumulated' /\ window'.previous \in {Nothing} \cup Readings
             /\ window'.elapsed \in 0 .. Window - 1 /\ window'.ready \in BOOLEAN /\ window'.outrun \in BOOLEAN
  <2>1. window'.previous # Nothing
    BY <1>4, <1>7 DEF Readings, Nothing
  <2>2. Near(pos', read', window'.previous.age, window'.previous.pos)
    BY <1>3, <1>4, <1>7 DEF Near
  <2>3. Passed(s)' = Passed(s)
    BY DEF Passed
  <2>4. Passed(s)' <= FaultUs - 1 + quiet'
    BY <1>2, <1>4, <2>3, EncConstants
  <2>5. window'.previous.age = Bounded(Passed(s)', MaxReadAge)
    BY <1>2, <1>4, <1>7, <2>3, EncConstants DEF Bounded
  <2>6. Dated(window.previous.age, window.previous.at, s)'
    BY <1>4, <1>7, <2>4, <2>5 DEF Dated, Us, Bounded
  <2>7. window'.previous.raw = window'.previous.pos % Counts
        /\ (~window'.outrun => window'.counts = window'.previous.pos - window'.origin)
    BY <1>4, <1>7
  <2>8. Accumulated'
    BY <1>7, <2>1, <2>2, <2>6, <2>7 DEF Accumulated
  <2>. QED BY <1>7, <2>8 DEF Windows
<1>8. CASE window.previous = Nothing
  <2>1. window' = [window EXCEPT !.previous = Sample, !.origin = Sample.pos]
    BY <1>8 DEF PushSpeed, Closes, Usable
  <2>2. /\ window' \in Windows /\ window'.previous = Sample /\ window'.origin = read.pos
        /\ window'.counts = window.counts /\ window'.elapsed = window.elapsed
        /\ window'.took = window.took /\ window'.outrun = window.outrun
    BY <1>2, <1>4, <1>5, <2>1 DEF Windows
  <2>3. window'.counts = read.pos - window'.origin
    BY <1>2, <1>5, <1>8, <2>2
  <2>. QED BY <1>5, <1>7, <2>2, <2>3
\* A sample of the same microsecond: the earlier one stays.
<1>9. CASE window.previous # Nothing /\ Interval(Sample) = 0
  <2>1. window' = window
    BY <1>9 DEF PushSpeed, Closes, Usable
  <2>2. /\ window.previous.raw = window.previous.pos % Counts
        /\ ~window.outrun => window.counts = window.previous.pos - window.origin
        /\ Near(pos, read, window.previous.age, window.previous.pos)
    BY <1>9 DEF EncInv, Accumulated
  <2>3. PICK t \in 0 .. ClockUs - 1 : Dated(window.previous.age, window.previous.at, t)
    BY <1>9 DEF EncInv, Accumulated
  <2>4. Passed(t) = read.age
    <3>1. Interval(Sample) = Passed(t) - read.age /\ Passed(t) \in Nat
      BY <1>9, <2>3, IntervalOfWindow
    <3>. QED BY <1>2, <1>9, <3>1
  <2>5. Passed(t)' = Passed(t) /\ Passed(t)' <= FaultUs - 1 + quiet'
    <3>1. Passed(t)' = Passed(t)
      BY DEF Passed
    <3>. QED BY <1>2, <2>4, <3>1, EncConstants
  <2>6. Dated(window.previous.age, window.previous.at, t)'
    <3>1. window.previous.at = Us(t) /\ window.previous.age = Bounded(Passed(t), MaxReadAge)
      BY <2>3 DEF Dated
    <3>2. window'.previous.age = Bounded(Passed(t)', MaxReadAge)
      BY <2>1, <2>5, <3>1
    <3>. QED BY <2>1, <2>5, <3>1, <3>2 DEF Dated, Us, Bounded
  <2>7. Near(pos', read', window'.previous.age, window'.previous.pos)
    BY <2>1, <2>2 DEF Near
  <2>8. Accumulated'
    BY <1>5, <1>9, <2>1, <2>2, <2>6, <2>7 DEF Accumulated
  <2>. QED BY <1>5, <2>1, <2>8 DEF Windows
\* The sample closes the window, or comes after a gap: a new one begins with it.
<1>10. ASSUME window' = Rebased(Sample) \/ window' = [Rebased(Sample) EXCEPT !.ready = TRUE]
       PROVE  /\ Accumulated' /\ window'.previous \in {Nothing} \cup Readings
              /\ window'.elapsed \in 0 .. Window - 1 /\ window'.ready \in BOOLEAN /\ window'.outrun \in BOOLEAN
  <2>1. 0 \in 0 .. Window - 1
    BY EncConstants
  <2>2. Rebased(Sample) = [previous |-> Sample, counts |-> 0, elapsed |-> 0, ready |-> FALSE,
                           origin |-> read.pos, took |-> 0, outrun |-> FALSE]
    <3>1. Rebased(Sample) = [Unready EXCEPT !.previous = Sample, !.origin = read.pos]
      BY <1>4 DEF Rebased
    <3>. QED BY <3>1 DEF Unready
  <2>3. \E b \in BOOLEAN : window' = [previous |-> Sample, counts |-> 0, elapsed |-> 0, ready |-> b,
                                      origin |-> read.pos, took |-> 0, outrun |-> FALSE]
    <3>1. CASE window' = Rebased(Sample)
      BY <2>2, <3>1
    <3>2. CASE window' = [Rebased(Sample) EXCEPT !.ready = TRUE]
      <4>. DEFINE e == [previous |-> Sample, counts |-> 0, elapsed |-> 0, ready |-> FALSE,
                        origin |-> read.pos, took |-> 0, outrun |-> FALSE]
      <4>. HIDE DEF e
      <4>1. window' = [e EXCEPT !.ready = TRUE]
        BY <2>2, <3>2 DEF e
      <4>2. window' = [previous |-> Sample, counts |-> 0, elapsed |-> 0, ready |-> TRUE,
                       origin |-> read.pos, took |-> 0, outrun |-> FALSE]
        BY <4>1 DEF e
      <4>. QED BY <4>2
    <3>. QED BY <1>10, <3>1, <3>2
  <2>4. /\ window' \in Windows /\ window'.previous = Sample /\ window'.counts = 0
        /\ window'.elapsed = 0 /\ window'.took = 0 /\ window'.origin = read.pos
        /\ window'.outrun = FALSE
    BY <1>2, <1>4, <2>1, <2>3 DEF Windows
  <2>5. window'.counts = read.pos - window'.origin
    BY <1>2, <2>4
  <2>. QED BY <1>7, <2>4, <2>5
<1>11. CASE Usable(Sample) /\ ~Closes(Sample)
  <2>. DEFINE m == Measured(Sample)
  <2>1. /\ ~m.outrun => m.counts = m.moved
        /\ m.elapsed = m.took /\ m.counts \in Int /\ m.elapsed \in Nat
        /\ m.outrun \in BOOLEAN /\ (m.outrun => CanOutrun)
    BY <1>11, MeasuredIsTrue
  <2>2. m.moved = read.pos - window.origin
    BY <1>4 DEF Measured
  <2>3. m.elapsed < Window
    BY <1>11, <2>1, EncConstants DEF Closes
  <2>4. window.previous # Nothing /\ ~(Interval(Sample) = 0)
    BY <1>11 DEF Usable
  <2>5. window' = [window EXCEPT !.previous = Sample, !.counts = m.counts, !.elapsed = m.elapsed,
                                 !.took = m.took, !.outrun = m.outrun]
    BY <1>11, <2>4 DEF PushSpeed
  <2>. HIDE DEF m
  <2>6. m.elapsed \in 0 .. Window - 1 /\ m.took \in Int
    BY <2>1, <2>3, EncConstants
  <2>7. /\ window' \in Windows /\ window'.previous = Sample /\ window'.counts = m.counts
        /\ window'.elapsed = m.elapsed /\ window'.took = m.took /\ window'.origin = window.origin
        /\ window'.outrun = m.outrun
    BY <1>4, <1>5, <2>1, <2>5, <2>6 DEF Windows
  <2>8. (~window'.outrun => window'.counts = read.pos - window'.origin) /\ (window'.outrun => CanOutrun)
    BY <2>1, <2>2, <2>7
  <2>. QED BY <1>7, <2>1, <2>7, <2>8
<1>12. CASE Closes(Sample)
  <2>1. window.previous # Nothing /\ ~(Interval(Sample) = 0)
    BY <1>12 DEF Closes, Usable
  <2>2. window' = [Rebased(Sample) EXCEPT !.ready = TRUE]
    BY <1>12, <2>1 DEF PushSpeed
  <2>. QED BY <1>10, <2>2
<1>13. CASE window.previous # Nothing /\ Interval(Sample) # 0 /\ ~Usable(Sample)
  <2>1. ~Closes(Sample)
    BY <1>13 DEF Closes
  <2>2. window' = Rebased(Sample)
    BY <1>13, <2>1 DEF PushSpeed
  <2>. QED BY <1>10, <2>2
<1>. QED BY <1>8, <1>9, <1>11, <1>12, <1>13

LEMMA PublishAngleKeeps ==
  ASSUME EncInv, PublishAngle
  PROVE  EncInv'
PROOF
<1>1. /\ Latched /\ track' = Follow(Sample.raw) /\ read' = Nothing /\ quiet' = 0
      /\ UNCHANGED <<clock, pos>>
  BY DEF PublishAngle
<1>2. Followed' /\ track' \in Tracks
  BY <1>1, FollowKeeps
<1>3. 0 \in 0 .. MaxQuiet
  BY EncConstants
<1>4. Reading'
  BY <1>1 DEF Reading
<1>5. CASE TooLate(read.age)
  <2>1. published' = Nothing /\ window' = Unready
    BY <1>5 DEF PublishAngle, Invalidate
  <2>2. Announced'
    BY <2>1 DEF Announced
  <2>3. EncTypeOK'
    BY <1>1, <1>2, <1>3, <2>1, UnreadyIsAccumulated DEF EncInv, EncTypeOK
  <2>. QED BY <1>2, <1>4, <2>1, <2>2, <2>3, UnreadyIsAccumulated DEF EncInv
<1>6. CASE ~TooLate(read.age)
  <2>1. /\ published' = [ms |-> Ms(SampledAt(read.age)), us |-> Sample.at, age |-> read.age]
        /\ window' = PushSpeed(Sample)
    BY <1>6 DEF PublishAngle
  <2>2. read.age \in Nat /\ read.age < FaultUs
    BY <1>1, <1>6, ReadTypes, EncConstants DEF TooLate, Latched
  <2>3. /\ Accumulated' /\ window'.previous \in {Nothing} \cup Readings
        /\ window'.elapsed \in 0 .. Window - 1 /\ window'.ready \in BOOLEAN /\ window'.outrun \in BOOLEAN
    BY <1>1, <2>1, <2>2, PushKeeps
  <2>4. PICK s \in 0 .. ClockUs - 1 :
          s = SampledAt(read.age) /\ Passed(s) = read.age /\ Sample.at = Us(s)
    BY <1>1, SampleIs
  <2>5. Ms(s) \in 0 .. MsMod - 1
    BY MsRange
  <2>6. Us(s) \in 0 .. UsMod - 1
    BY EncConstants, Division DEF Us
  <2>7. published' \in Stamps /\ published'.ms = Ms(s) /\ published'.us = Us(s)
        /\ published'.age = read.age
    BY <2>1, <2>2, <2>4, <2>5, <2>6, EncConstants DEF Stamps
  <2>8. Announced'
    <3>1. Passed(s)' = read.age
      BY <1>1, <2>4 DEF Passed
    <3>2. Passed(s)' <= FaultUs - 1 + quiet' /\ published'.age = Bounded(Passed(s)', FaultUs)
      BY <1>1, <2>2, <2>7, <3>1, EncConstants DEF Bounded
    <3>. QED BY <2>7, <3>2 DEF Announced, Ms, Us, Bounded
  <2>9. EncTypeOK'
    BY <1>1, <1>2, <1>3, <2>3, <2>7 DEF EncInv, EncTypeOK
  <2>. QED BY <1>2, <1>4, <2>3, <2>8, <2>9 DEF EncInv
<1>. QED BY <1>5, <1>6

-------------------------------------------------------------------------------
LEMMA EncStepKeeps == EncInv /\ [EncNext]_encVars => EncInv'
PROOF
<1>. SUFFICES ASSUME EncInv, [EncNext]_encVars
              PROVE  EncInv'
  OBVIOUS
<1>1. CASE UNCHANGED encVars
  BY <1>1 DEF encVars, EncInv, EncTypeOK, Reading, Followed, Accumulated, Announced, Near, Dated, Passed
<1>2. CASE EncNext
  BY <1>2, EncTickKeeps, StampKeeps, LatchKeeps, HoldKeeps, PublishAngleKeeps, AskKeeps,
     ResetFilterKeeps DEF EncNext
<1>. QED BY <1>1, <1>2

LEMMA EncInvariant == EncSpec => []EncInv
BY EncInitHolds, EncStepKeeps, PTL DEF EncSpec

\* The rotor, the reads, the track, the window and the stamps of as5600.rs,
\* feedback.rs and telemetry.rs keep their types.
THEOREM EncoderTypes == EncSpec => []EncTypeOK
PROOF
<1>1. EncInv => EncTypeOK
  BY DEF EncInv
<1>. QED BY <1>1, EncInvariant, PTL

\* The multi-turn position of AngleTrack follows the rotor, and every speed that
\* WindowSpeed closes is the true motion over the true time of its window, for every
\* clock width and resolution, up to the speed that turns half a turn in exactly
\* ENC_SPEED_MAX_GAP_US. What is said of the motion excepts a window, or a track, in
\* which the rotor did turn half a turn within an accepted gap; the time is true always.
THEOREM MotionsAreTrue == EncSpec => []MotionIsTrue
PROOF
<1>1. EncInv => MotionIsTrue
  <2>. SUFFICES ASSUME EncInv
                PROVE  MotionIsTrue
    OBVIOUS
  <2>1. track # Nothing /\ ~track.outrun => track.pos = track.unwrap + track.turns
    BY DEF EncInv, Followed
  <2>2. Latched /\ Usable(Sample) =>
          LET m == Measured(Sample) IN m.elapsed = m.took /\ (~m.outrun => m.counts = m.moved)
    BY MeasuredIsTrue
  <2>. QED BY <2>1, <2>2 DEF MotionIsTrue
<1>. QED BY <1>1, EncInvariant, PTL

\* A rotor that cannot turn half a turn in the longest accepted gap and the delay of a
\* latch together is never outrun: the gap limit of config.rs, with the delay counted
\* in, makes the multi-turn position of AngleTrack and every motion that WindowSpeed
\* measures true without exception.
THEOREM ClearGapsSuffice ==
  ASSUME (MaxGap - 1 + Late) * Speed < Half
  PROVE  EncSpec => [](/\ track # Nothing => track.pos = track.unwrap + track.turns
                       /\ Latched /\ Usable(Sample) => Measured(Sample).counts = Measured(Sample).moved)
PROOF
<1>1. ~CanOutrun
  <2>1. Reach(MaxGap - 1 + Late) = (MaxGap - 1 + Late) * Speed
    BY EncConstants DEF Reach
  <2>2. Reach(MaxGap - 1 + Late) \in Int /\ Half \in Int
    BY EncConstants, ReachGrows DEF Half
  <2>. QED BY <2>1, <2>2 DEF CanOutrun
<1>2. EncInv => /\ track # Nothing => track.pos = track.unwrap + track.turns
                /\ Latched /\ Usable(Sample) => Measured(Sample).counts = Measured(Sample).moved
  <2>. SUFFICES ASSUME EncInv
                PROVE  /\ track # Nothing => track.pos = track.unwrap + track.turns
                       /\ Latched /\ Usable(Sample) => Measured(Sample).counts = Measured(Sample).moved
    OBVIOUS
  <2>1. track # Nothing => track.pos = track.unwrap + track.turns
    BY <1>1 DEF EncInv, Followed
  <2>2. Latched /\ Usable(Sample) => Measured(Sample).counts = Measured(Sample).moved
    BY <1>1, MeasuredIsTrue
  <2>. QED BY <2>1, <2>2
<1>. QED BY <1>2, EncInvariant, PTL

\* enc_valid never vouches for an angle that the sensor was asked for ENC_FAULT_MS ago
\* or earlier, although it compares wrapped milliseconds, and enc_age_us is then the
\* true age, although it subtracts wrapped microseconds.
THEOREM AnglesAreRecent == EncSpec => []ValidIsRecent
PROOF
<1>1. EncInv => ValidIsRecent
  <2>. SUFFICES ASSUME EncInv, EncValid
                PROVE  published.age < FaultUs /\ EncAge = published.age
    BY DEF ValidIsRecent
  <2>1. published # Nothing /\ (Ms(clock) - published.ms) % MsMod < EncFaultMs
    BY DEF EncValid
  <2>2. PICK t \in 0 .. ClockUs - 1 :
          /\ published.ms = Ms(t) /\ published.us = Us(t)
          /\ Passed(t) <= FaultUs - 1 + quiet /\ published.age = Bounded(Passed(t), FaultUs)
    BY <2>1 DEF EncInv, Announced
  <2>3. clock \in 0 .. ClockUs - 1 /\ quiet \in 0 .. MaxQuiet /\ Passed(t) \in 0 .. ClockUs - 1
    BY EncTypes, PassedRange
  <2>4. Passed(t) <= FaultUs - 1 + MaxQuiet
    BY <2>2, <2>3, EncConstants
  <2>5. Passed(t) < FaultUs
    BY <2>1, <2>2, <2>3, <2>4, FreshIsInTime
  <2>6. Us(clock - Us(t)) = Passed(t)
    BY <2>3, <2>5, ReportedAge, EncConstants
  <2>. QED BY <2>2, <2>5, <2>6 DEF EncAge, Bounded
<1>. QED BY <1>1, EncInvariant, PTL
===============================================================================
