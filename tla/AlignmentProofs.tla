---------------------------- MODULE AlignmentProofs ----------------------------
(***************************************************************************)
(* When an alignment ends and what a completed one rests on, for every     *)
(* clock, hold time, timeout, poll gap and motion limit. The times that    *)
(* observe computes on the wrapping clock are related to true ages, and    *)
(* its single anchor to the polls that were seen since.                    *)
(***************************************************************************)
EXTENDS Alignment, TLAPS

\* The anchor of a hold is one of the polls of the streak, nothing has moved away
\* from it since, and its stamp tells how long ago that was.
Anchored ==
  \E e \in streak :
    /\ e.raw = hold.anchor /\ StillSince(e)
    /\ age - e.t = Since(now, hold.since) /\ age - e.t < HoldMs

\* A running alignment: its clocks tell the truth, and a hold is anchored.
InStep ==
  mode = "Align" =>
    /\ verdict = "none"
    /\ age = Since(now, started) /\ age < TimeoutMs
    /\ lastPoll = now
    /\ \A f \in streak : f.t <= age
    /\ hold # NoHold => Anchored

IInv == TypeOK /\ InStep /\ TimeoutExact /\ CompletedOnEvidence

-------------------------------------------------------------------------------
\* A number within one turn of the clock.
LEMMA SmallMod ==
  ASSUME NEW m \in Nat \ {0}, NEW x \in Int, -m <= x, x < 2 * m
  PROVE  x % m = IF x < 0 THEN x + m ELSE IF x < m THEN x ELSE x - m
OBVIOUS

LEMMA RemainderRange ==
  ASSUME NEW m \in Nat \ {0}, NEW x \in Int
  PROVE  x % m \in 0 .. m - 1
OBVIOUS

LEMMA HalfIsNat ==
  ASSUME NEW n \in Nat
  PROVE  n \div 2 \in Nat
OBVIOUS

\* Times on the wrapping clock add up while they are shorter than its turn.
LEMMA SinceAdds ==
  ASSUME NEW x \in Clock, NEW y \in Clock, NEW d \in Nat, Since(x, y) + d < ClockMod
  PROVE  Since((x + d) % ClockMod, y) = Since(x, y) + d
PROOF
<1>1. ClockMod \in Nat \ {0}
  BY AlignmentAssumption DEF Clock
<1>2. /\ x \in Int /\ y \in Int /\ 0 <= x /\ x < ClockMod /\ 0 <= y /\ y < ClockMod
  BY <1>1 DEF Clock
<1>3. \A z \in Int : -ClockMod <= z /\ z < 2 * ClockMod =>
        z % ClockMod = IF z < 0 THEN z + ClockMod ELSE IF z < ClockMod THEN z ELSE z - ClockMod
  BY <1>1, SmallMod
<1>4. Since(x, y) = IF x < y THEN x - y + ClockMod ELSE x - y
  BY <1>1, <1>2, <1>3 DEF Since
<1>5. d < ClockMod
  BY <1>1, <1>2, <1>4
<1>6. (x + d) % ClockMod = IF x + d < ClockMod THEN x + d ELSE x + d - ClockMod
  BY <1>1, <1>2, <1>3, <1>5
<1> DEFINE later == (x + d) % ClockMod
<1>7. later \in Int /\ 0 <= later /\ later < ClockMod
  BY <1>1, <1>2, <1>5, <1>6
<1>8. Since(later, y) = IF later < y THEN later - y + ClockMod ELSE later - y
  <2> HIDE DEF later
  <2>. QED BY <1>1, <1>2, <1>3, <1>7 DEF Since
<1>. QED BY <1>1, <1>2, <1>4, <1>5, <1>6, <1>8

-------------------------------------------------------------------------------
\* Clamped currents and a clamped ramp stay within the limit.
LEMMA ClampRange ==
  ASSUME NEW x \in Int
  PROVE  /\ Clamp(x, -MaxCurrent, MaxCurrent) \in Currents
         /\ Clamp(x, 1, MaxCurrent) \in Currents
         /\ 0 \in Currents
BY AlignmentAssumption DEF Clamp, Currents

LEMMA RampedRange ==
  ASSUME TypeOK, NEW dt \in Nat
  PROVE  Ramped(dt) \in Currents
PROOF
<1> DEFINE k == RampPerMs * dt
<1>1. k \in Nat
  BY AlignmentAssumption
<1>2. ref + Clamp(target - ref, -k, k) \in Currents
  <2> HIDE DEF k
  <2>. QED BY <1>1, AlignmentAssumption DEF TypeOK, Currents, Clamp
<1>. QED BY <1>2 DEF Ramped

LEMMA StallTypes ==
  ASSUME NEW dt \in Stalls
  PROVE  /\ dt \in Nat /\ dt > 0 /\ TimeoutMs + dt <= ClockMod
         /\ ClockMod \in Nat \ {0} /\ HoldMs \in Nat \ {0} /\ TimeoutMs \in Nat
         /\ HoldMs < TimeoutMs /\ PollGap \in Nat
BY AlignmentAssumption

LEMMA ClockWraps ==
  ASSUME now \in Clock, NEW d \in Nat
  PROVE  (now + d) % ClockMod \in Clock
PROOF
<1>1. ClockMod \in Nat \ {0}
  BY AlignmentAssumption DEF Clock
<1> DEFINE x == now + d
<1>2. x \in Int
  BY <1>1 DEF Clock
<1>3. x % ClockMod \in 0 .. ClockMod - 1
  <2> HIDE DEF x
  <2>. QED BY <1>1, <1>2, RemainderRange
<1>. QED BY <1>3 DEF Clock

\* A poll sees its own count as the nearest, and its own time as now.
LEMMA SelfDistance ==
  /\ \A r \in Raws : Distance(r, r) <= MaxMotion
  /\ \A t \in Clock : Since(t, t) = 0
PROOF
<1>1. \A r \in Int : Abs(r - r) = 0
  BY DEF Abs
<1>2. Counts \in Nat /\ MaxMotion \in Nat /\ Raws \subseteq Int
  BY AlignmentAssumption
<1>3. Counts \div 2 \in Nat
  BY <1>2, HalfIsNat
<1>4. \A t \in Clock : t - t = 0 /\ ClockMod \in Nat \ {0}
  BY AlignmentAssumption DEF Clock
<1>5. ClockMod \in Nat \ {0} => 0 % ClockMod = 0
  BY SmallMod
<1>6. \A r \in Raws : Distance(r, r) = 0
  BY <1>1, <1>2, <1>3 DEF Distance
<1>. QED BY <1>2, <1>4, <1>5, <1>6 DEF Since

-------------------------------------------------------------------------------
\* What a poll of a running alignment computes on the clock is what has passed.
LEMMA PollTimes ==
  ASSUME IInv, mode = "Align", NEW dt \in Stalls,
         now' = (now + dt) % ClockMod, age' = age + dt
  PROVE  /\ now' \in Clock /\ age' \in Ages /\ age \in Nat
         /\ Since(now', started) = age'
         /\ Since(now', lastPoll) = dt
         /\ hold # NoHold /\ Since(now, hold.since) < HoldMs =>
              Since(now', hold.since) = Since(now, hold.since) + dt
PROOF
<1>1. /\ now \in Clock /\ started \in Clock /\ age \in Ages
      /\ age = Since(now, started) /\ age < TimeoutMs /\ lastPoll = now
      /\ hold # NoHold => hold.since \in Clock
  BY DEF IInv, TypeOK, InStep
<1>2. /\ dt \in Nat /\ dt > 0 /\ TimeoutMs + dt <= ClockMod /\ ClockMod \in Nat \ {0}
      /\ HoldMs \in Nat \ {0} /\ TimeoutMs \in Nat /\ HoldMs < TimeoutMs
  BY StallTypes
<1>3. now' \in Clock
  BY <1>1, <1>2, ClockWraps
<1>4. age' \in Ages /\ age \in Nat
  BY <1>1, <1>2 DEF Ages
<1>5. Since(now', started) = age'
  <2>1. Since(now, started) + dt < ClockMod
    BY <1>1, <1>2, <1>4
  <2>. QED BY <2>1, <1>1, <1>2, SinceAdds
<1>6. Since(now', lastPoll) = dt
  <2>1. Since(now, now) = 0
    BY <1>1, SelfDistance
  <2>2. Since(now, now) + dt < ClockMod
    BY <2>1, <1>2
  <2>3. Since((now + dt) % ClockMod, now) = Since(now, now) + dt
    BY <2>2, <1>1, <1>2, SinceAdds
  <2>. QED BY <2>1, <2>3, <1>1, <1>2
<1>7. ASSUME hold # NoHold, Since(now, hold.since) < HoldMs
      PROVE  Since(now', hold.since) = Since(now, hold.since) + dt
  <2>1. Since(now, hold.since) \in Nat
    <3> DEFINE x == now - hold.since
    <3>1. x \in Int
      BY <1>1, <1>2, <1>7 DEF Clock
    <3>2. x % ClockMod \in Nat
      <4> HIDE DEF x
      <4>. QED BY <1>2, <3>1, RemainderRange
    <3>. QED BY <3>2 DEF Since
  <2>2. Since(now, hold.since) + dt < ClockMod
    BY <2>1, <1>2, <1>7
  <2>. QED BY <2>2, <1>1, <1>2, <1>7, SinceAdds
<1>. QED BY <1>3, <1>4, <1>5, <1>6, <1>7

\* A poll that qualifies without a gap keeps the poll that anchors the hold, as long
\* as the rotor is near it, however much of the streak is forgotten.
LEMMA AnchorKept ==
  ASSUME IInv, mode = "Align", NEW dt \in Stalls, NEW raw \in Raws, NEW meas \in Measured,
         now' = (now + dt) % ClockMod, age' = age + dt,
         Witness(dt, TRUE, meas, raw), dt <= PollGap, Steady(raw)
  PROVE  \E e \in streak' :
           /\ e.raw = hold.anchor
           /\ \A f \in streak' : f.t >= e.t => Distance(f.raw, e.raw) <= MaxMotion
           /\ age' - e.t = Since(now', hold.since)
PROOF
<1>1. hold # NoHold /\ Distance(raw, hold.anchor) <= MaxMotion
  BY DEF Steady
<1>2. PICK e \in streak : /\ e.raw = hold.anchor /\ StillSince(e)
                          /\ age - e.t = Since(now, hold.since) /\ age - e.t < HoldMs
  BY <1>1 DEF IInv, InStep, Anchored
<1>3. /\ age \in Nat /\ e.t \in Nat /\ dt \in Nat /\ HoldMs \in Nat /\ PollGap \in Nat
      /\ age' - e.t = age - e.t + dt
  BY StallTypes, PollTimes DEF IInv, TypeOK, Ages
<1>4. age' - e.t = Since(now', hold.since)
  BY <1>1, <1>2, <1>3, PollTimes
<1>5. streak' = Recent \cup {[t |-> age', raw |-> raw]}
  BY <1>3 DEF Witness
<1>6. e \in streak'
  BY <1>2, <1>3, <1>5 DEF Recent
<1>7. \A f \in streak' : f.t >= e.t => Distance(f.raw, e.raw) <= MaxMotion
  BY <1>1, <1>2, <1>5 DEF Recent, StillSince
<1>. QED BY <1>2, <1>4, <1>6, <1>7

\* Whatever a poll decides, the streak keeps its type, and no poll in it is later
\* than now.
LEMMA WitnessTypes ==
  ASSUME IInv, mode = "Align", NEW dt \in Stalls, NEW qualified \in BOOLEAN, NEW meas \in Measured,
         NEW raw \in Raws, now' = (now + dt) % ClockMod, age' = age + dt,
         Witness(dt, qualified, meas, raw)
  PROVE  /\ streak' \subseteq [t : Ages, raw : Raws] /\ flowing' \in BOOLEAN
         /\ \A f \in streak' : f.t <= age'
PROOF
<1>1. age' \in Ages /\ age \in Nat /\ dt \in Nat /\ streak \subseteq [t : Ages, raw : Raws]
  BY StallTypes, PollTimes DEF IInv, TypeOK
<1>2. \A f \in streak' : f \in streak \/ f = [t |-> age', raw |-> raw]
  BY DEF Witness, Recent
<1>3. [t |-> age', raw |-> raw] \in [t : Ages, raw : Raws]
  BY <1>1
<1>4. flowing' \in BOOLEAN
  BY DEF Witness, IInv, TypeOK
<1>5. \A f \in streak : f.t <= age /\ f.t \in Int
  BY <1>1 DEF IInv, InStep, Ages
<1>. QED BY <1>1, <1>2, <1>3, <1>4, <1>5

\* A poll that goes on: either the hold is broken, or it keeps its anchor, or this
\* poll is the new anchor.
LEMMA PendingStep ==
  ASSUME IInv, mode = "Align", NEW dt \in Stalls, NEW fed \in BOOLEAN, NEW meas \in Measured,
         NEW raw \in Raws, now' = (now + dt) % ClockMod, age' = age + dt,
         Witness(dt, Qualified(fed, meas, Ramped(dt)), meas, raw),
         Result(now', Qualified(fed, meas, Ramped(dt)), raw) = "Pending",
         lastPoll' = now',
         hold' = IF Broken(now', Qualified(fed, meas, Ramped(dt))) THEN NoHold
                 ELSE NextHold(now', raw),
         ref' = Ramped(dt), UNCHANGED <<mode, target, started, verdict>>
  PROVE  IInv'
PROOF
<1> DEFINE q == Qualified(fed, meas, Ramped(dt))
<1>1. /\ now' \in Clock /\ age' \in Ages /\ age \in Nat /\ dt \in Nat /\ dt > 0
      /\ Since(now', started) = age' /\ Since(now', lastPoll) = dt
  BY PollTimes, StallTypes
<1>2. q \in BOOLEAN
  BY DEF Qualified
<1>3. /\ streak' \subseteq [t : Ages, raw : Raws] /\ flowing' \in BOOLEAN
      /\ \A f \in streak' : f.t <= age'
  <2> HIDE DEF q
  <2>1. Witness(dt, q, meas, raw)
    BY DEF q
  <2>. QED BY <1>2, <2>1, WitnessTypes
<1>4. ~Due(now') /\ ~(~Broken(now', q) /\ Held(now', raw))
  BY DEF Result
<1>5. age' < TimeoutMs
  BY <1>1, <1>4, StallTypes DEF Due, Ages
<1>6. hold' \in [since : Clock, anchor : Raws] \cup {NoHold}
  BY <1>1 DEF NextHold, IInv, TypeOK
<1>7. TypeOK'
  <2>1. Ramped(dt) \in Currents
    BY <1>1, RampedRange DEF IInv
  <2>. QED BY <2>1, <1>1, <1>3, <1>6 DEF IInv, TypeOK
<1>8. ASSUME hold' # NoHold
      PROVE  Anchored'
  <2>1. q /\ dt <= PollGap /\ hold' = NextHold(now', raw)
    BY <1>8, <1>1, <1>2, StallTypes DEF Broken
  <2>2. Witness(dt, TRUE, meas, raw)
    BY <1>2, <2>1
  <2>3. CASE Steady(raw)
    <3>1. hold' = hold
      BY <2>1, <2>3 DEF NextHold
    <3>2. Since(now', hold.since) < HoldMs
      <4>1. ~Held(now', raw)
        BY <1>1, <1>4, <2>1, StallTypes DEF Broken
      <4>2. hold.since \in Clock
        BY <2>3 DEF Steady, IInv, TypeOK
      <4>3. Since(now', hold.since) \in Int
        <5>1. now' - hold.since \in Int /\ ClockMod \in Nat \ {0}
          BY <1>1, <4>2, StallTypes DEF Clock
        <5>. QED BY <5>1 DEF Since
      <4>. QED BY <4>1, <4>3, <2>3, StallTypes DEF Held
    <3>3. PICK e \in streak' :
            /\ e.raw = hold.anchor
            /\ \A f \in streak' : f.t >= e.t => Distance(f.raw, e.raw) <= MaxMotion
            /\ age' - e.t = Since(now', hold.since)
      BY <2>1, <2>2, <2>3, AnchorKept
    <3>. QED BY <3>1, <3>2, <3>3 DEF Anchored, StillSince
  <2>4. CASE ~Steady(raw)
    <3> DEFINE e == [t |-> age', raw |-> raw]
    <3>1. hold' = [since |-> now', anchor |-> raw]
      BY <2>1, <2>4 DEF NextHold
    <3>2. e \in streak'
      BY <2>2 DEF Witness
    <3>3. \A f \in streak' : f = e \/ f.t < e.t
      <4>1. \A f \in streak : f.t <= age /\ f.t \in Int
        BY DEF IInv, InStep, TypeOK, Ages
      <4>. QED BY <4>1, <2>2, <1>1 DEF Witness, Recent
    <3>4. \A f \in streak' : f.t >= e.t => Distance(f.raw, e.raw) <= MaxMotion
      <4>1. \A f \in streak' : f.t \in Int
        BY <1>3 DEF Ages
      <4>2. Distance(e.raw, e.raw) <= MaxMotion /\ e.t \in Int
        BY SelfDistance, <1>1 DEF Ages
      <4>. QED BY <4>1, <4>2, <3>3
    <3>5. age' - e.t = 0 /\ Since(now', hold'.since) = 0 /\ 0 < HoldMs
      BY <1>1, <3>1, SelfDistance, StallTypes DEF Ages
    <3>. QED BY <3>1, <3>2, <3>4, <3>5 DEF Anchored, StillSince
  <2>. QED BY <2>3, <2>4
<1>9. InStep'
  BY <1>1, <1>3, <1>5, <1>8 DEF IInv, InStep
<1>10. TimeoutExact' /\ CompletedOnEvidence'
  BY <1>5 DEF IInv, InStep, TimeoutExact, CompletedOnEvidence
<1>. QED BY <1>7, <1>9, <1>10 DEF IInv

\* A poll that ends the alignment.
LEMMA FinalStep ==
  ASSUME IInv, mode = "Align", NEW dt \in Stalls, NEW fed \in BOOLEAN, NEW meas \in Measured,
         NEW raw \in Raws, NEW m, NEW v,
         now' = (now + dt) % ClockMod, age' = age + dt,
         Witness(dt, Qualified(fed, meas, Ramped(dt)), meas, raw),
         v = "TimedOut" => Due(now'),
         v = "Complete" => ~Broken(now', Qualified(fed, meas, Ramped(dt))) /\ Held(now', raw),
         m \in {"Idle", "Fault"}, v \in {"TimedOut", "Complete", "Stopped"},
         Leave(m, v)
  PROVE  IInv'
PROOF
<1> DEFINE q == Qualified(fed, meas, Ramped(dt))
<1>1. /\ now' \in Clock /\ age' \in Ages /\ age \in Nat /\ dt \in Nat /\ dt > 0
      /\ Since(now', started) = age' /\ Since(now', lastPoll) = dt
  BY PollTimes, StallTypes
<1>2. q \in BOOLEAN
  BY DEF Qualified
<1>3. streak' \subseteq [t : Ages, raw : Raws] /\ flowing' \in BOOLEAN
  <2> HIDE DEF q
  <2>1. Witness(dt, q, meas, raw)
    BY DEF q
  <2>. QED BY <1>2, <2>1, WitnessTypes
<1>4. TypeOK'
  BY <1>1, <1>3, ClampRange DEF Leave, TypeOK
<1>5. InStep' /\ TimeoutExact'
  BY <1>1, StallTypes DEF Leave, InStep, TimeoutExact, Due
<1>6. ASSUME v = "Complete"
      PROVE  \E e \in streak' : age' - e.t >= HoldMs /\ StillSince(e)'
  <2>1. q /\ dt <= PollGap /\ Steady(raw) /\ Since(now', hold.since) >= HoldMs
    BY <1>1, <1>2, <1>6, StallTypes DEF Broken, Held
  <2>2. Witness(dt, TRUE, meas, raw)
    BY <1>2, <2>1
  <2>3. PICK e \in streak' :
          /\ e.raw = hold.anchor
          /\ \A f \in streak' : f.t >= e.t => Distance(f.raw, e.raw) <= MaxMotion
          /\ age' - e.t = Since(now', hold.since)
    BY <2>1, <2>2, AnchorKept
  <2>. QED BY <2>1, <2>3 DEF StillSince
<1>7. CompletedOnEvidence'
  BY <1>6 DEF Leave, CompletedOnEvidence
<1>. QED BY <1>4, <1>5, <1>7 DEF IInv

LEMMA PollStep ==
  ASSUME IInv, mode = "Align", NEW dt \in Stalls, NEW fed \in BOOLEAN, NEW meas \in Measured,
         NEW raw \in Raws, now' = (now + dt) % ClockMod, Poll(dt, fed, meas, raw)
  PROVE  IInv'
PROOF
<1> DEFINE q == Qualified(fed, meas, Ramped(dt))
           result == Result(now', q, raw)
<1>1. age' = age + dt /\ Witness(dt, q, meas, raw)
  BY DEF Poll
<1>2. /\ result = "TimedOut" => Due(now')
      /\ result = "Complete" => ~Broken(now', q) /\ Held(now', raw)
  BY DEF Result
<1>3. CASE /\ result = "Pending"
           /\ lastPoll' = now'
           /\ hold' = IF Broken(now', q) THEN NoHold ELSE NextHold(now', raw)
           /\ ref' = Ramped(dt)
           /\ UNCHANGED <<mode, target, started, verdict>>
  BY <1>1, <1>3, PendingStep
<1>4. CASE result = "TimedOut" /\ Leave("Fault", "TimedOut")
  BY <1>1, <1>2, <1>4, FinalStep
<1>5. CASE result = "Complete" /\ (Leave("Idle", "Complete") \/ Leave("Fault", "Stopped"))
  BY <1>1, <1>2, <1>5, FinalStep
<1>. QED BY <1>3, <1>4, <1>5 DEF Poll

-------------------------------------------------------------------------------
LEMMA InitInv == Init => IInv
PROOF
<1>1. 0 \in Ages /\ 0 \in Currents
  BY AlignmentAssumption, ClampRange DEF Ages
<1>. QED BY <1>1 DEF Init, IInv, TypeOK, InStep, TimeoutExact, CompletedOnEvidence

\* A request begins with no hold and no evidence at age zero; a start that fails
\* leaves no alignment.
LEMMA RequestStep ==
  ASSUME IInv, NEW id \in Commands, NEW armed \in BOOLEAN, Request(id, armed)
  PROVE  IInv'
PROOF
<1>1. 0 \in Ages /\ 0 \in Currents /\ id \in Int /\ HoldMs < TimeoutMs /\ HoldMs > 0
      /\ HoldMs \in Nat /\ TimeoutMs \in Nat
  BY AlignmentAssumption, ClampRange DEF Ages
<1>2. Clamp(id, 1, MaxCurrent) \in Currents
  BY <1>1, ClampRange
<1>3. now \in Clock /\ Since(now, now) = 0
  BY SelfDistance DEF IInv, TypeOK
<1>4. CASE armed
  BY <1>1, <1>2, <1>3, <1>4 DEF Request, NoEvidence, IInv, TypeOK, InStep, TimeoutExact,
                             CompletedOnEvidence
<1>5. CASE ~armed
  BY <1>1, <1>3, <1>5 DEF Request, NoEvidence, supervision, IInv, TypeOK, InStep, TimeoutExact,
                          CompletedOnEvidence
<1>. QED BY <1>4, <1>5

LEMMA SetTargetStep ==
  ASSUME IInv, NEW id \in Commands, SetTarget(id)
  PROVE  IInv'
PROOF
<1>1. 0 \in Ages /\ id \in Int
  BY AlignmentAssumption DEF Ages
<1>2. target' \in Currents
  BY <1>1, ClampRange DEF SetTarget
<1>3. UNCHANGED <<mode, now, ref, started, hold, lastPoll>>
  BY DEF SetTarget, supervision
<1>4. CASE mode = "Align"
  BY <1>2, <1>3, <1>4 DEF SetTarget, evidence, IInv, TypeOK, InStep, Anchored, StillSince,
                          TimeoutExact, CompletedOnEvidence
<1>5. CASE mode # "Align"
  BY <1>1, <1>2, <1>3, <1>5 DEF SetTarget, NoEvidence, IInv, TypeOK, InStep, TimeoutExact,
                                CompletedOnEvidence
<1>. QED BY <1>4, <1>5

LEMMA LeaveStep ==
  ASSUME IInv, NEW m \in {"Idle", "Fault"}, UNCHANGED now, NoEvidence, Leave(m, "Stopped")
  PROVE  IInv'
PROOF
<1>1. 0 \in Ages /\ 0 \in Currents
  BY AlignmentAssumption, ClampRange DEF Ages
<1>. QED BY <1>1 DEF NoEvidence, Leave, IInv, TypeOK, InStep, TimeoutExact, CompletedOnEvidence

LEMMA TickStep ==
  ASSUME IInv, NEW dt \in Stalls, NEW fed \in BOOLEAN, NEW meas \in Measured, NEW raw \in Raws,
         Tick(dt, fed, meas, raw)
  PROVE  IInv'
PROOF
<1>1. now' = (now + dt) % ClockMod
  BY DEF Tick
<1>2. CASE mode = "Align"
  BY <1>1, <1>2, PollStep DEF Tick
<1>3. CASE mode # "Align"
  <2>1. now' \in Clock /\ 0 \in Ages
    BY <1>1, ClockWraps, StallTypes DEF IInv, TypeOK, Ages
  <2>2. /\ NoEvidence /\ verdict' = "none"
        /\ UNCHANGED <<mode, target, ref, started, hold, lastPoll>>
    BY <1>3 DEF Tick, supervision
  <2>. QED BY <1>3, <2>1, <2>2 DEF NoEvidence, IInv, TypeOK, InStep, TimeoutExact,
                                   CompletedOnEvidence
<1>. QED BY <1>2, <1>3

LEMMA StutterStep == IInv /\ UNCHANGED vars => IInv'
BY DEF vars, supervision, evidence, IInv, TypeOK, InStep, Anchored, StillSince, TimeoutExact,
       CompletedOnEvidence

LEMMA NextInv == IInv /\ [Next]_vars => IInv'
PROOF
<1> SUFFICES ASSUME IInv, [Next]_vars
             PROVE  IInv'
  OBVIOUS
<1>1. ASSUME NEW id \in Commands, SetTarget(id)
      PROVE  IInv'
  BY <1>1, SetTargetStep
<1>2. ASSUME NEW id \in Commands, NEW armed \in BOOLEAN, Request(id, armed)
      PROVE  IInv'
  BY <1>2, RequestStep
<1>3. CASE Stop
  BY <1>3, LeaveStep DEF Stop
<1>4. CASE Trip
  BY <1>4, LeaveStep DEF Trip
<1>5. ASSUME NEW dt \in Stalls, NEW fed \in BOOLEAN, NEW meas \in Measured, NEW raw \in Raws,
             Tick(dt, fed, meas, raw)
      PROVE  IInv'
  BY <1>5, TickStep
<1>6. CASE UNCHANGED vars
  BY <1>6, StutterStep
<1>. QED BY <1>1, <1>2, <1>3, <1>4, <1>5, <1>6 DEF Next

LEMMA Invariance == Spec => []IInv
BY InitInv, NextInv, PTL DEF Spec

-------------------------------------------------------------------------------
\* Clock, currents, supervision record and history keep their types.
THEOREM AlignmentTypes == Spec => []TypeOK
BY Invariance, PTL DEF IInv

\* observe() ends a hopeless alignment in the first poll in which its timeout is due
\* and in none before, for every width of the clock and wherever it stood at the request.
THEOREM TimesOutExactly == Spec => []TimeoutExact
BY Invariance, PTL DEF IInv

\* finish_align() is reached only after a hold time of polls without a gap, each
\* qualified, with the rotor near the count of the first: one anchor and two stamps
\* are enough to know it, for every hold time, poll gap and motion limit.
THEOREM CompletionRestsOnPolls == Spec => []CompletedOnEvidence
BY Invariance, PTL DEF IInv
===============================================================================
