---------------------------- MODULE WatchdogProofs ----------------------------
(***************************************************************************)
(* The feed policy for every clock, sequence width and timeout. The        *)
(* wrapping times and sequences are related to what they stand for: the    *)
(* hardware's counter, and the completions since the last feed.            *)
(***************************************************************************)
EXTENDS Watchdog, TLAPS

\* How often a sequence moved on the way from m to n, if less than a turn.
Distance(m, n) == IF m <= n THEN n - m ELSE n + SeqMod - m

Latest == IF IntervalMs - 1 >= WorkMs THEN IntervalMs - 1 ELSE WorkMs

\* The policy's time and sequences tell the truth.
InStep ==
  /\ Elapsed(now, lastFeed) = counter
  /\ \A w \in Workers :
       /\ Distance(seen[w], sequence[w]) = moved[w]
       /\ moved[w] > 0 => moved[w] + idle[w] <= counter + 1
       /\ moved[w] = 0 /\ w \notin stopped => counter <= idle[w]

\* While all parts work a feed is at most one poll away once it is due.
InTime == stopped = {} => counter <= Latest + idle["supervisor"]

\* A feed that followed a stop has consumed the work of a worker that stopped.
Consumed ==
  late = 0 \/ (late = 1 /\ \E w \in Workers : w \in stopped /\ moved[w] = 0)

IInv == TypeOK /\ InStep /\ InTime /\ Consumed

LEMMA ConstantTypes ==
  /\ ClockMod \in Nat /\ SeqMod \in Nat /\ IntervalMs \in Nat /\ TimeoutMs \in Nat
  /\ WorkMs \in Nat /\ PollMs \in Nat
  /\ ClockMod > 0 /\ SeqMod > 0 /\ IntervalMs > 0 /\ WorkMs > 0 /\ PollMs > 0
  /\ TimeoutMs < ClockMod /\ TimeoutMs + 1 < SeqMod
  /\ IntervalMs + PollMs < TimeoutMs /\ WorkMs + PollMs < TimeoutMs
  /\ Latest \in Nat /\ Latest + PollMs < TimeoutMs
BY WatchdogAssumption DEF Latest

LEMMA PartsAre ==
  /\ "supervisor" \in Parts /\ "supervisor" \notin Workers
  /\ Workers \subseteq Parts /\ Workers # {}
  /\ \A p \in Parts : p \in Workers \/ p = "supervisor"
BY DEF Parts, Workers

\* Nothing has moved right after a feed.
LEMMA FreshIsInStep ==
  /\ \A t \in Clock : Elapsed(t, t) = 0
  /\ \A n \in Sequences : Distance(n, n) = 0
BY ConstantTypes DEF Elapsed, Distance, Clock, Sequences

LEMMA Started ==
  ASSUME now \in Clock, lastFeed = now, counter = 0, stopped = {},
         sequence \in [Workers -> Sequences], seen = sequence,
         idle = [p \in Parts |-> 0], moved = [w \in Workers |-> 0], late = 0
  PROVE  IInv
PROOF
<1>1. TypeOK
  <2>1. idle \in [Parts -> Nat] /\ \A p \in Parts : idle[p] <= Longest(p)
    BY ConstantTypes DEF Longest
  <2>2. moved \in [Workers -> 0 .. TimeoutMs + 1] /\ counter \in 0 .. TimeoutMs
    BY ConstantTypes
  <2>. QED BY <2>1, <2>2 DEF TypeOK
<1>2. InStep
  <2>1. \A w \in Workers : /\ seen[w] = sequence[w] /\ sequence[w] \in Sequences
                           /\ moved[w] = 0 /\ idle[w] = 0
    BY PartsAre
  <2>2. \A w \in Workers : Distance(seen[w], sequence[w]) = 0
    BY <2>1, FreshIsInStep
  <2>3. Elapsed(now, lastFeed) = 0
    BY FreshIsInStep
  <2>. QED BY <2>1, <2>2, <2>3 DEF InStep
<1>3. InTime /\ Consumed
  BY ConstantTypes, PartsAre DEF InTime, Consumed
<1>. QED BY <1>1, <1>2, <1>3 DEF IInv

LEMMA InitIInv == Init => IInv
BY Started DEF Init

\* A millisecond later the clock is one further from the last feed.
LEMMA TickIInv == IInv /\ Tick => IInv'
PROOF
<1>. SUFFICES ASSUME IInv, Tick
              PROVE  IInv'
  OBVIOUS
<1>1. /\ counter < TimeoutMs /\ counter' = counter + 1
      /\ now' = IF now + 1 = ClockMod THEN 0 ELSE now + 1
      /\ idle' = [p \in Parts |-> IF p \in stopped THEN idle[p] ELSE idle[p] + 1]
      /\ \A p \in Parts \ stopped : idle[p] < Longest(p)
      /\ UNCHANGED <<sequence, seen, lastFeed, stopped, moved, late>>
  BY DEF Tick, policy
<1>2. TypeOK /\ InStep /\ InTime /\ Consumed
  BY DEF IInv
<1>3. \A p \in Parts : idle[p] \in Nat /\ idle'[p] \in Nat /\ idle'[p] >= idle[p]
                       /\ (p \notin stopped => idle'[p] = idle[p] + 1)
                       /\ (p \in stopped => idle'[p] = idle[p])
  BY <1>1, <1>2 DEF TypeOK
<1>4. counter \in Nat /\ counter' \in Nat
  BY <1>1, <1>2, ConstantTypes DEF TypeOK
<1>5. TypeOK'
  <2>1. now' \in Clock
    BY <1>1, <1>2, ConstantTypes DEF TypeOK, Clock
  <2>2. counter' \in 0 .. TimeoutMs
    BY <1>1, <1>4, ConstantTypes
  <2>3. idle' \in [Parts -> Nat]
    BY <1>1, <1>3
  <2>4. ASSUME NEW p \in Parts \ stopped
        PROVE  idle'[p] <= Longest(p)
    <3>1. Longest(p) \in Nat
      BY ConstantTypes DEF Longest
    <3>. QED BY <1>1, <1>3, <3>1
  <2>. QED BY <1>1, <1>2, <2>1, <2>2, <2>3, <2>4 DEF TypeOK
<1>6. InStep'
  <2>1. Elapsed(now', lastFeed) = counter'
    BY <1>1, <1>2, <1>4, ConstantTypes DEF InStep, TypeOK, Elapsed, Clock
  <2>2. ASSUME NEW w \in Workers
        PROVE  /\ Distance(seen[w], sequence[w]) = moved[w]
               /\ moved[w] > 0 => moved[w] + idle'[w] <= counter' + 1
               /\ moved[w] = 0 /\ w \notin stopped => counter' <= idle'[w]
    <3>1. moved[w] \in Nat
      BY <1>2, ConstantTypes DEF TypeOK
    <3>2. /\ Distance(seen[w], sequence[w]) = moved[w]
          /\ moved[w] > 0 => moved[w] + idle[w] <= counter + 1
          /\ moved[w] = 0 /\ w \notin stopped => counter <= idle[w]
      BY <1>2 DEF InStep
    <3>3. /\ idle[w] \in Nat /\ idle'[w] \in Nat
          /\ w \notin stopped => idle'[w] = idle[w] + 1
          /\ w \in stopped => idle'[w] = idle[w]
      BY <1>3, PartsAre
    <3>. QED BY <1>1, <1>4, <3>1, <3>2, <3>3
  <2>. QED BY <1>1, <2>1, <2>2 DEF InStep
<1>7. InTime'
  BY <1>1, <1>2, <1>3, <1>4, ConstantTypes, PartsAre DEF InTime
<1>8. Consumed'
  BY <1>1, <1>2 DEF Consumed
<1>. QED BY <1>5, <1>6, <1>7, <1>8 DEF IInv

\* A completion takes the sequence one step further from what the policy saw.
LEMMA CompleteIInv ==
  ASSUME NEW w \in Workers, IInv, Complete(w)
  PROVE  IInv'
PROOF
<1>1. /\ w \notin stopped /\ idle[w] > 0
      /\ sequence' = [sequence EXCEPT ![w] = NextSequence(@)]
      /\ idle' = [idle EXCEPT ![w] = 0]
      /\ moved' = [moved EXCEPT ![w] = @ + 1]
      /\ UNCHANGED <<now, seen, lastFeed, counter, stopped, late>>
  BY DEF Complete, policy
<1>2. TypeOK /\ InStep /\ InTime /\ Consumed
  BY DEF IInv
<1>3. /\ w \in Parts /\ idle[w] \in Nat /\ moved[w] \in Nat /\ counter \in 0 .. TimeoutMs
      /\ sequence[w] \in Sequences /\ seen[w] \in Sequences
  BY <1>2, PartsAre, ConstantTypes DEF TypeOK
<1>4. /\ sequence'[w] = NextSequence(sequence[w])
      /\ idle'[w] = 0
      /\ moved'[w] = moved[w] + 1
      /\ \A v \in Workers : v # w => /\ sequence'[v] = sequence[v]
                                     /\ idle'[v] = idle[v] /\ moved'[v] = moved[v]
      /\ idle'["supervisor"] = idle["supervisor"]
  BY <1>1, <1>2, PartsAre DEF TypeOK
<1>5. /\ Distance(seen[w], sequence[w]) = moved[w]
      /\ moved[w] > 0 => moved[w] + idle[w] <= counter + 1
  BY <1>2 DEF InStep
<1>6. moved'[w] \in Nat /\ moved'[w] <= counter + 1
  BY <1>1, <1>3, <1>4, <1>5
<1>7. moved'[w] \in 0 .. TimeoutMs + 1 /\ moved[w] + 1 < SeqMod
  BY <1>3, <1>4, <1>6, ConstantTypes
<1>8. NextSequence(sequence[w]) \in Sequences
  BY <1>3, ConstantTypes DEF NextSequence, Sequences
<1>9. TypeOK'
  <2>1. sequence' \in [Workers -> Sequences]
    BY <1>1, <1>2, <1>8 DEF TypeOK
  <2>2. idle' \in [Parts -> Nat]
    BY <1>1, <1>2 DEF TypeOK
  <2>3. moved' \in [Workers -> 0 .. TimeoutMs + 1]
    BY <1>1, <1>2, <1>4, <1>7 DEF TypeOK
  <2>4. ASSUME NEW p \in Parts \ stopped
        PROVE  idle'[p] <= Longest(p)
    <3>1. Longest(p) \in Nat
      BY ConstantTypes DEF Longest
    <3>2. idle'[p] = 0 \/ idle'[p] = idle[p]
      BY <1>1, <1>2 DEF TypeOK
    <3>3. idle[p] <= Longest(p)
      BY <1>2 DEF TypeOK
    <3>. QED BY <3>1, <3>2, <3>3
  <2>. QED BY <1>1, <1>2, <2>1, <2>2, <2>3, <2>4 DEF TypeOK
<1>10. InStep'
  <2>1. Elapsed(now, lastFeed) = counter
    BY <1>2 DEF InStep
  <2>2. Distance(seen[w], NextSequence(sequence[w])) = moved[w] + 1
    BY <1>3, <1>5, <1>7, ConstantTypes DEF Distance, NextSequence, Sequences
  <2>3. ASSUME NEW v \in Workers
        PROVE  /\ Distance(seen[v], sequence'[v]) = moved'[v]
               /\ moved'[v] > 0 => moved'[v] + idle'[v] <= counter + 1
               /\ moved'[v] = 0 /\ v \notin stopped => counter <= idle'[v]
    <3>1. CASE v = w
      BY <1>3, <1>4, <1>6, <2>2, <3>1
    <3>2. CASE v # w
      BY <1>2, <1>4, <3>2 DEF InStep
    <3>. QED BY <3>1, <3>2
  <2>. QED BY <1>1, <2>1, <2>3 DEF InStep
<1>11. InTime'
  BY <1>1, <1>2, <1>4 DEF InTime
<1>12. Consumed'
  BY <1>1, <1>2, <1>4 DEF Consumed
<1>. QED BY <1>9, <1>10, <1>11, <1>12 DEF IInv


\* A poll that feeds starts anew; one that does not found something missing.
LEMMA SuperviseIInv == IInv /\ Supervise => IInv'
PROOF
<1>. SUFFICES ASSUME IInv, Supervise
              PROVE  IInv'
  OBVIOUS
<1>1. /\ "supervisor" \notin stopped
      /\ idle' = [idle EXCEPT !["supervisor"] = 0]
      /\ UNCHANGED <<now, sequence, stopped>>
  BY DEF Supervise
<1>2. TypeOK /\ InStep /\ InTime /\ Consumed
  BY DEF IInv
<1>3. /\ idle' \in [Parts -> Nat] /\ idle'["supervisor"] = 0
      /\ \A w \in Workers : idle'[w] = idle[w] /\ idle[w] \in Nat
  BY <1>1, <1>2, PartsAre DEF TypeOK
<1>4. ASSUME NEW p \in Parts \ stopped
      PROVE  idle'[p] <= Longest(p)
  <2>1. CASE p = "supervisor"
    BY <1>3, <2>1, ConstantTypes, PartsAre DEF Longest
  <2>2. CASE p \in Workers
    <3>1. idle[p] <= Longest(p)
      BY <1>2 DEF TypeOK
    <3>. QED BY <1>3, <2>2, <3>1
  <2>. QED BY <2>1, <2>2, PartsAre
<1>5. CASE ShouldFeed
  <2>1. /\ seen' = sequence /\ lastFeed' = now /\ counter' = 0
        /\ moved' = [w \in Workers |-> 0]
        /\ late' = IF stopped = {} THEN 0 ELSE IF late = 2 THEN 2 ELSE late + 1
    BY <1>1, <1>5 DEF Supervise, Remembered
  <2>2. TypeOK'
    <3>1. moved' \in [Workers -> 0 .. TimeoutMs + 1] /\ counter' \in 0 .. TimeoutMs
      BY <2>1, ConstantTypes
    <3>2. late' \in 0 .. 2
      BY <1>2, <2>1 DEF TypeOK
    <3>. QED BY <1>1, <1>2, <1>3, <1>4, <2>1, <3>1, <3>2 DEF TypeOK
  <2>3. InStep'
    <3>1. Elapsed(now, now) = 0
      BY <1>2, FreshIsInStep DEF TypeOK
    <3>2. ASSUME NEW w \in Workers
          PROVE  /\ Distance(sequence[w], sequence[w]) = 0
                 /\ moved'[w] = 0 /\ 0 <= idle'[w]
      BY <1>2, <1>3, <2>1, FreshIsInStep DEF TypeOK
    <3>. QED BY <1>1, <2>1, <3>1, <3>2 DEF InStep
  <2>4. InTime'
    BY <1>3, <2>1, ConstantTypes DEF InTime
  <2>5. Consumed'
    <3>1. CASE stopped = {}
      BY <2>1, <3>1 DEF Consumed
    <3>2. CASE stopped # {}
      <4>1. PICK w \in Workers : w \in stopped
        BY <1>1, <1>2, <3>2, PartsAre DEF TypeOK
      <4>2. moved[w] # 0
        <5>1. sequence[w] # seen[w]
          BY <1>5 DEF ShouldFeed, AllMoved
        <5>2. sequence[w] \in Sequences /\ seen[w] \in Sequences
          BY <1>2 DEF TypeOK
        <5>3. Distance(seen[w], sequence[w]) # 0
          BY <5>1, <5>2, ConstantTypes DEF Distance, Sequences
        <5>. QED BY <1>2, <5>3 DEF InStep
      <4>3. late = 0
        <5>1. \A v \in Workers : moved[v] # 0
          <6>. SUFFICES ASSUME NEW v \in Workers
                        PROVE  moved[v] # 0
            OBVIOUS
          <6>1. sequence[v] # seen[v]
            BY <1>5 DEF ShouldFeed, AllMoved
          <6>2. sequence[v] \in Sequences /\ seen[v] \in Sequences
            BY <1>2 DEF TypeOK
          <6>3. Distance(seen[v], sequence[v]) # 0
            BY <6>1, <6>2, ConstantTypes DEF Distance, Sequences
          <6>. QED BY <1>2, <6>3 DEF InStep
        <5>. QED BY <1>2, <5>1 DEF Consumed
      <4>4. late' = 1 /\ moved'[w] = 0
        BY <2>1, <3>2, <4>3
      <4>. QED BY <1>1, <4>1, <4>4 DEF Consumed
    <3>. QED BY <3>1, <3>2
  <2>. QED BY <2>2, <2>3, <2>4, <2>5 DEF IInv
<1>6. CASE ~ShouldFeed
  <2>1. UNCHANGED <<seen, lastFeed, counter, moved, late>>
    BY <1>6 DEF Supervise, policy
  <2>2. TypeOK'
    BY <1>1, <1>2, <1>3, <1>4, <2>1 DEF TypeOK
  <2>3. InStep'
    BY <1>1, <1>2, <1>3, <2>1 DEF InStep
  <2>4. InTime'
    <3>. SUFFICES ASSUME stopped = {}
                  PROVE  counter <= Latest
      BY <1>1, <1>3, <2>1, ConstantTypes DEF InTime
    <3>1. counter \in Nat /\ Elapsed(now, lastFeed) = counter
      BY <1>2, ConstantTypes DEF TypeOK, InStep
    <3>2. CASE ~Due
      BY <3>1, <3>2, ConstantTypes DEF Due, Latest
    <3>3. CASE ~AllMoved
      <4>1. PICK w \in Workers : sequence[w] = seen[w]
        BY <3>3 DEF AllMoved
      <4>2. moved[w] = 0
        BY <1>2, <4>1, FreshIsInStep DEF InStep, TypeOK
      <4>3. counter <= idle[w]
        BY <1>2, <4>2 DEF InStep
      <4>4. idle[w] <= WorkMs
        BY <1>2, PartsAre DEF TypeOK, Longest
      <4>. QED BY <1>3, <3>1, <4>3, <4>4, ConstantTypes DEF Latest
    <3>. QED BY <1>6, <3>2, <3>3 DEF ShouldFeed
  <2>5. Consumed'
    BY <1>1, <1>2, <2>1 DEF Consumed
  <2>. QED BY <2>2, <2>3, <2>4, <2>5 DEF IInv
<1>. QED BY <1>5, <1>6

LEMMA StopIInv ==
  ASSUME NEW p \in Parts, IInv, Stop(p)
  PROVE  IInv'
PROOF
<1>1. /\ stopped' = stopped \cup {p}
      /\ UNCHANGED <<now, sequence, seen, lastFeed, counter, idle, moved, late>>
  BY DEF Stop, policy
<1>2. TypeOK /\ InStep /\ InTime /\ Consumed
  BY DEF IInv
<1>3. TypeOK'
  BY <1>1, <1>2 DEF TypeOK
<1>4. InStep'
  BY <1>1, <1>2 DEF InStep
<1>5. InTime' /\ Consumed'
  BY <1>1, <1>2 DEF InTime, Consumed
<1>. QED BY <1>3, <1>4, <1>5 DEF IInv

LEMMA ResetIInv == IInv /\ Reset => IInv'
PROOF
<1>. SUFFICES ASSUME Reset
              PROVE  IInv'
  OBVIOUS
<1>1. 0 \in Clock /\ 0 \in Sequences
  BY ConstantTypes DEF Clock, Sequences
<1>2. /\ now' = 0 /\ lastFeed' = 0 /\ counter' = 0 /\ stopped' = {} /\ late' = 0
      /\ sequence' = [w \in Workers |-> 0] /\ seen' = [w \in Workers |-> 0]
      /\ idle' = [p \in Parts |-> 0] /\ moved' = [w \in Workers |-> 0]
  BY DEF Reset
<1>3. TypeOK'
  <2>1. idle' \in [Parts -> Nat] /\ \A p \in Parts : idle'[p] <= Longest(p)
    BY <1>2, ConstantTypes DEF Longest
  <2>2. moved' \in [Workers -> 0 .. TimeoutMs + 1] /\ counter' \in 0 .. TimeoutMs
    BY <1>2, ConstantTypes
  <2>. QED BY <1>1, <1>2, <2>1, <2>2 DEF TypeOK
<1>4. InStep'
  <2>1. \A w \in Workers : Distance(seen'[w], sequence'[w]) = 0 /\ moved'[w] = 0 /\ idle'[w] = 0
    BY <1>1, <1>2, FreshIsInStep, PartsAre
  <2>2. Elapsed(now', lastFeed') = 0
    BY <1>1, <1>2, FreshIsInStep
  <2>. QED BY <1>2, <2>1, <2>2 DEF InStep
<1>5. InTime' /\ Consumed'
  BY <1>2, ConstantTypes, PartsAre DEF InTime, Consumed
<1>. QED BY <1>3, <1>4, <1>5 DEF IInv

LEMMA StepIInv == IInv /\ [Next]_vars => IInv'
PROOF
<1>. SUFFICES ASSUME IInv, [Next]_vars
              PROVE  IInv'
  OBVIOUS
<1>1. CASE UNCHANGED vars
  BY <1>1 DEF vars, policy, IInv, TypeOK, InStep, InTime, Consumed
<1>. QED BY <1>1, TickIInv, CompleteIInv, SuperviseIInv, StopIInv, ResetIInv DEF Next

LEMMA Invariance == Spec => []IInv
BY InitIInv, StepIInv, PTL DEF Spec

-------------------------------------------------------------------------------
\* The clock, the sequences and the counter stay in their ranges.
THEOREM WatchdogTypes == Spec => []TypeOK
PROOF
<1>1. IInv => TypeOK
  BY DEF IInv
<1>. QED BY <1>1, Invariance, PTL

\* should_feed: what has stopped was consumed by the feed that followed, and no
\* later poll finds it moved.
THEOREM OneMoreFeed == Spec => []OneFeedAfterStop
PROOF
<1>1. IInv => OneFeedAfterStop
  BY DEF IInv, Consumed, OneFeedAfterStop
<1>. QED BY <1>1, Invariance, PTL

\* supervise: with the interval, the work and the poll inside the timeout, a system
\* that works is never reset.
THEOREM WorkingIsNotReset == Spec => []NoFalseReset
PROOF
<1>1. IInv => NoFalseReset
  <2>. SUFFICES ASSUME IInv, stopped = {}
                PROVE  counter # TimeoutMs
    BY DEF NoFalseReset
  <2>1. counter <= Latest + idle["supervisor"]
    BY DEF IInv, InTime
  <2>2. idle["supervisor"] \in Nat /\ idle["supervisor"] <= PollMs
    BY PartsAre DEF IInv, TypeOK, Longest
  <2>3. counter \in Nat
    BY ConstantTypes DEF IInv, TypeOK
  <2>. QED BY <2>1, <2>2, <2>3, ConstantTypes
<1>. QED BY <1>1, Invariance, PTL

\* should_feed: a feed is only possible on new work of both workers, after the
\* interval.
THEOREM FeedsNeedAll == Spec => FeedNeedsAll
PROOF
<1>. DEFINE Earned == counter' < counter /\ counter < TimeoutMs =>
                        counter >= IntervalMs /\ \A w \in Workers : moved[w] > 0
<1>1. IInv /\ [Next]_vars => [Earned]_vars
  <2>. SUFFICES ASSUME IInv, Next, counter' < counter, counter < TimeoutMs
                PROVE  counter >= IntervalMs /\ \A w \in Workers : moved[w] > 0
    OBVIOUS
  <2>1. counter \in Nat
    BY ConstantTypes DEF IInv, TypeOK
  <2>2. Supervise /\ ShouldFeed
    BY <2>1, ConstantTypes DEF Next, Tick, Complete, Supervise, Stop, Reset, policy
  <2>3. counter >= IntervalMs
    BY <2>2 DEF ShouldFeed, Due, IInv, InStep
  <2>4. ASSUME NEW w \in Workers
        PROVE  moved[w] > 0
    <3>1. sequence[w] # seen[w]
      BY <2>2 DEF ShouldFeed, AllMoved
    <3>2. sequence[w] \in Sequences /\ seen[w] \in Sequences
      BY DEF IInv, TypeOK
    <3>3. Distance(seen[w], sequence[w]) > 0
      BY <3>1, <3>2, ConstantTypes DEF Distance, Sequences
    <3>. QED BY <3>3 DEF IInv, InStep
  <2>. QED BY <2>3, <2>4
<1>2. Spec => [][Earned]_vars
  BY <1>1, Invariance, PTL DEF Spec
<1>. QED BY <1>2 DEF FeedNeedsAll

===============================================================================
