--------------------------- MODULE SupervisionProofs ---------------------------
(***************************************************************************)
(* The supervisor for every timeout, delay, clock and sequence width and   *)
(* every ramp. What it computes from NOW_MS and the wall clock is related  *)
(* to true ages; a ramp that is advanced late is related to one that is    *)
(* advanced in every millisecond.                                          *)
(***************************************************************************)
EXTENDS Supervision, FiniteSetTheorems, WellFoundedInduction, TLAPS

-------------------------------------------------------------------------------
\* Arithmetic.

LEMMA RemainderRange ==
  ASSUME NEW m \in Nat \ {0}, NEW x \in Int
  PROVE  x % m \in 0 .. m - 1
OBVIOUS

\* A number within one turn.
LEMMA SmallMod ==
  ASSUME NEW m \in Nat \ {0}, NEW x \in Int, -m <= x, x < 2 * m
  PROVE  x % m = IF x < 0 THEN x + m ELSE IF x < m THEN x ELSE x - m
OBVIOUS

\* Differences on a counter that wraps at m add up while they are shorter than its turn.
LEMMA WrapAdds ==
  ASSUME NEW m \in Nat \ {0}, NEW x \in 0 .. m - 1, NEW y \in 0 .. m - 1, NEW d \in Nat,
         ((x - y) % m) + d < m
  PROVE  (((x + d) % m) - y) % m = ((x - y) % m) + d
PROOF
<1>1. \A z \in Int : -m <= z /\ z < 2 * m =>
        z % m = IF z < 0 THEN z + m ELSE IF z < m THEN z ELSE z - m
  BY SmallMod
<1>2. (x - y) % m = IF x < y THEN x - y + m ELSE x - y
  BY <1>1
<1>3. d < m
  BY <1>2
<1>4. (x + d) % m = IF x + d < m THEN x + d ELSE x + d - m
  BY <1>1, <1>3
<1> DEFINE later == (x + d) % m
<1>5. later \in Int /\ 0 <= later /\ later < m
  BY <1>3, <1>4
<1>6. (later - y) % m = IF later < y THEN later - y + m ELSE later - y
  <2> HIDE DEF later
  <2>. QED BY <1>1, <1>5
<1>. QED BY <1>2, <1>3, <1>4, <1>6

LEMMA DivisionRange ==
  ASSUME NEW s \in Nat \ {0}, NEW x \in Int
  PROVE  x \div s \in Int /\ s * (x \div s) <= x /\ x < s * (x \div s) + s
OBVIOUS

LEMMA ProductSteps ==
  ASSUME NEW r \in Nat, NEW n \in Nat \ {0}
  PROVE  r * (n - 1) \in Nat /\ r * (n - 1) + r = r * n
OBVIOUS

LEMMA ProductTypes ==
  ASSUME NEW r \in Nat, NEW n \in Nat
  PROVE  r * n \in Nat /\ r * 0 = 0 /\ 0 * n = 0
OBVIOUS

\* The numbers below those of a finite set are well-founded: there is a first one.
LEMMA FirstExists ==
  ASSUME NEW n \in Nat, NEW S \in SUBSET (0 .. n), S # {}
  PROVE  \E i \in S : \A j \in S : i <= j
PROOF
<1> DEFINE Less(i) == {j \in S : j < i}
           T == {Less(i) : i \in S}
<1>1. IsFiniteSet(S)
  <2>1. 0 \in Int /\ n \in Int
    OBVIOUS
  <2>2. IsFiniteSet(0 .. n)
    BY <2>1, FS_Interval
  <2>. QED BY <2>2, FS_Subset
<1>2. IsWellFoundedOn(StrictSubsetOrdering(S), SUBSET S)
  BY <1>1, FS_FiniteSubsetsOfFinite, FS_StrictSubsetOrderingWellFounded
<1>3. T \subseteq SUBSET S /\ T # {}
  OBVIOUS
<1>4. PICK x \in T : \A y \in T : <<y, x>> \notin StrictSubsetOrdering(S)
  <2> HIDE DEF T
  <2>. QED BY <1>2, <1>3, WFMin
<1>5. PICK i \in S : x = Less(i)
  OBVIOUS
<1>6. ASSUME NEW j \in S, j < i
      PROVE  FALSE
  <2>1. Less(j) \in T
    OBVIOUS
  <2>2. j \in Less(i) /\ j \notin Less(j) /\ Less(j) \subseteq Less(i)
    <3>1. ~(j < j) /\ \A k \in S : k < j => k < i
      BY <1>6
    <3>. QED BY <1>6, <3>1
  <2>3. <<Less(j), Less(i)>> \in StrictSubsetOrdering(S)
    BY <2>2 DEF StrictSubsetOrdering
  <2>. QED BY <1>4, <1>5, <2>1, <2>3
<1>. QED BY <1>6

-------------------------------------------------------------------------------
\* The ramp.

LEMMA SteppedType ==
  ASSUME NEW p \in Int, NEW to \in Int, NEW a \in Nat
  PROVE  Stepped(p, to, a) \in Int
BY SlewAssumption DEF Stepped, Position, Abs, Least

\* Two steps are one: neither the fraction nor the arrival depends on how a way is cut.
LEMMA StepsCompose ==
  ASSUME NEW p \in Int, NEW to \in Int, NEW a \in Nat, NEW b \in Nat
  PROVE  Stepped(Stepped(p, to, a), to, b) = Stepped(p, to, a + b)
PROOF
<1> DEFINE goal == Position(to)
<1>1. goal \in Int
  BY SlewAssumption DEF Position
<1>2. \A q \in Int, c \in Nat :
        Stepped(q, to, c) = IF goal - q >= 0
                            THEN q + Least(c, Abs(goal - q)) ELSE q - Least(c, Abs(goal - q))
  BY DEF Stepped
<1> HIDE DEF goal
<1>3. Stepped(p, to, a) \in Int
  BY SteppedType
<1>. QED BY <1>1, <1>2, <1>3 DEF Least, Abs

LEMMA NoStep ==
  ASSUME NEW p \in Int, NEW to \in Int
  PROVE  Stepped(p, to, 0) = p
PROOF
<1>1. Position(to) \in Int
  BY SlewAssumption DEF Position
<1>. QED BY <1>1 DEF Stepped, Least, Abs

\* A ramp advanced millisecond by millisecond is where one long step leads.
LEMMA FineIsOneStep ==
  ASSUME NEW p \in Int, NEW to \in Int, NEW rate \in Nat, NEW ms \in Nat
  PROVE  Fine(p, to, rate, ms) = Stepped(p, to, rate * ms)
PROOF
<1> DEFINE Loop(g) == g = [n \in 0 .. ms |-> IF n = 0 THEN p ELSE Stepped(g[n - 1], to, rate)]
           fine == CHOOSE g : Loop(g)
           once == [n \in 0 .. ms |-> Stepped(p, to, rate * n)]
<1>1. \A n \in 0 .. ms : once[n] = IF n = 0 THEN p ELSE Stepped(once[n - 1], to, rate)
  <2>1. SUFFICES ASSUME NEW n \in 0 .. ms
                 PROVE  once[n] = IF n = 0 THEN p ELSE Stepped(once[n - 1], to, rate)
    OBVIOUS
  <2>2. CASE n = 0
    BY <2>2, ProductTypes, NoStep
  <2>3. CASE n # 0
    <3>1. n - 1 \in 0 .. ms /\ n \in Nat \ {0}
      BY <2>3
    <3>2. rate * (n - 1) \in Nat /\ rate * (n - 1) + rate = rate * n
      BY <3>1, ProductSteps
    <3>3. Stepped(Stepped(p, to, rate * (n - 1)), to, rate) = Stepped(p, to, rate * (n - 1) + rate)
      BY <3>2, StepsCompose
    <3>. QED BY <2>3, <3>1, <3>2, <3>3
  <2>. QED BY <2>2, <2>3
<1>2. Loop(once)
  <2>1. once = [n \in 0 .. ms |-> once[n]]
    OBVIOUS
  <2> HIDE DEF once
  <2>. QED BY <1>1, <2>1
<1>3. Loop(fine)
  <2>1. \E g : Loop(g)
    <3> HIDE DEF once, Loop
    <3>. QED BY <1>2
  <2> HIDE DEF Loop
  <2>. QED BY <2>1
<1>4. Fine(p, to, rate, ms) = fine[ms]
  BY DEF Fine
<1>5. \A n \in 0 .. ms : fine[n] = once[n]
  <2> HIDE DEF fine
  <2> DEFINE Wrong == {n \in 0 .. ms : fine[n] # once[n]}
  <2>1. SUFFICES ASSUME Wrong # {}
                 PROVE  FALSE
    OBVIOUS
  <2>2. PICK n \in Wrong : \A m \in Wrong : n <= m
    <3>1. Wrong \in SUBSET (0 .. ms)
      OBVIOUS
    <3> HIDE DEF Wrong
    <3>. QED BY <2>1, <3>1, FirstExists
  <2>3. fine[n] = IF n = 0 THEN p ELSE Stepped(fine[n - 1], to, rate)
    BY <1>3
  <2>4. once[n] = IF n = 0 THEN p ELSE Stepped(once[n - 1], to, rate)
    BY <1>1
  <2>5. CASE n = 0
    BY <2>3, <2>4, <2>5
  <2>6. CASE n # 0
    <3>1. n - 1 \in 0 .. ms /\ ~(n <= n - 1)
      BY <2>6
    <3>2. fine[n - 1] = once[n - 1]
      BY <2>2, <3>1
    <3> HIDE DEF once
    <3>. QED BY <2>3, <2>4, <3>2
  <2>. QED BY <2>5, <2>6
<1>6. once[ms] = Stepped(p, to, rate * ms)
  OBVIOUS
<1>. QED BY <1>4, <1>5, <1>6

\* The published value is the unit nearest to the position.
LEMMA NearestIsNear ==
  ASSUME NEW p \in Int
  PROVE  Nearest(p) \in Int /\ 2 * Abs(Position(Nearest(p)) - p) <= Scale
PROOF
<1> DEFINE half == Scale \div 2
<1>1. Scale \in Nat \ {0} /\ half \in Int /\ 2 * half = Scale
  BY SlewAssumption
<1> HIDE DEF half
<1>2. CASE p >= 0
  <2> DEFINE q == (p + half) \div Scale
  <2>1. q \in Int /\ Scale * q <= p + half /\ p + half < Scale * q + Scale
    BY <1>1, DivisionRange
  <2>2. Nearest(p) = q
    BY <1>2 DEF Nearest, half
  <2> HIDE DEF q
  <2>3. Position(q) \in Int /\ Position(q) = Scale * q
    BY <1>1, <2>1 DEF Position
  <2>. QED BY <1>1, <2>1, <2>2, <2>3 DEF Abs
<1>3. CASE ~(p >= 0)
  <2> DEFINE q == (half - p) \div Scale
  <2>1. q \in Int /\ Scale * q <= half - p /\ half - p < Scale * q + Scale
    BY <1>1, DivisionRange
  <2>2. Nearest(p) = -q
    BY <1>3 DEF Nearest, half
  <2> HIDE DEF q
  <2>3. Position(-q) \in Int /\ Position(-q) = -(Scale * q)
    BY <1>1, <2>1 DEF Position
  <2>. QED BY <1>1, <2>1, <2>2, <2>3 DEF Abs
<1>. QED BY <1>2, <1>3

-------------------------------------------------------------------------------
\* The strengthening.

\* lag: how long before the last command NOW_MS had been set. Seen from the clock, the
\* command is that much older than it is, less what has passed since the last run.
CommandSeen ==
  Steered =>
    \E lag \in 0 .. MaxDelay :
      /\ Since(now, lastCmd) = cmdAge + lag - gap
      /\ cmdAge + lag - gap \in 0 .. TimeoutMs + MaxDelay

\* What the watch has not seen yet: completions since the last run. Without any, the
\* time since the last change that it saw is the age of the last completion, up to one
\* delay; and no run has found it too long.
Moved == (sequence - watch.sequence) % SequenceMod
Watched == Since(wall, watch.at)
WatchSeen ==
  mode \in LiveModes =>
    /\ watch = NoWatch => doneAge <= gap
    /\ watch # NoWatch =>
         /\ Watched < StallMs + gap
         /\ Moved <= gap + 1
         /\ Moved = gap + 1 => doneAge = 0
         /\ Moved > 0 => doneAge <= gap
         /\ Moved = 0 => Watched <= doneAge /\ doneAge <= Watched + MaxDelay

IInv == TypeOK /\ RampIsContinuous /\ CommandSeen /\ WatchSeen

LEMMA ConstantTypes ==
  /\ TimeoutMs \in Nat /\ StallMs \in Nat \ {0} /\ MaxDelay \in Nat \ {0}
  /\ ClockMod \in Nat \ {0} /\ SequenceMod \in Nat \ {0}
  /\ ClockMod > TimeoutMs + 2 * MaxDelay /\ ClockMod > StallMs + 2 * MaxDelay
  /\ SequenceMod > MaxDelay + 1
  /\ Longest \in Nat /\ Longest > TimeoutMs + 2 * MaxDelay /\ Longest > StallMs + 2 * MaxDelay
BY SupervisionAssumption DEF Longest

LEMMA RateTypes ==
  ASSUME NEW m, NEW a
  PROVE  Rate(m, a) \in Nat
BY SupervisionAssumption DEF Rate

LEMMA OlderIsOlder ==
  ASSUME NEW age \in 0 .. Longest
  PROVE  /\ Older(age) \in 0 .. Longest /\ Older(age) <= age + 1
         /\ age < Longest => Older(age) = age + 1
BY ConstantTypes DEF Older

LEMMA SinceTypes ==
  ASSUME NEW x \in Clock, NEW y \in Clock
  PROVE  /\ Since(x, y) \in Clock /\ Since(x, x) = 0
         /\ \A d \in Nat : (x + d) % ClockMod \in Clock
         /\ \A d \in Nat : Since(x, y) + d < ClockMod =>
              Since((x + d) % ClockMod, y) = Since(x, y) + d
PROOF
<1>1. ClockMod \in Nat \ {0} /\ x \in Int /\ y \in Int
  BY ConstantTypes DEF Clock
<1>2. Since(x, y) \in Clock
  <2> DEFINE z == x - y
  <2>1. z \in Int
    BY <1>1
  <2>2. z % ClockMod \in 0 .. ClockMod - 1
    <3> HIDE DEF z
    <3>. QED BY <1>1, <2>1, RemainderRange
  <2>. QED BY <2>2 DEF Since, Clock
<1>3. Since(x, x) = 0
  <2>1. x - x = 0
    BY <1>1
  <2>2. 0 % ClockMod = 0
    BY <1>1, SmallMod
  <2>. QED BY <2>1, <2>2 DEF Since
<1>4. ASSUME NEW d \in Nat
      PROVE  (x + d) % ClockMod \in Clock
  <2> DEFINE z == x + d
  <2>1. z \in Int
    BY <1>1
  <2>2. z % ClockMod \in 0 .. ClockMod - 1
    <3> HIDE DEF z
    <3>. QED BY <1>1, <2>1, RemainderRange
  <2>. QED BY <2>2 DEF Clock
<1>5. ASSUME NEW d \in Nat, Since(x, y) + d < ClockMod
      PROVE  Since((x + d) % ClockMod, y) = Since(x, y) + d
  BY <1>1, <1>5, WrapAdds DEF Since, Clock
<1>. QED BY <1>2, <1>3, <1>4, <1>5

LEMMA SinceRange ==
  ASSUME NEW x \in Clock, NEW y \in Clock
  PROVE  Since(x, y) \in Nat
BY SinceTypes, ConstantTypes DEF Clock

LEMMA ClockAdvances ==
  ASSUME NEW x \in Clock, NEW d \in Nat
  PROVE  (x + d) % ClockMod \in Clock
BY SinceTypes

\* A watch tells a sequence that moved from one that did not.
LEMMA MovedTypes ==
  ASSUME NEW x \in 0 .. SequenceMod - 1, NEW y \in 0 .. SequenceMod - 1
  PROVE  /\ (x - y) % SequenceMod \in 0 .. SequenceMod - 1
         /\ (x - y) % SequenceMod = 0 <=> x = y
         /\ (x + 1) % SequenceMod \in 0 .. SequenceMod - 1
         /\ ((x - y) % SequenceMod) + 1 < SequenceMod =>
              (((x + 1) % SequenceMod) - y) % SequenceMod = ((x - y) % SequenceMod) + 1
PROOF
<1>1. SequenceMod \in Nat \ {0} /\ 1 \in Nat
  BY ConstantTypes
<1>2. \A z \in Int : -SequenceMod <= z /\ z < 2 * SequenceMod =>
        z % SequenceMod = IF z < 0 THEN z + SequenceMod
                          ELSE IF z < SequenceMod THEN z ELSE z - SequenceMod
  BY <1>1, SmallMod
<1>3. (x - y) % SequenceMod = IF x < y THEN x - y + SequenceMod ELSE x - y
  BY <1>1, <1>2
<1>4. (x + 1) % SequenceMod = IF x + 1 < SequenceMod THEN x + 1 ELSE x + 1 - SequenceMod
  BY <1>1, <1>2
<1>5. ((x - y) % SequenceMod) + 1 < SequenceMod =>
        (((x + 1) % SequenceMod) - y) % SequenceMod = ((x - y) % SequenceMod) + 1
  BY <1>1, WrapAdds
<1>. QED BY <1>1, <1>3, <1>4, <1>5

LEMMA WatchIsNoRecord ==
  \A s, t : [sequence |-> s, at |-> t] # NoWatch
PROOF
<1>1. \A s, t : "sequence" \in DOMAIN [sequence |-> s, at |-> t]
  OBVIOUS
<1>2. "sequence" \notin DOMAIN NoWatch
  BY DEF NoWatch
<1>. QED BY <1>1, <1>2

-------------------------------------------------------------------------------
\* Ramps.

\* References and ramps agree wherever a mode starts, and at rest.
LEMMA AtRest ==
  ASSUME NEW at \in [Axes -> Int], ref' = at, ramp' = [a \in Axes |-> Position(at[a])],
         smooth' = ramp'
  PROVE  /\ ramp' \in [Axes -> Int] /\ smooth' \in [Axes -> Int] /\ ref' \in [Axes -> Int]
         /\ RampIsContinuous'
PROOF
<1>1. \A a \in Axes : Position(at[a]) \in Int
  BY SlewAssumption DEF Position
<1>2. \A x \in Int : 2 * Abs(x - x) <= Scale
  BY SlewAssumption DEF Abs
<1>. QED BY <1>1, <1>2 DEF RampIsContinuous

LEMMA ClearedRamps ==
  ASSUME ClearReferences
  PROVE  /\ target' \in [Axes -> Targets]
         /\ ramp' \in [Axes -> Int] /\ smooth' \in [Axes -> Int] /\ ref' \in [Axes -> Int]
         /\ RampIsContinuous'
         /\ \A a \in Axes : target'[a] = 0
PROOF
<1>1. Zero \in [Axes -> Int] /\ Zero \in [Axes -> Targets] /\ \A a \in Axes : Zero[a] = 0
  BY SupervisionAssumption DEF Zero
<1>2. Zero = [a \in Axes |-> Position(Zero[a])]
  <2>1. Position(0) = 0
    BY SlewAssumption DEF Position
  <2>. QED BY <2>1 DEF Zero
<1>. QED BY <1>1, <1>2, AtRest DEF ClearReferences

\* A late run of the supervisor moves a ramp as all the runs it missed would have.
LEMMA PolledRamps ==
  ASSUME TypeOK, RampIsContinuous, NEW dt \in Nat, PollRefs(dt)
  PROVE  /\ ramp' \in [Axes -> Int] /\ smooth' \in [Axes -> Int] /\ ref' \in [Axes -> Int]
         /\ RampIsContinuous'
PROOF
<1>1. ASSUME NEW a \in Axes
      PROVE  /\ ramp'[a] \in Int /\ smooth'[a] = ramp'[a] /\ ref'[a] \in Int
             /\ 2 * Abs(Position(ref'[a]) - ramp'[a]) <= Scale
  <2> DEFINE rate == Rate(mode, a)
  <2>1. /\ ramp[a] \in Int /\ smooth[a] = ramp[a] /\ target[a] \in Int /\ ref[a] \in Int
        /\ 2 * Abs(Position(ref[a]) - ramp[a]) <= Scale
    BY SupervisionAssumption DEF TypeOK, RampIsContinuous
  <2>2. rate \in Nat /\ rate * dt \in Nat
    BY RateTypes, ProductTypes
  <2>3. /\ ramp'[a] = Stepped(ramp[a], target[a], rate * dt)
        /\ smooth'[a] = Fine(smooth[a], target[a], rate, dt)
        /\ ref'[a] = IF rate > 0 THEN Nearest(ramp'[a]) ELSE ref[a]
    BY DEF PollRefs, Step
  <2> HIDE DEF rate
  <2>4. smooth'[a] = ramp'[a]
    <3>1. Fine(ramp[a], target[a], rate, dt) = Stepped(ramp[a], target[a], rate * dt)
      BY <2>1, <2>2, FineIsOneStep
    <3>. QED BY <2>1, <2>3, <3>1
  <2>5. ramp'[a] \in Int
    BY <2>1, <2>2, <2>3, SteppedType
  <2>6. CASE rate > 0
    BY <2>3, <2>4, <2>5, <2>6, NearestIsNear
  <2>7. CASE ~(rate > 0)
    <3>1. rate = 0
      BY <2>2, <2>7
    <3>2. ramp'[a] = ramp[a]
      BY <3>1, <2>1, <2>3, ProductTypes, NoStep
    <3>. QED BY <3>2, <2>1, <2>3, <2>4, <2>5, <2>7
  <2>. QED BY <2>6, <2>7
<1>2. /\ ramp' = [a \in Axes |-> ramp'[a]] /\ smooth' = [a \in Axes |-> smooth'[a]]
      /\ ref' = [a \in Axes |-> ref'[a]]
  BY DEF PollRefs
<1>. QED BY <1>1, <1>2 DEF RampIsContinuous

-------------------------------------------------------------------------------
\* What an action must leave alone to keep one part of the invariant.

LEMMA RampsKept ==
  ASSUME RampIsContinuous, UNCHANGED <<ramp, ref, smooth>>
  PROVE  RampIsContinuous'
BY DEF RampIsContinuous

LEMMA CommandKept ==
  ASSUME CommandSeen, Steered' => Steered, UNCHANGED <<now, gap, lastCmd, cmdAge>>
  PROVE  CommandSeen'
BY DEF CommandSeen, Since

LEMMA WatchKept ==
  ASSUME WatchSeen, mode' \in LiveModes => mode \in LiveModes,
         UNCHANGED <<wall, gap, sequence, watch, doneAge>>
  PROVE  WatchSeen'
BY DEF WatchSeen, Moved, Watched, Since

LEMMA Commanded ==
  ASSUME TypeOK, Touch, UNCHANGED <<now, gap>>
  PROVE  CommandSeen'
PROOF
<1>1. gap \in 0 .. MaxDelay /\ now \in Clock
  BY DEF TypeOK
<1>2. Since(now', lastCmd') = cmdAge' + gap - gap' /\ cmdAge' + gap - gap' = 0
  BY <1>1, SinceTypes, ConstantTypes DEF Touch
<1>. QED BY <1>1, <1>2, ConstantTypes DEF CommandSeen

LEMMA NotSteered ==
  ASSUME mode' # "Run" \/ \A a \in Axes : target'[a] = 0
  PROVE  ~Steered' /\ CommandSeen'
BY DEF CommandSeen, Steered, CurrentAxes

LEMMA NotLive ==
  ASSUME mode' \notin LiveModes
  PROVE  WatchSeen'
BY DEF WatchSeen

-------------------------------------------------------------------------------
LEMMA InitInv == Init => IInv
PROOF
<1> SUFFICES ASSUME Init
             PROVE  IInv
  OBVIOUS
<1>1. Zero \in [Axes -> Targets] /\ Zero \in [Axes -> Int] /\ \A a \in Axes : Zero[a] = 0
  BY SupervisionAssumption DEF Zero
<1>2. 0 \in Clock /\ 0 \in 0 .. SequenceMod - 1 /\ 0 \in 0 .. MaxDelay /\ Longest \in 0 .. Longest
  BY ConstantTypes DEF Clock
<1>3. TypeOK
  BY <1>1, <1>2 DEF Init, TypeOK
<1>4. RampIsContinuous
  <2>1. Position(0) = 0 /\ 2 * Abs(0 - 0) <= Scale
    BY SlewAssumption DEF Position, Abs
  <2>. QED BY <1>1, <2>1 DEF Init, RampIsContinuous
<1>. QED BY <1>3, <1>4 DEF Init, IInv, CommandSeen, WatchSeen, Steered, LiveModes

LEMMA MillisecondStep ==
  ASSUME IInv, Millisecond
  PROVE  IInv'
PROOF
<1>1. /\ wall \in Clock /\ now \in Clock /\ lastCmd \in Clock /\ gap \in 0 .. MaxDelay
      /\ cmdAge \in 0 .. Longest /\ doneAge \in 0 .. Longest
      /\ sequence \in 0 .. SequenceMod - 1
      /\ watch # NoWatch => watch.at \in Clock /\ watch.sequence \in 0 .. SequenceMod - 1
  BY DEF IInv, TypeOK
<1>2. /\ gap < MaxDelay /\ wall' = (wall + 1) % ClockMod /\ gap' = gap + 1
      /\ cmdAge' = Older(cmdAge) /\ doneAge' = Older(doneAge)
      /\ UNCHANGED <<mode, cause, target, ramp, ref, smooth, now, lastCmd, sequence, watch>>
  BY DEF Millisecond, refs
<1>3. wall' \in Clock /\ gap' \in 0 .. MaxDelay
  <2>1. (wall + 1) % ClockMod \in Clock
    BY <1>1, ClockAdvances
  <2>. QED BY <1>1, <1>2, <2>1, ConstantTypes
<1>4. TypeOK'
  <2>1. cmdAge' \in 0 .. Longest /\ doneAge' \in 0 .. Longest
    BY <1>1, <1>2, OlderIsOlder
  <2>. QED BY <1>1, <1>2, <1>3, <2>1 DEF IInv, TypeOK
<1>5. RampIsContinuous'
  BY <1>2, RampsKept DEF IInv
<1>6. CommandSeen'
  <2>1. SUFFICES ASSUME Steered'
                 PROVE  CommandSeen'
    BY DEF CommandSeen
  <2>2. Steered
    BY <1>2, <2>1 DEF Steered
  <2>3. PICK lag \in 0 .. MaxDelay : /\ Since(now, lastCmd) = cmdAge + lag - gap
                                     /\ cmdAge + lag - gap \in 0 .. TimeoutMs + MaxDelay
    BY <2>2 DEF IInv, CommandSeen
  <2>4. cmdAge' = cmdAge + 1
    BY <1>1, <1>2, <2>3, ConstantTypes, OlderIsOlder
  <2>5. /\ Since(now', lastCmd') = Since(now, lastCmd)
        /\ cmdAge' + lag - gap' = cmdAge + lag - gap
    BY <1>1, <1>2, <2>3, <2>4, ConstantTypes
  <2>. QED BY <2>3, <2>5 DEF CommandSeen
<1>7. WatchSeen'
  <2>1. SUFFICES ASSUME mode' \in LiveModes
                 PROVE  WatchSeen'
    BY DEF WatchSeen
  <2>2. mode \in LiveModes /\ doneAge' \in Nat /\ doneAge' <= doneAge + 1
    BY <1>1, <1>2, <2>1, OlderIsOlder
  <2>3. watch' = NoWatch => doneAge' <= gap'
    BY <1>1, <1>2, <2>2, ConstantTypes DEF IInv, WatchSeen
  <2>4. ASSUME watch' # NoWatch
        PROVE  /\ Watched' < StallMs + gap' /\ Moved' <= gap' + 1
               /\ Moved' = gap' + 1 => doneAge' = 0
               /\ Moved' > 0 => doneAge' <= gap'
               /\ Moved' = 0 => Watched' <= doneAge' /\ doneAge' <= Watched' + MaxDelay
    <3>1. watch # NoWatch /\ Moved' = Moved
      BY <1>2, <2>4 DEF Moved
    <3>2. /\ Watched < StallMs + gap /\ Moved <= gap + 1
          /\ Moved > 0 => doneAge <= gap
          /\ Moved = 0 => Watched <= doneAge /\ doneAge <= Watched + MaxDelay
      BY <2>2, <3>1 DEF IInv, WatchSeen
    <3>3. Watched \in Nat
      BY <1>1, <3>1, SinceRange DEF Watched
    <3>4. Watched' = Watched + 1
      <4>1. Watched + 1 < ClockMod
        BY <1>1, <1>2, <3>2, <3>3, ConstantTypes
      <4>2. Since((wall + 1) % ClockMod, watch.at) = Since(wall, watch.at) + 1
        BY <1>1, <3>1, <4>1, SinceTypes DEF Watched
      <4>. QED BY <4>2, <1>2 DEF Watched
    <3>5. Moved \in Nat
      BY <1>1, <3>1, MovedTypes, ConstantTypes DEF Moved
    <3>6. Moved = 0 => doneAge' = doneAge + 1
      BY <1>1, <1>2, <3>2, <3>3, ConstantTypes, OlderIsOlder
    <3>7. Moved > 0 => doneAge' <= gap'
      BY <1>1, <1>2, <2>2, <3>2
    <3>8. Moved' # gap' + 1
      BY <1>1, <1>2, <3>1, <3>2, <3>5
    <3>. QED BY <1>1, <1>2, <2>2, <3>1, <3>2, <3>3, <3>4, <3>5, <3>6, <3>7, <3>8, ConstantTypes
  <2>. QED BY <2>3, <2>4 DEF WatchSeen
<1>. QED BY <1>4, <1>5, <1>6, <1>7 DEF IInv

LEMMA CompleteStep ==
  ASSUME IInv, Complete
  PROVE  IInv'
PROOF
<1>1. /\ gap \in 0 .. MaxDelay /\ wall \in Clock /\ doneAge \in 0 .. Longest
      /\ sequence \in 0 .. SequenceMod - 1
      /\ watch # NoWatch => watch.at \in Clock /\ watch.sequence \in 0 .. SequenceMod - 1
  BY DEF IInv, TypeOK
<1>2. /\ doneAge > 0 /\ sequence' = (sequence + 1) % SequenceMod /\ doneAge' = 0
      /\ UNCHANGED <<mode, cause, target, ramp, ref, smooth, wall, now, gap, lastCmd, watch, cmdAge>>
  BY DEF Complete, refs, clocks
<1>3. sequence' \in 0 .. SequenceMod - 1
  BY <1>1, <1>2, MovedTypes
<1>4. TypeOK'
  BY <1>2, <1>3, ConstantTypes DEF IInv, TypeOK
<1>5. RampIsContinuous'
  BY <1>2, RampsKept DEF IInv
<1>6. CommandSeen'
  BY <1>2, CommandKept DEF IInv, Steered
<1>7. WatchSeen'
  <2>1. SUFFICES ASSUME mode' \in LiveModes
                 PROVE  WatchSeen'
    BY DEF WatchSeen
  <2>2. mode \in LiveModes
    BY <1>2, <2>1
  <2>3. ASSUME watch' # NoWatch
        PROVE  Watched' < StallMs + gap' /\ Moved' <= gap' + 1 /\ Moved' > 0
    <3>1. watch # NoWatch /\ Watched' = Watched
      BY <1>2, <2>3 DEF Watched
    <3>2. /\ Watched < StallMs + gap /\ Moved <= gap + 1
          /\ Moved = gap + 1 => doneAge = 0
      BY <2>2, <3>1 DEF IInv, WatchSeen
    <3>3. Moved \in 0 .. SequenceMod - 1
      BY <1>1, <3>1, MovedTypes DEF Moved
    <3>4. Moved <= gap
      BY <1>1, <1>2, <3>2, <3>3, ConstantTypes
    <3>5. Moved + 1 < SequenceMod
      BY <1>1, <3>3, <3>4, ConstantTypes
    <3>6. Moved' = Moved + 1
      <4>1. (((sequence + 1) % SequenceMod) - watch.sequence) % SequenceMod
              = ((sequence - watch.sequence) % SequenceMod) + 1
        BY <1>1, <3>1, <3>5, MovedTypes DEF Moved
      <4>. QED BY <4>1, <1>2 DEF Moved
    <3>. QED BY <1>1, <1>2, <3>1, <3>2, <3>3, <3>4, <3>6, ConstantTypes
  <2>. QED BY <1>1, <1>2, <2>3, ConstantTypes DEF WatchSeen
<1>. QED BY <1>4, <1>5, <1>6, <1>7 DEF IInv

\* A start brings its ramps to rest where they begin, and begins both ages.
LEMMA EnterStep ==
  ASSUME IInv, NEW m \in LiveModes, NEW rpm \in Targets, NEW to \in Targets, Enter(m, rpm, to)
  PROVE  IInv'
PROOF
<1> DEFINE at == [a \in Axes |-> IF a = "rpm" /\ m = "Speed" THEN rpm ELSE 0]
<1>1. /\ mode' = m /\ cause' = "none"
      /\ ref' = at /\ ramp' = [a \in Axes |-> Position(at[a])] /\ smooth' = ramp'
      /\ target' = IF m = "Speed" THEN [a \in Axes |-> IF a = "rpm" THEN to ELSE 0] ELSE target
      /\ watch' = NoWatch /\ doneAge' = 0 /\ lastCmd' = now /\ cmdAge' = 0
      /\ UNCHANGED <<wall, now, gap, sequence>>
  BY DEF Enter, Touch, clocks
<1>2. at \in [Axes -> Int]
  BY SupervisionAssumption
<1>3. /\ ramp' \in [Axes -> Int] /\ smooth' \in [Axes -> Int] /\ ref' \in [Axes -> Int]
      /\ RampIsContinuous'
  <2> HIDE DEF at
  <2>. QED BY <1>1, <1>2, AtRest
<1>4. target' \in [Axes -> Targets]
  BY <1>1, SupervisionAssumption DEF IInv, TypeOK
<1>5. TypeOK'
  <2>1. 0 \in 0 .. Longest
    BY ConstantTypes
  <2> HIDE DEF at
  <2>. QED BY <1>1, <1>3, <1>4, <2>1 DEF IInv, TypeOK
<1>6. CommandSeen'
  <2> HIDE DEF at
  <2>. QED BY <1>1, Commanded DEF IInv, Touch
<1>7. WatchSeen'
  <2>1. gap \in Nat
    BY ConstantTypes DEF IInv, TypeOK
  <2> HIDE DEF at
  <2>. QED BY <1>1, <2>1 DEF WatchSeen
<1>. QED BY <1>3, <1>5, <1>6, <1>7 DEF IInv

LEMMA SetTargetStep ==
  ASSUME IInv, NEW a \in Axes, NEW to \in Targets, SetTarget(a, to)
  PROVE  IInv'
PROOF
<1>1. /\ target' = [target EXCEPT ![a] = to] /\ lastCmd' = now /\ cmdAge' = 0
      /\ UNCHANGED <<mode, cause, ramp, ref, smooth, wall, now, gap, sequence, watch, doneAge>>
  BY DEF SetTarget, Touch, clocks
<1>2. TypeOK'
  BY <1>1, ConstantTypes DEF IInv, TypeOK
<1>3. RampIsContinuous' /\ CommandSeen' /\ WatchSeen'
  BY <1>1, RampsKept, Commanded, WatchKept DEF IInv, Touch
<1>. QED BY <1>2, <1>3 DEF IInv

LEMMA StartAgainStep ==
  ASSUME IInv, StartAgain
  PROVE  IInv'
PROOF
<1>1. /\ lastCmd' = now /\ cmdAge' = 0
      /\ UNCHANGED <<mode, cause, target, ramp, ref, smooth, wall, now, gap, sequence, watch, doneAge>>
  BY DEF StartAgain, Touch, clocks, refs
<1>2. TypeOK'
  BY <1>1, ConstantTypes DEF IInv, TypeOK
<1>3. RampIsContinuous' /\ CommandSeen' /\ WatchSeen'
  BY <1>1, RampsKept, Commanded, WatchKept DEF IInv, Touch
<1>. QED BY <1>2, <1>3 DEF IInv

\* The speed loop steers no Run.
LEMMA WriteIqStep ==
  ASSUME IInv, NEW to \in Targets, WriteIq(to)
  PROVE  IInv'
PROOF
<1>1. /\ mode = "Speed" /\ target' = [target EXCEPT !["iq"] = to]
      /\ UNCHANGED <<mode, cause, ramp, ref, smooth, wall, now, gap, lastCmd, sequence, watch,
                     cmdAge, doneAge>>
  BY DEF WriteIq, clocks
<1>2. TypeOK'
  BY <1>1 DEF IInv, TypeOK
<1>3. RampIsContinuous' /\ WatchSeen'
  BY <1>1, RampsKept, WatchKept DEF IInv
<1>4. CommandSeen'
  BY <1>1, NotSteered
<1>. QED BY <1>2, <1>3, <1>4 DEF IInv

\* Stops and trips clear the references, whatever the clocks say.
LEMMA ClearedStep ==
  ASSUME IInv, ClearReferences, mode' \in {"Idle", "Fault"},
         cause' \in {"none", "timeout", "stall", "other"}, wall' \in Clock, now' \in Clock,
         gap' \in 0 .. MaxDelay, UNCHANGED <<lastCmd, sequence, cmdAge, doneAge>>
  PROVE  IInv'
PROOF
<1>1. /\ target' \in [Axes -> Targets]
      /\ ramp' \in [Axes -> Int] /\ smooth' \in [Axes -> Int] /\ ref' \in [Axes -> Int]
      /\ RampIsContinuous'
  BY ClearedRamps
<1>2. watch' = NoWatch
  BY DEF ClearReferences
<1>3. TypeOK'
  BY <1>1, <1>2 DEF IInv, TypeOK
<1>4. CommandSeen' /\ WatchSeen'
  BY NotSteered, NotLive DEF LiveModes
<1>. QED BY <1>1, <1>3, <1>4 DEF IInv

LEMMA StopStep ==
  ASSUME IInv, Stop
  PROVE  IInv'
BY ClearedStep DEF Stop, clocks, IInv, TypeOK

LEMMA TripStep ==
  ASSUME IInv, Trip
  PROVE  IInv'
PROOF
<1>1. mode # "Fault"
  BY DEF Trip, LiveModes
<1>2. /\ mode' = "Fault" /\ cause' = "other" /\ ClearReferences
      /\ UNCHANGED <<wall, now, gap, lastCmd, sequence, cmdAge, doneAge>>
  BY <1>1 DEF Trip, Fault, clocks
<1>. QED BY <1>2, ClearedStep DEF IInv, TypeOK

\* The four outcomes of a run.
Timeout == CmdTimedOut /\ Fault("timeout")
Stall == mode \in LiveModes /\ Stalled /\ Fault("stall")
GoOn ==
  /\ ~CmdTimedOut /\ mode \in LiveModes /\ ~Stalled
  /\ watch' = Refreshed /\ PollRefs(gap) /\ UNCHANGED <<mode, cause>>
Rest == mode \notin LiveModes /\ watch' = NoWatch /\ UNCHANGED <<mode, cause, target, ramp, ref, smooth>>

LEMMA Outcomes ==
  ASSUME Supervise
  PROVE  /\ gap > 0 /\ (Timeout \/ Stall \/ GoOn \/ Rest)
         /\ now' = (now + gap) % ClockMod /\ gap' = 0
         /\ UNCHANGED <<wall, lastCmd, sequence, cmdAge, doneAge>>
PROOF
<1>1. /\ gap > 0 /\ now' = (now + gap) % ClockMod /\ gap' = 0
      /\ UNCHANGED <<wall, lastCmd, sequence, cmdAge, doneAge>>
  BY DEF Supervise
<1>2. CASE CmdTimedOut
  BY <1>2 DEF Supervise, Timeout
<1>3. CASE ~CmdTimedOut /\ mode \in LiveModes /\ Stalled
  BY <1>3 DEF Supervise, Stall
<1>4. CASE ~CmdTimedOut /\ mode \in LiveModes /\ ~Stalled
  BY <1>4 DEF Supervise, GoOn
<1>5. CASE ~CmdTimedOut /\ mode \notin LiveModes
  BY <1>5 DEF Supervise, Rest, refs
<1>. QED BY <1>1, <1>2, <1>3, <1>4, <1>5

\* The watch after a run: it has seen everything, and the last change is less than the
\* stall time ago.
LEMMA WatchGoesOn ==
  ASSUME IInv, mode \in LiveModes, ~Stalled, watch' = Refreshed, gap' = 0,
         UNCHANGED <<wall, sequence, doneAge>>
  PROVE  /\ watch' \in [sequence : 0 .. SequenceMod - 1, at : Clock]
         /\ WatchSeen'
PROOF
<1>1. /\ gap \in 0 .. MaxDelay /\ wall \in Clock /\ doneAge \in 0 .. Longest
      /\ sequence \in 0 .. SequenceMod - 1
      /\ watch # NoWatch => watch \in [sequence : 0 .. SequenceMod - 1, at : Clock]
  BY DEF IInv, TypeOK
<1> DEFINE fresh == [sequence |-> sequence, at |-> wall]
<1>2. fresh # NoWatch
  BY WatchIsNoRecord
<1>3. CASE watch' = fresh /\ doneAge <= gap
  <2>1. Watched' = 0 /\ Moved' = 0
    BY <1>1, <1>3, SinceTypes, MovedTypes DEF Watched, Moved
  <2>. QED BY <1>1, <1>2, <1>3, <2>1, ConstantTypes DEF WatchSeen
<1>4. CASE watch' = watch /\ watch # NoWatch /\ watch.sequence = sequence
  <2>1. Moved = 0 /\ Moved' = 0 /\ Watched' = Watched
    BY <1>1, <1>4, MovedTypes DEF Moved, Watched
  <2>2. Watched <= doneAge /\ doneAge <= Watched + MaxDelay
    BY <1>4, <2>1 DEF IInv, WatchSeen
  <2>3. Watched < StallMs /\ Watched \in Nat
    <3>1. Refreshed = watch
      BY <1>4
    <3>2. Watched \in Nat
      BY <1>1, <1>4, SinceRange DEF Watched
    <3>3. ~(Watched >= StallMs)
      BY <3>1 DEF Stalled, Watched
    <3>. QED BY <3>2, <3>3, ConstantTypes
  <2>. QED BY <1>1, <1>4, <2>1, <2>2, <2>3, ConstantTypes DEF WatchSeen
<1>5. CASE watch = NoWatch
  <2>1. Begun = fresh
    BY <1>5 DEF Begun
  <2>2. Refreshed = fresh
    BY <2>1 DEF Refreshed
  <2>3. doneAge <= gap
    BY <1>5 DEF IInv, WatchSeen
  <2>. QED BY <1>3, <2>2, <2>3
<1>6. CASE watch # NoWatch
  <2>1. Begun = watch
    BY <1>6 DEF Begun
  <2>2. CASE watch.sequence = sequence
    BY <1>4, <1>6, <2>1, <2>2 DEF Refreshed
  <2>3. CASE watch.sequence # sequence
    <3>1. watch' = fresh
      BY <2>1, <2>3 DEF Refreshed
    <3>2. Moved \in 0 .. SequenceMod - 1 /\ Moved # 0
      BY <1>1, <1>6, <2>3, MovedTypes DEF Moved
    <3>3. doneAge <= gap
      BY <1>6, <3>2, ConstantTypes DEF IInv, WatchSeen
    <3>. QED BY <1>3, <3>1, <3>3
  <2>. QED BY <2>2, <2>3
<1>. QED BY <1>5, <1>6

LEMMA SuperviseStep ==
  ASSUME IInv, Supervise
  PROVE  IInv'
PROOF
<1>1. /\ gap > 0 /\ (Timeout \/ Stall \/ GoOn \/ Rest)
      /\ now' = (now + gap) % ClockMod /\ gap' = 0
      /\ UNCHANGED <<wall, lastCmd, sequence, cmdAge, doneAge>>
  BY Outcomes
<1>2. gap \in 0 .. MaxDelay /\ gap \in Nat /\ wall \in Clock /\ now \in Clock /\ lastCmd \in Clock
  BY ConstantTypes DEF IInv, TypeOK
<1>3. now' \in Clock /\ gap' \in 0 .. MaxDelay
  <2>1. (now + gap) % ClockMod \in Clock
    BY <1>2, ClockAdvances
  <2>. QED BY <1>1, <2>1, ConstantTypes
<1>4. CASE Timeout
  <2>1. mode # "Fault"
    BY <1>4 DEF Timeout, CmdTimedOut, Steered
  <2>2. mode' = "Fault" /\ cause' = "timeout" /\ ClearReferences
    BY <1>4, <2>1 DEF Timeout, Fault
  <2>. QED BY <1>1, <1>2, <1>3, <2>2, ClearedStep
<1>5. CASE Stall
  <2>1. mode # "Fault"
    BY <1>5 DEF Stall, LiveModes
  <2>2. mode' = "Fault" /\ cause' = "stall" /\ ClearReferences
    BY <1>5, <2>1 DEF Stall, Fault
  <2>. QED BY <1>1, <1>2, <1>3, <2>2, ClearedStep
<1>6. CASE GoOn
  <2>1. /\ watch' \in [sequence : 0 .. SequenceMod - 1, at : Clock]
        /\ WatchSeen'
    BY <1>1, <1>6, WatchGoesOn DEF GoOn
  <2>2. /\ ramp' \in [Axes -> Int] /\ smooth' \in [Axes -> Int] /\ ref' \in [Axes -> Int]
        /\ RampIsContinuous' /\ target' = target
    BY <1>2, <1>6, PolledRamps DEF IInv, GoOn, PollRefs
  <2>3. TypeOK'
    BY <1>1, <1>3, <1>6, <2>1, <2>2 DEF GoOn, IInv, TypeOK
  <2>4. CommandSeen'
    <3>1. SUFFICES ASSUME Steered'
                   PROVE  CommandSeen'
      BY DEF CommandSeen
    <3>2. Steered /\ ~CmdTimedOut
      BY <1>6, <2>2, <3>1 DEF GoOn, Steered
    <3>3. PICK lag \in 0 .. MaxDelay : /\ Since(now, lastCmd) = cmdAge + lag - gap
                                       /\ cmdAge + lag - gap \in 0 .. TimeoutMs + MaxDelay
      BY <3>2 DEF IInv, CommandSeen
    <3>4. Since(now, lastCmd) <= TimeoutMs
      BY <3>2, <3>3, ConstantTypes DEF CmdTimedOut, Silent
    <3>5. Since(now', lastCmd') = Since(now, lastCmd) + gap
      <4>1. Since(now, lastCmd) + gap < ClockMod
        BY <1>2, <3>3, <3>4, ConstantTypes
      <4>2. Since((now + gap) % ClockMod, lastCmd) = Since(now, lastCmd) + gap
        BY <1>2, <4>1, SinceTypes
      <4>. QED BY <1>1, <4>2
    <3>6. cmdAge \in Int /\ cmdAge' + lag - gap' = Since(now, lastCmd) + gap
      BY <1>1, <1>2, <3>3 DEF IInv, TypeOK
    <3>7. cmdAge' + lag - gap' \in 0 .. TimeoutMs + MaxDelay
      BY <1>2, <3>3, <3>4, <3>6, ConstantTypes
    <3>. QED BY <3>5, <3>6, <3>7 DEF CommandSeen
  <2>. QED BY <2>1, <2>2, <2>3, <2>4 DEF IInv
<1>7. CASE Rest
  <2>1. TypeOK'
    BY <1>1, <1>3, <1>7 DEF Rest, IInv, TypeOK
  <2>2. RampIsContinuous'
    BY <1>7, RampsKept DEF Rest, IInv
  <2>3. CommandSeen' /\ WatchSeen'
    BY <1>7, NotSteered, NotLive DEF Rest, LiveModes
  <2>. QED BY <2>1, <2>2, <2>3 DEF IInv
<1>. QED BY <1>1, <1>4, <1>5, <1>6, <1>7

LEMMA StutterStep ==
  ASSUME IInv, UNCHANGED vars
  PROVE  IInv'
PROOF
<1>1. UNCHANGED <<mode, cause, target, ramp, ref, smooth, wall, now, gap, lastCmd, sequence, watch,
                  cmdAge, doneAge>>
  BY DEF vars, refs, clocks
<1>2. RampIsContinuous' /\ CommandSeen' /\ WatchSeen'
  BY <1>1, RampsKept, CommandKept, WatchKept DEF IInv, Steered
<1>. QED BY <1>1, <1>2 DEF IInv, TypeOK

LEMMA NextInv == IInv /\ [Next]_vars => IInv'
PROOF
<1> SUFFICES ASSUME IInv, [Next]_vars
             PROVE  IInv'
  OBVIOUS
<1>1. CASE Millisecond \/ Complete \/ StartAgain
  BY <1>1, MillisecondStep, CompleteStep, StartAgainStep
<1>2. CASE Stop \/ Trip \/ Supervise
  BY <1>2, StopStep, TripStep, SuperviseStep
<1>3. CASE \E m \in LiveModes, rpm, to \in Targets : Enter(m, rpm, to)
  BY <1>3, EnterStep
<1>4. CASE \E a \in Axes, to \in Targets : SetTarget(a, to)
  BY <1>4, SetTargetStep
<1>5. CASE \E to \in Targets : WriteIq(to)
  BY <1>5, WriteIqStep
<1>6. CASE UNCHANGED vars
  BY <1>6, StutterStep
<1>. QED BY <1>1, <1>2, <1>3, <1>4, <1>5, <1>6 DEF Next

LEMMA Invariance == Spec => []IInv
BY InitInv, NextInv, PTL DEF Spec

-------------------------------------------------------------------------------
\* Which step reports what.
LEMMA TripsAre ==
  ASSUME IInv, [Next]_vars, mode # "Fault", mode' = "Fault"
  PROVE  /\ cause' = "timeout" => Supervise /\ Timeout
         /\ cause' = "stall" => Supervise /\ Stall
PROOF
<1>1. CASE Millisecond \/ Complete \/ StartAgain \/ Stop
  BY <1>1 DEF Millisecond, Complete, StartAgain, Stop
<1>2. CASE Trip
  BY <1>2 DEF Trip, Fault
<1>3. CASE Supervise
  <2>1. Timeout \/ Stall
    BY <1>3, Outcomes DEF GoOn, Rest
  <2>2. Timeout => cause' = "timeout"
    BY DEF Timeout, Fault
  <2>3. Stall => cause' = "stall"
    BY DEF Stall, Fault
  <2>. QED BY <1>3, <2>1, <2>2, <2>3
<1>4. ASSUME NEW m \in LiveModes, NEW rpm \in Targets, NEW to \in Targets, Enter(m, rpm, to)
      PROVE  FALSE
  BY <1>4 DEF Enter, LiveModes
<1>5. ASSUME NEW a \in Axes, NEW to \in Targets, SetTarget(a, to)
      PROVE  FALSE
  BY <1>5 DEF SetTarget
<1>6. ASSUME NEW to \in Targets, WriteIq(to)
      PROVE  FALSE
  BY <1>6 DEF WriteIq
<1>7. CASE UNCHANGED vars
  BY <1>7 DEF vars
<1>. QED BY <1>1, <1>2, <1>3, <1>4, <1>5, <1>6, <1>7 DEF Next

CommandYoung == Steered => cmdAge <= TimeoutMs + 2 * MaxDelay
CompletionYoung == mode \in LiveModes => doneAge <= StallMs + 2 * MaxDelay

\* A drive whose commands have stopped is not old, and one that timed out was.
LEMMA CommandAges ==
  /\ IInv /\ Steered => cmdAge <= TimeoutMs + 2 * MaxDelay
  /\ IInv /\ Timeout /\ gap > 0 => cmdAge >= TimeoutMs + 2 - MaxDelay
PROOF
<1>1. ASSUME IInv, Steered
      PROVE  /\ cmdAge <= TimeoutMs + 2 * MaxDelay
             /\ CmdTimedOut /\ gap > 0 => cmdAge >= TimeoutMs + 2 - MaxDelay
  <2>1. cmdAge \in Int /\ gap \in 0 .. MaxDelay
    BY <1>1 DEF IInv, TypeOK
  <2>2. PICK lag \in 0 .. MaxDelay : /\ Since(now, lastCmd) = cmdAge + lag - gap
                                     /\ cmdAge + lag - gap \in 0 .. TimeoutMs + MaxDelay
    BY <1>1 DEF IInv, CommandSeen
  <2>3. CmdTimedOut => cmdAge + lag - gap > TimeoutMs
    BY <2>2 DEF CmdTimedOut, Silent
  <2>. QED BY <2>1, <2>2, <2>3, ConstantTypes
<1>2. Timeout => Steered /\ CmdTimedOut
  BY DEF Timeout, CmdTimedOut
<1>. QED BY <1>1, <1>2

\* The same for the completions of the current interrupt.
LEMMA CompletionAges ==
  /\ IInv /\ mode \in LiveModes => doneAge <= StallMs + 2 * MaxDelay
  /\ IInv /\ Stall => doneAge >= StallMs
PROOF
<1>1. ASSUME IInv, mode \in LiveModes
      PROVE  /\ doneAge <= StallMs + 2 * MaxDelay
             /\ Stalled => doneAge >= StallMs
  <2>1. /\ gap \in 0 .. MaxDelay /\ wall \in Clock /\ doneAge \in 0 .. Longest
        /\ sequence \in 0 .. SequenceMod - 1
        /\ watch # NoWatch => watch.at \in Clock /\ watch.sequence \in 0 .. SequenceMod - 1
    BY <1>1 DEF IInv, TypeOK
  <2> DEFINE fresh == [sequence |-> sequence, at |-> wall]
  <2>2. Refreshed = fresh => ~Stalled
    <3>1. Since(wall, wall) = 0
      BY <2>1, SinceTypes
    <3>. QED BY <3>1, ConstantTypes DEF Stalled
  <2>3. CASE watch = NoWatch
    <3>1. Begun = fresh
      BY <2>3 DEF Begun
    <3>2. Refreshed = fresh
      BY <3>1 DEF Refreshed
    <3>3. doneAge <= gap
      BY <1>1, <2>3 DEF IInv, WatchSeen
    <3>. QED BY <2>1, <2>2, <3>2, <3>3, ConstantTypes
  <2>4. CASE watch # NoWatch
    <3>1. /\ Watched < StallMs + gap /\ Moved \in 0 .. SequenceMod - 1 /\ Watched \in Nat
          /\ Moved > 0 => doneAge <= gap
          /\ Moved = 0 => Watched <= doneAge /\ doneAge <= Watched + MaxDelay
          /\ Moved = 0 <=> sequence = watch.sequence
      BY <1>1, <2>1, <2>4, SinceRange, MovedTypes DEF IInv, WatchSeen, Watched, Moved
    <3>2. doneAge <= StallMs + 2 * MaxDelay
      BY <2>1, <3>1, ConstantTypes
    <3>3. ASSUME Stalled
          PROVE  doneAge >= StallMs
      <4>1. Begun = watch /\ Refreshed # fresh
        BY <2>2, <2>4, <3>3 DEF Begun
      <4>2. watch.sequence = sequence /\ Refreshed = watch
        BY <4>1 DEF Refreshed
      <4>3. Watched >= StallMs
        BY <3>3, <4>2 DEF Stalled, Watched
      <4>. QED BY <2>1, <3>1, <4>2, <4>3, ConstantTypes
    <3>. QED BY <3>2, <3>3
  <2>. QED BY <2>3, <2>4
<1>. QED BY <1>1 DEF Stall

-------------------------------------------------------------------------------
\* Modes, clocks, watch and references keep their types.
THEOREM SupervisionTypes == Spec => []TypeOK
BY Invariance, PTL DEF IInv

\* poll_refs and SlewI32::step: for every rate, unit and delay a ramp is where it would be
\* if it were advanced in every millisecond, and its published value is the nearest unit.
THEOREM RampsAreContinuous == Spec => []RampIsContinuous
BY Invariance, PTL DEF IInv

\* cmd_timed_out: for every timeout and delay and every position of the wrapping clock,
\* a commanded drive ends at most two runs of the supervisor after its timeout, and is
\* never ended for a silence that is more than one run short of it.
THEOREM TimesOutInTime == Spec => TimeoutInTime
PROOF
<1>1. IInv => CommandYoung
  BY CommandAges DEF CommandYoung
<1>2. IInv /\ CommandYoung' /\ [Next]_vars =>
        [/\ Steered' => cmdAge' <= TimeoutMs + 2 * MaxDelay
         /\ cause' = "timeout" /\ mode # "Fault" /\ mode' = "Fault" =>
              cmdAge >= TimeoutMs + 2 - MaxDelay]_vars
  <2>1. CommandYoung' => (Steered' => cmdAge' <= TimeoutMs + 2 * MaxDelay)
    BY DEF CommandYoung
  <2>2. ASSUME IInv, [Next]_vars, cause' = "timeout", mode # "Fault", mode' = "Fault"
        PROVE  cmdAge >= TimeoutMs + 2 - MaxDelay
    <3>1. Supervise /\ Timeout
      BY <2>2, TripsAre
    <3>. QED BY <2>2, <3>1, Outcomes, CommandAges
  <2>. QED BY <2>1, <2>2
<1>. QED BY <1>1, <1>2, Invariance, PTL DEF Spec, TimeoutInTime

\* supervise_current: for every stall time, delay and width of clock and sequence, no live
\* mode outlives its interrupt by more than the stall time and two runs, and no stall is
\* reported of an interrupt that completed within the stall time.
THEOREM StallsInTime == Spec => StallInTime
PROOF
<1>1. IInv => CompletionYoung
  BY CompletionAges DEF CompletionYoung
<1>2. IInv /\ CompletionYoung' /\ [Next]_vars =>
        [/\ mode' \in LiveModes => doneAge' <= StallMs + 2 * MaxDelay
         /\ cause' = "stall" /\ mode # "Fault" /\ mode' = "Fault" => doneAge >= StallMs]_vars
  <2>1. CompletionYoung' => (mode' \in LiveModes => doneAge' <= StallMs + 2 * MaxDelay)
    BY DEF CompletionYoung
  <2>2. ASSUME IInv, [Next]_vars, cause' = "stall", mode # "Fault", mode' = "Fault"
        PROVE  doneAge >= StallMs
    BY <2>2, TripsAre, CompletionAges
  <2>. QED BY <2>1, <2>2
<1>. QED BY <1>1, <1>2, Invariance, PTL DEF Spec, StallInTime
===============================================================================
