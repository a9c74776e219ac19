---------------------------- MODULE PwmCommitProofs ----------------------------
(***************************************************************************)
(* The planner and the commit, for every timer range, every budget and any *)
(* number of periods.                                                      *)
(*                                                                         *)
(* First what the planner returns: PlanSampling is not recursive and its   *)
(* arithmetic is linear, so each property follows from one lemma about it. *)
(*                                                                         *)
(* Then the commit. Its inductive invariant CommitInv says where the       *)
(* writes stand (Written), what drives the bridge (Driven), that every     *)
(* result started before a start transaction is still to be discarded      *)
(* (Discarded), that a sample in use is of this period unless the next one *)
(* is there or coming (Held), where the counter can have got to (InTime),  *)
(* and that a sound conversion ends with its period (Converting).          *)
(***************************************************************************)
EXTENDS PwmCommit, TLAPS

\* A window is 0 or a trigger at which both phases of the pair can be measured.
LEMMA WindowIsValid ==
  ASSUME NEW n \in Nat, NEW a \in Nat, NEW b \in Nat, n >= 2,
         NEW c \in [Phases -> Nat], NEW pair \in Pairs,
         Window(c, n, a, b, pair) # 0
  PROVE  /\ Window(c, n, a, b, pair) \in 1 .. n - 1
         /\ Valid(c, n, a, b, Window(c, n, a, b, pair), pair)
PROOF
<1>1. c[1] \in Nat /\ c[2] \in Nat /\ c[3] \in Nat
  BY DEF Phases
<1>2. ASSUME NEW x \in Nat, NEW y \in Nat, pair = {x, y}, x \in Phases, y \in Phases,
             TurnOn(c, pair) = Larger(c[x], c[y])
      PROVE  /\ Window(c, n, a, b, pair) \in 1 .. n - 1
             /\ Valid(c, n, a, b, Window(c, n, a, b, pair), pair)
  <2>. DEFINE m == Larger(c[x], c[y])
  <2>1. c[x] \in Nat /\ c[y] \in Nat
    BY <1>2
  <2>2. m \in Nat /\ m >= c[x] /\ m >= c[y]
    BY <2>1 DEF Larger
  <2>. HIDE DEF m
  <2>3. /\ Window(c, n, a, b, pair) = Latest(m, n, b)
        /\ 2 * n >= m + b /\ Earliest(m, a) <= Latest(m, n, b)
    BY <1>2 DEF Window, m
  <2>4. /\ Latest(m, n, b) \in 1 .. n - 1
        /\ m + a <= Latest(m, n, b) /\ Latest(m, n, b) + b <= 2 * n - m
    BY <2>2, <2>3 DEF Earliest, Latest, Larger, Smaller
  <2>5. ASSUME NEW p \in pair
        PROVE  Measured(c[p], n, a, b, Latest(m, n, b))
    <3>1. c[p] \in Nat /\ c[p] <= m
      BY <1>2, <2>1, <2>2
    <3>. QED BY <2>2, <2>4, <3>1 DEF Measured
  <2>. QED BY <2>3, <2>4, <2>5 DEF Valid
<1>3. pair = Uv \/ pair = Uw \/ pair = Vw
  BY DEF Pairs
<1>4. Uv # Uw /\ Uv # Vw /\ Uw # Vw
  BY DEF Uv, Uw, Vw
<1>5. CASE pair = Uv
  BY <1>2, <1>5 DEF Uv, Phases, TurnOn
<1>6. CASE pair = Uw
  BY <1>2, <1>4, <1>6 DEF Uw, Phases, TurnOn
<1>7. CASE pair = Vw
  BY <1>2, <1>4, <1>7 DEF Vw, Phases, TurnOn
<1>. QED BY <1>3, <1>5, <1>6, <1>7

\* The three pairs are different, and TurnOn is the larger compare of each.
LEMMA PairCases ==
  ASSUME NEW c, NEW pair \in Pairs
  PROVE  \/ pair = Uv /\ TurnOn(c, pair) = Larger(c[1], c[2])
         \/ pair = Uw /\ TurnOn(c, pair) = Larger(c[1], c[3])
         \/ pair = Vw /\ TurnOn(c, pair) = Larger(c[2], c[3])
PROOF
<1>1. Uv # Uw /\ Uv # Vw /\ Uw # Vw
  BY DEF Uv, Uw, Vw
<1>. QED BY <1>1 DEF Pairs, TurnOn

LEMMA CompareTypes ==
  ASSUME NEW c \in [Phases -> Nat]
  PROVE  c[1] \in Nat /\ c[2] \in Nat /\ c[3] \in Nat
BY DEF Phases

LEMMA TurnOnType ==
  ASSUME NEW c \in [Phases -> Nat], NEW pair \in Pairs
  PROVE  TurnOn(c, pair) \in Nat
BY PairCases, CompareTypes DEF Larger

\* No pair turns on earlier than the lowest one.
LEMMA LowestIsLowest ==
  ASSUME NEW c \in [Phases -> Nat], NEW pair \in Pairs
  PROVE  LowestPair(c) \in Pairs /\ TurnOn(c, LowestPair(c)) <= TurnOn(c, pair)
PROOF
<1>1. LowestPair(c) \in Pairs
  BY DEF LowestPair, Pairs
<1>2. \/ LowestPair(c) = Uv /\ c[1] <= c[3] /\ c[2] <= c[3]
      \/ LowestPair(c) = Uw /\ c[1] <= c[2] /\ c[3] <= c[2]
      \/ LowestPair(c) = Vw /\ c[2] <= c[1] /\ c[3] <= c[1]
  BY CompareTypes DEF LowestPair
<1>3. Uv # Uw /\ Uv # Vw /\ Uw # Vw
  BY DEF Uv, Uw, Vw
<1>4. \/ LowestPair(c) = Uv /\ TurnOn(c, LowestPair(c)) = Larger(c[1], c[2])
      \/ LowestPair(c) = Uw /\ TurnOn(c, LowestPair(c)) = Larger(c[1], c[3])
      \/ LowestPair(c) = Vw /\ TurnOn(c, LowestPair(c)) = Larger(c[2], c[3])
  BY <1>1, PairCases
<1>5. \/ TurnOn(c, pair) = Larger(c[1], c[2])
      \/ TurnOn(c, pair) = Larger(c[1], c[3])
      \/ TurnOn(c, pair) = Larger(c[2], c[3])
  BY PairCases
<1>6. TurnOn(c, LowestPair(c)) <= TurnOn(c, pair)
  BY <1>2, <1>3, <1>4, <1>5, CompareTypes DEF Larger
<1>. QED BY <1>1, <1>6

\* A common-mode shift moves the turn-on with the compares.
LEMMA TurnOnShifted ==
  ASSUME NEW c \in [Phases -> Nat], NEW s \in Int, Headroom(c, s), s >= 0, NEW pair \in Pairs
  PROVE  /\ Shifted(c, s) \in [Phases -> Nat]
         /\ TurnOn(Shifted(c, s), pair) = TurnOn(c, pair) - s
PROOF
<1>1. \A p \in Phases : c[p] - s \in Nat
  BY DEF Headroom
<1>2. Shifted(c, s) \in [Phases -> Nat]
  BY <1>1 DEF Shifted
<1>3. /\ Shifted(c, s)[1] = c[1] - s
      /\ Shifted(c, s)[2] = c[2] - s
      /\ Shifted(c, s)[3] = c[3] - s
  BY DEF Shifted, Phases
<1>4. c[1] \in Nat /\ c[2] \in Nat /\ c[3] \in Nat
  BY CompareTypes
<1>5. CASE pair = Uv
  <2>1. /\ TurnOn(c, pair) = Larger(c[1], c[2])
        /\ TurnOn(Shifted(c, s), pair) = Larger(c[1] - s, c[2] - s)
    BY <1>3, <1>5 DEF TurnOn
  <2>. QED BY <1>2, <1>4, <2>1 DEF Larger
<1>6. CASE pair = Uw
  <2>1. /\ TurnOn(c, pair) = Larger(c[1], c[3])
        /\ TurnOn(Shifted(c, s), pair) = Larger(c[1] - s, c[3] - s)
    BY <1>3, <1>6 DEF TurnOn, Uv, Uw
  <2>. QED BY <1>2, <1>4, <2>1 DEF Larger
<1>7. CASE pair = Vw
  <2>1. /\ TurnOn(c, pair) = Larger(c[2], c[3])
        /\ TurnOn(Shifted(c, s), pair) = Larger(c[2] - s, c[3] - s)
    BY <1>3, <1>7 DEF TurnOn, Uv, Uw, Vw
  <2>. QED BY <1>2, <1>4, <2>1 DEF Larger
<1>. QED BY <1>5, <1>6, <1>7 DEF Pairs

\* Up to LatestTurnOn, and only with budgets that fit at all, there is a window.
LEMMA WindowExists ==
  ASSUME NEW n \in Nat, NEW a \in Nat, NEW b \in Nat, n >= 2, TurnOnExists(n, a, b),
         NEW c \in [Phases -> Nat], NEW pair \in Pairs,
         TurnOn(c, pair) <= LatestTurnOn(n, a, b)
  PROVE  Window(c, n, a, b, pair) # 0
PROOF
<1>. DEFINE m == TurnOn(c, pair)
<1>1. m \in Nat
  BY TurnOnType
<1>2. /\ m <= n - 1 - a
      /\ m <= (2 * n - (a + b)) \div 2
      /\ m <= 2 * n - (b + 1)
  BY <1>1 DEF LatestTurnOn, Smaller
<1>. HIDE DEF m
<1>3. 2 * m <= 2 * n - (a + b)
  BY <1>1, <1>2
<1>4. 2 * n >= m + b /\ Earliest(m, a) <= Latest(m, n, b) /\ Latest(m, n, b) >= 1
  BY <1>1, <1>2, <1>3 DEF Earliest, Latest, Larger, Smaller
<1>5. Latest(m, n, b) # 0
  BY <1>1, <1>4 DEF Latest, Smaller
<1>. QED BY <1>4, <1>5 DEF Window, m

\* Conversely, a trigger at which a pair can be measured bounds its turn-on.
LEMMA ValidBounds ==
  ASSUME NEW n \in Nat, NEW a \in Nat, NEW b \in Nat, n >= 2,
         NEW c \in [Phases -> Nat], NEW pair \in Pairs, NEW t \in Nat,
         Valid(c, n, a, b, t, pair)
  PROVE  TurnOnExists(n, a, b) /\ TurnOn(c, pair) <= LatestTurnOn(n, a, b)
PROOF
<1>. DEFINE m == TurnOn(c, pair)
<1>1. m \in Nat
  BY TurnOnType
<1>2. \E p \in pair : m = c[p]
  BY PairCases, CompareTypes DEF Larger, Uv, Uw, Vw
<1>3. Measured(m, n, a, b, t) /\ 0 < t /\ t < n
  BY <1>2 DEF Valid
<1>. HIDE DEF m
<1>4. m + a <= t /\ t + b <= 2 * n - m /\ t <= n - 1 /\ 1 <= t
  BY <1>1, <1>3 DEF Measured
<1>5. m <= n - 1 - a /\ 2 * m <= 2 * n - (a + b) /\ m <= 2 * n - (b + 1)
  BY <1>1, <1>4
<1>6. m <= (2 * n - (a + b)) \div 2
  BY <1>1, <1>5
<1>7. TurnOnExists(n, a, b)
  BY <1>1, <1>5 DEF TurnOnExists
<1>8. m <= LatestTurnOn(n, a, b)
  BY <1>5, <1>6 DEF LatestTurnOn, Smaller
<1>. QED BY <1>7, <1>8 DEF m

\* What a shift within the headroom leaves.
LEMMA ShiftType ==
  ASSUME NEW n \in Nat, NEW a \in Nat, NEW b \in Nat, n >= 2, TurnOnExists(n, a, b),
         NEW c \in [Phases -> Nat]
  PROVE  /\ LatestTurnOn(n, a, b) \in Nat
         /\ LowestPair(c) \in Pairs
         /\ TurnOn(c, LowestPair(c)) \in Nat
         /\ Shift(c, n, a, b) \in Int
PROOF
<1>1. LatestTurnOn(n, a, b) \in Nat
  BY DEF LatestTurnOn, TurnOnExists, Smaller
<1>2. LowestPair(c) \in Pairs
  BY DEF LowestPair, Pairs
<1>3. TurnOn(c, LowestPair(c)) \in Nat
  BY <1>2, TurnOnType
<1>. QED BY <1>1, <1>2, <1>3 DEF Shift

LEMMA ShiftedKeepsLines ==
  ASSUME NEW n \in Nat, NEW c \in Compares(n), NEW s \in Nat, Headroom(c, s)
  PROVE  /\ Shifted(c, s) \in Compares(n)
         /\ \A p, q \in Phases : Shifted(c, s)[p] - Shifted(c, s)[q] = c[p] - c[q]
PROOF
<1>1. \A p \in Phases : c[p] \in 0 .. n + 1 /\ s <= c[p]
  BY DEF Compares, Headroom
<1>2. \A p \in Phases : c[p] - s \in 0 .. n + 1
  BY <1>1
<1>3. Shifted(c, s) \in Compares(n)
  BY <1>2 DEF Shifted, Compares
<1>4. ASSUME NEW p \in Phases, NEW q \in Phases
      PROVE  Shifted(c, s)[p] - Shifted(c, s)[q] = c[p] - c[q]
  <2>1. Shifted(c, s)[p] = c[p] - s /\ Shifted(c, s)[q] = c[q] - s
    BY DEF Shifted
  <2>2. c[p] \in Nat /\ c[q] \in Nat
    BY <1>1
  <2>. QED BY <2>1, <2>2
<1>. QED BY <1>3, <1>4

\* A plan made from a window is one the properties accept.
LEMMA PlanAtIsSound ==
  ASSUME NEW n \in Nat, NEW a \in Nat, NEW b \in Nat, n >= 2,
         NEW d \in Compares(n), NEW pair \in Pairs, Window(d, n, a, b, pair) # 0
  PROVE  LET P == PlanAt(d, n, a, b, pair)
         IN  /\ P.ccr = d /\ P.ccr4 > 0
             /\ P \in [ccr : Compares(n), ccr4 : 0 .. n, pair : Pairs]
             /\ Valid(P.ccr, n, a, b, P.ccr4, P.pair)
PROOF
<1>1. d \in [Phases -> Nat]
  BY DEF Compares
<1>2. /\ Window(d, n, a, b, pair) \in 1 .. n - 1
      /\ Valid(d, n, a, b, Window(d, n, a, b, pair), pair)
  BY <1>1, WindowIsValid
<1>. QED BY <1>2 DEF PlanAt

\* The four ways PlanSampling ends.
LEMMA PlanCases ==
  ASSUME NEW n \in Nat, NEW a \in Nat, NEW b \in Nat, n >= 2, NEW c \in Compares(n)
  PROVE  LET l == LowestPair(c)
             s == Shift(c, n, a, b)
         IN  \/ /\ PlanSampling(c, n, a, b) = PlanAt(c, n, a, b, Uv)
                /\ Window(c, n, a, b, Uv) # 0
             \/ /\ PlanSampling(c, n, a, b) = PlanAt(c, n, a, b, l)
                /\ Window(c, n, a, b, l) # 0
             \/ /\ PlanSampling(c, n, a, b) = PlanAt(Shifted(c, s), n, a, b, l)
                /\ Window(c, n, a, b, l) = 0
                /\ TurnOnExists(n, a, b) /\ s >= 0 /\ Headroom(c, s)
                /\ Window(Shifted(c, s), n, a, b, l) # 0
             \/ /\ PlanSampling(c, n, a, b) = NoPlan
                /\ Window(c, n, a, b, l) = 0
                /\ ~ /\ TurnOnExists(n, a, b) /\ s >= 0 /\ Headroom(c, s)
                     /\ Window(Shifted(c, s), n, a, b, l) # 0
PROOF
<1>1. ~(n < 2 \/ \E p \in Phases : c[p] > n + 1)
  BY DEF Compares
<1>2. n - 1 # 0
  OBVIOUS
<1>. QED BY <1>1, <1>2 DEF PlanSampling

\* Whatever is planned can be measured and keeps the line voltages.
LEMMA PlanIsSound ==
  ASSUME NEW n \in Nat, NEW a \in Nat, NEW b \in Nat, NEW c \in Compares(n),
         PlanSampling(c, n, a, b) # NoPlan
  PROVE  LET P == PlanSampling(c, n, a, b)
         IN  /\ P \in [ccr : Compares(n), ccr4 : 0 .. n, pair : Pairs]
             /\ Valid(P.ccr, n, a, b, P.ccr4, P.pair)
             /\ \A p, q \in Phases : P.ccr[p] - P.ccr[q] = c[p] - c[q]
PROOF
<1>1. n >= 2
  BY DEF PlanSampling
<1>2. c \in [Phases -> Nat]
  BY DEF Compares
<1>3. LowestPair(c) \in Pairs /\ Uv \in Pairs
  BY DEF LowestPair, Pairs
<1>. DEFINE l == LowestPair(c)
            s == Shift(c, n, a, b)
<1>4. CASE /\ PlanSampling(c, n, a, b) = PlanAt(c, n, a, b, Uv)
           /\ Window(c, n, a, b, Uv) # 0
  BY <1>1, <1>3, <1>4, PlanAtIsSound
<1>5. CASE /\ PlanSampling(c, n, a, b) = PlanAt(c, n, a, b, l)
           /\ Window(c, n, a, b, l) # 0
  BY <1>1, <1>3, <1>5, PlanAtIsSound
<1>6. CASE /\ PlanSampling(c, n, a, b) = PlanAt(Shifted(c, s), n, a, b, l)
           /\ TurnOnExists(n, a, b) /\ s >= 0 /\ Headroom(c, s)
           /\ Window(Shifted(c, s), n, a, b, l) # 0
  <2>1. s \in Nat
    BY <1>1, <1>2, <1>6, ShiftType
  <2>. HIDE DEF s, l
  <2>2. /\ Shifted(c, s) \in Compares(n)
        /\ \A p, q \in Phases : Shifted(c, s)[p] - Shifted(c, s)[q] = c[p] - c[q]
    BY <1>6, <2>1, ShiftedKeepsLines
  <2>3. l \in Pairs
    BY <1>3 DEF l
  <2>4. LET P == PlanAt(Shifted(c, s), n, a, b, l)
        IN  /\ P.ccr = Shifted(c, s)
            /\ P \in [ccr : Compares(n), ccr4 : 0 .. n, pair : Pairs]
            /\ Valid(P.ccr, n, a, b, P.ccr4, P.pair)
    BY <1>1, <1>6, <2>2, <2>3, PlanAtIsSound
  <2>. QED BY <1>6, <2>2, <2>4
<1>. QED BY <1>1, <1>4, <1>5, <1>6, PlanCases

\* If some shift, pair and trigger would do, there is a plan, with no larger shift.
LEMMA PlanIsMinimal ==
  ASSUME NEW n \in Nat, NEW a \in Nat, NEW b \in Nat, n >= 2, NEW c \in Compares(n),
         NEW s \in Nat, Headroom(c, s), NEW t \in Nat, NEW pair \in Pairs,
         Valid(Shifted(c, s), n, a, b, t, pair)
  PROVE  /\ PlanSampling(c, n, a, b) # NoPlan
         /\ c[1] - PlanSampling(c, n, a, b).ccr[1] <= s
PROOF
<1>1. c \in [Phases -> Nat] /\ c[1] \in Nat
  BY DEF Compares, Phases
<1>2. LowestPair(c) \in Pairs /\ Uv \in Pairs
  BY DEF LowestPair, Pairs
<1>. DEFINE l == LowestPair(c)
            g == Shift(c, n, a, b)
            M == TurnOn(c, l)
            L == LatestTurnOn(n, a, b)
<1>3. TurnOnExists(n, a, b) /\ TurnOn(c, pair) - s <= L
  <2>1. /\ Shifted(c, s) \in [Phases -> Nat]
        /\ TurnOn(Shifted(c, s), pair) = TurnOn(c, pair) - s
    BY <1>1, TurnOnShifted
  <2>. QED BY <2>1, ValidBounds
<1>4. L \in Nat /\ M \in Nat /\ g = M - L
  BY <1>1, <1>3, ShiftType DEF Shift
<1>5. M - s <= L
  <2>1. M <= TurnOn(c, pair)
    BY <1>1, LowestIsLowest
  <2>2. TurnOn(c, pair) \in Nat
    BY <1>1, TurnOnType
  <2>. QED BY <1>3, <1>4, <2>1, <2>2
<1>6. CASE \/ PlanSampling(c, n, a, b) = PlanAt(c, n, a, b, Uv) /\ Window(c, n, a, b, Uv) # 0
           \/ PlanSampling(c, n, a, b) = PlanAt(c, n, a, b, l) /\ Window(c, n, a, b, l) # 0
  <2>1. PlanSampling(c, n, a, b).ccr = c /\ PlanSampling(c, n, a, b).ccr4 > 0
    BY <1>2, <1>6, PlanAtIsSound
  <2>. QED BY <1>1, <2>1 DEF NoPlan
<1>7. CASE Window(c, n, a, b, l) = 0
  <2>1. M > L
    <3>1. ~(M <= L)
      BY <1>1, <1>2, <1>3, <1>7, WindowExists
    <3>. QED BY <1>4, <3>1
  <2>2. g \in Nat /\ g <= s
    BY <1>4, <1>5, <2>1
  <2>. HIDE DEF g, M, L
  <2>3. Headroom(c, g)
    <3>1. \A p \in Phases : c[p] \in Nat /\ s <= c[p]
      BY <1>1 DEF Headroom
    <3>. QED BY <2>2, <3>1 DEF Headroom
  <2>4. /\ Shifted(c, g) \in [Phases -> Nat]
        /\ TurnOn(Shifted(c, g), l) = TurnOn(c, l) - g
    BY <1>1, <1>2, <2>2, <2>3, TurnOnShifted
  <2>5. TurnOn(Shifted(c, g), l) <= LatestTurnOn(n, a, b)
    BY <1>4, <2>4 DEF M, L
  <2>6. Window(Shifted(c, g), n, a, b, l) # 0
    BY <1>2, <1>3, <2>4, <2>5, WindowExists
  <2>7. \/ PlanSampling(c, n, a, b) = PlanAt(c, n, a, b, Uv) /\ Window(c, n, a, b, Uv) # 0
        \/ PlanSampling(c, n, a, b) = PlanAt(Shifted(c, g), n, a, b, l)
    BY <1>3, <1>7, <2>2, <2>3, <2>6, PlanCases DEF g
  <2>8. CASE PlanSampling(c, n, a, b) = PlanAt(Shifted(c, g), n, a, b, l)
    <3>1. Shifted(c, g) \in Compares(n)
      BY <2>2, <2>3, ShiftedKeepsLines
    <3>2. /\ PlanSampling(c, n, a, b).ccr = Shifted(c, g)
          /\ PlanSampling(c, n, a, b).ccr4 > 0
      BY <1>2, <2>6, <2>8, <3>1, PlanAtIsSound
    <3>3. Shifted(c, g)[1] = c[1] - g
      BY DEF Shifted, Phases
    <3>. QED BY <1>1, <2>2, <3>2, <3>3 DEF NoPlan
  <2>. QED BY <1>6, <2>7, <2>8
<1>. QED BY <1>6, <1>7, PlanCases
-------------------------------------------------------------------------------
\* The inductive invariant: the plan is the planner's answer to the compares.
Answered ==
  /\ arr \in Arrs /\ after \in Afters /\ before \in Befores
  /\ ccr \in Compares(arr)
  /\ planned \in BOOLEAN
  /\ plan = IF planned THEN PlanSampling(ccr, arr, after, before) ELSE NoPlan

LEMMA AlwaysAnswered == Spec => []Answered
PROOF
<1>1. Init => Answered
  BY DEF Init, Answered
<1>2. Answered /\ [Next]_vars => Answered'
  <2>. SUFFICES ASSUME Answered, [Next]_vars
                PROVE  Answered'
    OBVIOUS
  <2>1. CASE Plan
    BY <2>1 DEF Plan, Answered
  <2>2. CASE UNCHANGED vars
    BY <2>2 DEF vars, Answered
  <2>. QED BY <2>1, <2>2 DEF Next
<1>. QED BY <1>1, <1>2, PTL DEF Spec

\* The timers and budgets of a state are natural numbers.
LEMMA Inputs ==
  ASSUME Answered
  PROVE  arr \in Nat /\ after \in Nat /\ before \in Nat /\ ccr \in Compares(arr)
BY SamplingAssumption DEF Answered

\* What a plan consists of.
LEMMA AnsweredFits ==
  ASSUME Answered
  PROVE  TypeOK
PROOF
<1>1. CASE plan = NoPlan
  <2>1. \A p \in Phases : 0 \in 0 .. arr + 1
    BY Inputs
  <2>2. NoPlan \in [ccr : Compares(arr), ccr4 : 0 .. arr, pair : Pairs]
    BY <2>1, Inputs DEF NoPlan, Compares, Pairs
  <2>. QED BY <1>1, <2>2 DEF TypeOK, Answered
<1>2. CASE plan # NoPlan
  <2>1. plan = PlanSampling(ccr, arr, after, before)
    BY <1>2 DEF Answered
  <2>2. plan \in [ccr : Compares(arr), ccr4 : 0 .. arr, pair : Pairs]
    BY <1>2, <2>1, Inputs, PlanIsSound
  <2>. QED BY <2>2 DEF TypeOK, Answered
<1>. QED BY <1>1, <1>2

\* The planned compares and the trigger stay within the timer's range.
THEOREM PlanTypes == Spec => []TypeOK
PROOF
<1>1. Answered => TypeOK
  BY AnsweredFits
<1>. QED BY <1>1, AlwaysAnswered, PTL

\* plan_sampling: both chosen phases have settled at the trigger and conduct until
\* their conversions are done.
THEOREM PlansAreMeasurable == Spec => []PlanIsMeasurable
PROOF
<1>1. Answered => PlanIsMeasurable
  <2>. SUFFICES ASSUME Answered, plan # NoPlan
                PROVE  Valid(plan.ccr, arr, after, before, plan.ccr4, plan.pair)
    BY DEF PlanIsMeasurable
  <2>1. plan = PlanSampling(ccr, arr, after, before)
    BY DEF Answered
  <2>. QED BY <2>1, Inputs, PlanIsSound
<1>. QED BY <1>1, AlwaysAnswered, PTL

\* plan_sampling: the shift is common to the three compares.
THEOREM PlansKeepLineVoltages == Spec => []LineVoltagesKept
PROOF
<1>1. Answered => LineVoltagesKept
  <2>. SUFFICES ASSUME Answered, plan # NoPlan
                PROVE  \A p, q \in Phases : plan.ccr[p] - plan.ccr[q] = ccr[p] - ccr[q]
    BY DEF LineVoltagesKept
  <2>1. plan = PlanSampling(ccr, arr, after, before)
    BY DEF Answered
  <2>. QED BY <2>1, Inputs, PlanIsSound
<1>. QED BY <1>1, AlwaysAnswered, PTL

\* plan_sampling: a plan is refused only when no shift of any size makes any pair
\* measurable, and the shift it makes is the smallest that does.
THEOREM ShiftsAreMinimal == Spec => []ShiftIsMinimal
PROOF
<1>1. Answered => ShiftIsMinimal
  <2>. SUFFICES ASSUME Answered, planned, arr >= 2,
                       NEW s \in 0 .. arr + 1, NEW t \in 1 .. arr, NEW pair \in Pairs,
                       Feasible(s, t, pair)
                PROVE  plan # NoPlan /\ ccr[1] - plan.ccr[1] <= s
    BY DEF ShiftIsMinimal
  <2>1. plan = PlanSampling(ccr, arr, after, before)
    BY DEF Answered
  <2>2. Headroom(ccr, s) /\ Valid(Shifted(ccr, s), arr, after, before, t, pair)
    BY DEF Feasible, Headroom, Shifted
  <2>3. s \in Nat /\ t \in Nat
    BY Inputs
  <2>. QED BY <2>1, <2>2, <2>3, Inputs, PlanIsMinimal
<1>. QED BY <1>1, AlwaysAnswered, PTL

-------------------------------------------------------------------------------
\* A period that runs on these registers, routed like this, gives a sound sample.
Good(n, a, b, regs, pair) == Valid([p \in Phases |-> regs[p]], n, a, b, regs[4], pair)

\* A result that may be decoded as the routed pair.
Usable(result) == result.sound /\ result.pair = routed

\* The trigger of this period is still to come, or converting, or this is its result.
Caught(result) == result.valleys = 0 \/ conv # NoConv \/ phase < active[4]

\* Pending results are counted.
One(b) == IF b THEN 1 ELSE 0

Working == {"compute", "guard"} \cup Critical
Writing == {"write1", "write2", "write3", "write4"}
PastLook == Critical \ {"look"}
Unmasking == {"recheck", "repending"}
Steady == {"idle", "read", "compute", "guard", "look"}
RegisterValues == [Registers -> 0 .. arr + 1]
Conversions == [result : Results, ticks : 0 .. before]

Types ==
  /\ phase \in 0 .. 2 * arr - 1 /\ udis \in BOOLEAN /\ moe \in BOOLEAN /\ jeos \in BOOLEAN
  /\ active \in RegisterValues /\ preload \in RegisterValues
  /\ routed \in Pairs /\ jdr \in Results /\ sample \in Results
  /\ conv # NoConv => conv \in Conversions
  /\ pc \in Steps /\ discard \in 0 .. 2 /\ seen \in 0 .. arr /\ timely \in BOOLEAN
  /\ spent \in 0 .. Stall
  /\ committed \in [last : RegisterValues, previous : RegisterValues]

\* Where the outputs are on, a plan exists and update events are masked.
Places ==
  /\ pc \in Working => moe /\ discard = 0
  /\ pc \in Starting => ~moe /\ discard = StartupSamples
  /\ pc \in {"guard"} \cup Critical \cup Starting => plan # NoPlan
  /\ lastPair = routed
  /\ udis <=> pc \in Critical \ Unmasking

\* How far the writes of a plan have come.
Written ==
  /\ pc \in {"transfer", "enable", "route", "restore"} \cup Unmasking => preload = Regs(plan)
  /\ pc \in {"transfer", "enable", "restore"} \cup Unmasking => routed = plan.pair
  /\ pc = "enable" => active = preload
  /\ \A r \in Registers : pc \in Writing /\ r < Index(pc) => preload[r] = Regs(plan)[r]

\* What drives the bridge while the outputs are on.
Driven ==
  moe =>
    /\ 0 < committed.last[4] /\ committed.last[4] < arr
    /\ pc \in Steady =>
         /\ preload = committed.last /\ Good(arr, after, before, committed.last, routed)
         /\ ~Down => active = committed.last
         /\ active \in {committed.last, committed.previous}
         /\ active # committed.last => pc = "idle" /\ ~jeos /\ conv = NoConv
    /\ pc \in Critical \ (Unmasking \cup {"look"}) => active = committed.last
    /\ pc \in Unmasking => active \in {committed.last, Regs(plan)}
    /\ pc = "repending" /\ ~Down => active = Regs(plan)

\* Every result that must not be used is still to be discarded.
Discarded ==
  moe /\ pc \in {"idle", "read"} /\ active = committed.last =>
    /\ ~Usable(jdr) \/ ~Caught(jdr) => One(pc = "read") + One(jeos) <= discard
    /\ conv # NoConv /\ ~Usable(conv.result) => One(pc = "read") + One(jeos) + 1 <= discard

\* The sample in use: sound, of this period, or another one is there already.
Held ==
  /\ pc \in {"compute", "guard"} => Usable(sample)
  /\ pc \in Working \ {"repending"} => jeos \/ Caught(sample)
  /\ pc = "repending" =>
       /\ Down => conv = NoConv /\ (jeos \/ sample.valleys = 0)
       /\ ~Down => /\ jeos \/ sample.valleys = 1
                   /\ conv # NoConv => Usable(conv.result)

\* Where the counter can be: after the look it has not come round to a second peak.
InTime ==
  /\ pc \in PastLook => BeforePeak /\ (~Down => phase < spent)
  /\ pc = "recheck" /\ timely /\ Down => 2 * arr - phase <= seen

\* A conversion started before the peak; a sound one ends with its period.
Converting ==
  conv # NoConv =>
    /\ phase - arr + 1 <= conv.ticks
    /\ conv.result.sound =>
         /\ before < 2 * arr /\ phase <= conv.ticks + 2 * arr - before
         /\ conv.result.valleys = 0 \/ (phase = 0 /\ conv.ticks = before)

CommitInv ==
  /\ Answered /\ Types /\ Places /\ Written /\ Driven /\ Discarded /\ Held /\ InTime /\ Converting

-------------------------------------------------------------------------------
\* The timers, the budgets and the longest commit are natural numbers.
LEMMA Numbers ==
  ASSUME Answered
  PROVE  /\ arr \in Nat /\ after \in Nat /\ before \in Nat /\ arr > 0
         /\ Stall \in Nat /\ Stall <= arr /\ Asked \subseteq Compares(arr)
BY SamplingAssumption, PwmCommitAssumption DEF Answered

LEMMA Halved == ASSUME NEW n \in Nat, n > 0 PROVE n \div 2 \in 0 .. n + 1 /\ n - 1 \in 0 .. n + 1
OBVIOUS

\* Such registers have a trigger before the peak.
LEMMA GoodTrigger ==
  ASSUME NEW n, NEW a, NEW b, NEW regs, NEW pair, Good(n, a, b, regs, pair)
  PROVE  0 < regs[4] /\ regs[4] < n
BY DEF Good, Valid

\* A sound conversion ends within its period.
LEMMA SoundEnds ==
  ASSUME NEW n \in Nat, NEW a \in Nat, NEW b \in Nat, NEW m \in Nat, NEW regs \in [Registers -> 0 .. m],
         NEW pair \in Pairs, NEW t \in Nat, Valid([p \in Phases |-> regs[p]], n, a, b, t, pair)
  PROVE  t + b <= 2 * n /\ b < 2 * n
PROOF
<1>1. \E p \in Phases : p \in pair
  BY DEF Pairs, Phases, Uv, Uw, Vw
<1>2. PICK p \in Phases : Measured(regs[p], n, a, b, t)
  BY <1>1 DEF Valid
<1>3. regs[p] \in Nat
  BY DEF Phases, Registers
<1>. QED BY <1>2, <1>3 DEF Measured, Valid

\* What is planned fits the registers and gives a sound sample.
LEMMA PlanFits ==
  ASSUME Answered
  PROVE  /\ plan \in [ccr : Compares(arr), ccr4 : 0 .. arr, pair : Pairs]
         /\ Regs(plan) \in RegisterValues
         /\ plan # NoPlan => Good(arr, after, before, Regs(plan), plan.pair)
PROOF
<1>1. TypeOK
  BY AnsweredFits
<1>2. /\ plan.ccr \in [Phases -> 0 .. arr + 1] /\ plan.ccr4 \in 0 .. arr /\ plan.pair \in Pairs
      /\ arr \in Nat
  BY <1>1, Numbers DEF TypeOK, Compares
<1>3. Regs(plan) \in RegisterValues
  BY <1>2 DEF Regs, RegisterValues, Registers, Phases
<1>4. ASSUME plan # NoPlan
      PROVE  Good(arr, after, before, Regs(plan), plan.pair)
  <2>1. Valid(plan.ccr, arr, after, before, plan.ccr4, plan.pair)
    BY <1>4, Numbers, Inputs, PlanIsSound DEF Answered
  <2>2. [p \in Phases |-> Regs(plan)[p]] = plan.ccr /\ Regs(plan)[4] = plan.ccr4
    BY <1>2 DEF Regs, Registers, Phases
  <2>. QED BY <2>1, <2>2 DEF Good
<1>. QED BY <1>1, <1>3, <1>4 DEF TypeOK

\* The four writes, in order.
LEMMA Indices ==
  Index("write1") = 1 /\ Index("write2") = 2 /\ Index("write3") = 3 /\ Index("write4") = 4
PROOF
<1>. DEFINE w == <<"write1", "write2", "write3", "write4">>
<1>1. w[1] = "write1" /\ w[2] = "write2" /\ w[3] = "write3" /\ w[4] = "write4"
  OBVIOUS
<1>. HIDE DEF w
<1>2. \A r \in Registers : r = 1 \/ r = 2 \/ r = 3 \/ r = 4
  BY DEF Registers
<1>3. 1 \in Registers /\ 2 \in Registers /\ 3 \in Registers /\ 4 \in Registers
  BY DEF Registers
<1>4. \A s : Index(s) = CHOOSE r \in Registers : s = w[r]
  BY DEF Index, w
<1>. QED BY <1>1, <1>2, <1>3, <1>4

LEMMA Nexts ==
  /\ After("write1") = "write2" /\ After("write2") = "write3"
  /\ After("write3") = "write4" /\ After("write4") = "route"
BY DEF After

LEMMA NoSampleFits == NoSample \in Results /\ NoSample.valleys = 0
BY DEF NoSample, Results, Pairs

\* A conversion in progress is told from none by its fields.
LEMMA SomeConversion ==
  ASSUME NEW x \in Conversions
  PROVE  /\ x # NoConv /\ x.result \in Results /\ x.ticks \in 0 .. before
         /\ [x EXCEPT !.result.sound = FALSE] \in Conversions
         /\ [x EXCEPT !.result.sound = FALSE] # NoConv
         /\ [x EXCEPT !.result.sound = FALSE].result.sound = FALSE
         /\ [x EXCEPT !.result.sound = FALSE].ticks = x.ticks
PROOF
<1>1. "ticks" \in DOMAIN x /\ "ticks" \notin DOMAIN NoConv
  BY DEF Conversions, NoConv
<1>2. DOMAIN [x EXCEPT !.result.sound = FALSE] = DOMAIN x
  BY DEF Conversions
<1>3. x # NoConv /\ [x EXCEPT !.result.sound = FALSE] # NoConv
  BY <1>1, <1>2
<1>. QED BY <1>3 DEF Conversions, Results

LEMMA CountRange ==
  ASSUME NEW n \in Nat, n > 0, NEW p \in 0 .. 2 * n - 1
  PROVE  (IF p <= n THEN p ELSE 2 * n - p) \in 0 .. n
OBVIOUS

\* The program points are a finite set, spelt out in every step below.
USE DEF Steps, Critical, Starting, Working, Writing, PastLook, Unmasking, Steady

\* The ways out of the critical section that take the outputs down.
LEMMA MissedKeeps ==
  ASSUME CommitInv, Missed, pc \in Critical
  PROVE  CommitInv'
PROOF
<1>0. Answered /\ Types /\ Places /\ Written /\ Driven /\ Discarded /\ Held /\ InTime /\ Converting
  BY DEF CommitInv
<1>1. Answered'
  BY <1>0, Numbers, NoSampleFits DEF Answered, Missed, Return, timer, adc, isr, inputs, planner
<1>2. Types'
  <2>1. spent' \in 0 .. Stall /\ seen' \in 0 .. arr
    BY <1>0, Numbers DEF Missed, Return
  <2>2. timely' \in BOOLEAN /\ moe' \in BOOLEAN /\ udis' \in BOOLEAN
    BY DEF Missed, Return
  <2>3. pc' \in Steps /\ sample' \in Results
    BY NoSampleFits DEF Missed, Return
  <2>. QED BY <1>0, <2>1, <2>2, <2>3 DEF Missed, Types, RegisterValues, Conversions, timer, adc, isr, inputs
<1>3. Places'
  BY <1>0, Numbers, NoSampleFits DEF Places, Missed, Return, timer, adc, isr, inputs, planner
<1>4. Written'
  BY <1>0, Numbers, NoSampleFits DEF Written, Registers, Missed, Return, timer, adc, isr, inputs, planner
<1>5. Driven'
  BY <1>0, Numbers, NoSampleFits DEF Driven, Down, Places, Types, Written, Held, Discarded, Missed,
     Return, timer, adc, isr, inputs, planner
<1>6. Discarded'
  BY <1>0, Numbers, NoSampleFits DEF Discarded, Usable, Caught, One, Places, Types, Driven,
     Conversions, Results, Missed, Return, timer, adc, isr, inputs, planner
<1>7. Held'
  BY <1>0, Numbers, NoSampleFits DEF Held, Usable, Caught, Down, Places, Types, Discarded, One,
     Driven, Missed, Return, timer, adc, isr, inputs, planner
<1>8. InTime'
  BY <1>0, Numbers, NoSampleFits DEF InTime, BeforePeak, Down, Types, Places, Missed, Return, timer,
     adc, isr, inputs, planner
<1>9. Converting'
  BY <1>0, Numbers, NoSampleFits DEF Converting, Missed, Return, timer, adc, isr, inputs, planner
<1>. QED BY <1>1, <1>2, <1>3, <1>4, <1>5, <1>6, <1>7, <1>8, <1>9 DEF CommitInv

LEMMA ConvertKeeps ==
  ASSUME CommitInv, Convert
  PROVE  CommitInv'
PROOF
<1>0. Answered /\ Types /\ Places /\ Written /\ Driven /\ Discarded /\ Held /\ InTime /\ Converting
  BY DEF CommitInv
<1>1. Answered'
  BY <1>0, Numbers DEF Answered, Convert, timer, adc, isr, inputs, planner
<1>2. Types'
  BY <1>0, Numbers DEF Types, RegisterValues, Conversions, Convert, timer, adc, isr, inputs, planner
<1>3. Places'
  BY <1>0, Numbers DEF Places, Convert, timer, adc, isr, inputs, planner
<1>4. Written'
  BY <1>0, Numbers DEF Written, Registers, Convert, timer, adc, isr, inputs, planner
<1>5. Driven'
  BY <1>0, Numbers DEF Driven, Down, Places, Types, Written, Held, Discarded, Convert, timer, adc,
     isr, inputs, planner
<1>6. Discarded'
  <2>. SUFFICES ASSUME moe, pc \in {"idle", "read"}, active = committed.last
                PROVE  ~Usable(jdr)' \/ ~Caught(jdr)' => One(pc = "read") + 1 <= discard
    BY <1>0 DEF Convert, Discarded, Usable, Caught, One, timer, isr
  <2>1. jdr' = conv.result /\ routed' = routed /\ phase' = phase /\ active' = active
    BY DEF Convert, timer
  <2>2. CASE ~Usable(conv.result)
    <3>1. One(pc = "read") + One(jeos) + 1 <= discard
      BY <1>0, <2>2 DEF Discarded, Convert
    <3>. QED BY <1>0, <3>1 DEF Types, One
  <2>3. CASE Usable(conv.result)
    <3>1. conv.result.valleys = 0 \/ phase = 0
      BY <1>0, <2>3 DEF Converting, Usable, Convert
    <3>2. 0 < active[4]
      BY <1>0 DEF Driven
    <3>3. Usable(jdr)' /\ Caught(jdr)'
      BY <2>1, <2>3, <3>1, <3>2 DEF Usable, Caught
    <3>. QED BY <3>3
  <2>. QED BY <2>2, <2>3
<1>7. Held'
  BY <1>0, Numbers DEF Held, Usable, Caught, Down, Places, Types, Discarded, One, Driven, Convert,
     timer, adc, isr, inputs, planner
<1>8. InTime'
  BY <1>0, Numbers DEF InTime, BeforePeak, Down, Types, Places, Convert, timer, adc, isr, inputs, planner
<1>9. Converting'
  BY <1>0, Numbers DEF Converting, Convert, timer, adc, isr, inputs, planner
<1>. QED BY <1>1, <1>2, <1>3, <1>4, <1>5, <1>6, <1>7, <1>8, <1>9 DEF CommitInv

LEMMA EnterKeeps ==
  ASSUME CommitInv, Enter
  PROVE  CommitInv'
PROOF
<1>0. Answered /\ Types /\ Places /\ Written /\ Driven /\ Discarded /\ Held /\ InTime /\ Converting
  BY DEF CommitInv
<1>1. Answered'
  BY <1>0, Numbers DEF Answered, Enter, timer, adc, isr, inputs, planner
<1>2. Types'
  BY <1>0, Numbers DEF Types, RegisterValues, Conversions, Enter, timer, adc, isr, inputs, planner
<1>3. Places'
  BY <1>0, Numbers DEF Places, Enter, timer, adc, isr, inputs, planner
<1>4. Written'
  BY <1>0, Numbers DEF Written, Registers, Enter, timer, adc, isr, inputs, planner
<1>5. Driven'
  BY <1>0, Numbers DEF Driven, Down, Places, Types, Written, Held, Discarded, Enter, timer, adc,
     isr, inputs, planner
<1>6. Discarded'
  BY <1>0, Numbers DEF Discarded, Usable, Caught, One, Places, Types, Driven, Conversions, Results,
     Enter, timer, adc, isr, inputs, planner
<1>7. Held'
  BY <1>0, Numbers DEF Held, Usable, Caught, Down, Places, Types, Discarded, One, Driven, Enter,
     timer, adc, isr, inputs, planner
<1>8. InTime'
  BY <1>0, Numbers DEF InTime, BeforePeak, Down, Types, Places, Enter, timer, adc, isr, inputs, planner
<1>9. Converting'
  BY <1>0, Numbers DEF Converting, Enter, timer, adc, isr, inputs, planner
<1>. QED BY <1>1, <1>2, <1>3, <1>4, <1>5, <1>6, <1>7, <1>8, <1>9 DEF CommitInv

LEMMA ReadKeeps ==
  ASSUME CommitInv, Read
  PROVE  CommitInv'
PROOF
<1>0. Answered /\ Types /\ Places /\ Written /\ Driven /\ Discarded /\ Held /\ InTime /\ Converting
  BY DEF CommitInv
<1>1. Answered'
  BY <1>0, Numbers DEF Answered, Read, timer, adc, isr, inputs, planner
<1>2. Types'
  BY <1>0, Numbers DEF Types, RegisterValues, Conversions, Read, timer, adc, isr, inputs, planner
<1>3. Places'
  BY <1>0, Numbers DEF Places, Read, timer, adc, isr, inputs, planner
<1>4. Written'
  BY <1>0, Numbers DEF Written, Registers, Read, timer, adc, isr, inputs, planner
<1>5. Driven'
  BY <1>0, Numbers DEF Driven, Down, Places, Types, Written, Held, Discarded, Read, timer, adc, isr,
     inputs, planner
<1>6. Discarded'
  BY <1>0, Numbers DEF Discarded, Usable, Caught, One, Places, Types, Driven, Conversions, Results,
     Read, timer, adc, isr, inputs, planner
<1>7. Held'
  BY <1>0, Numbers DEF Held, Usable, Caught, Down, Places, Types, Discarded, One, Driven, Read,
     timer, adc, isr, inputs, planner
<1>8. InTime'
  BY <1>0, Numbers DEF InTime, BeforePeak, Down, Types, Places, Read, timer, adc, isr, inputs, planner
<1>9. Converting'
  BY <1>0, Numbers DEF Converting, Read, timer, adc, isr, inputs, planner
<1>. QED BY <1>1, <1>2, <1>3, <1>4, <1>5, <1>6, <1>7, <1>8, <1>9 DEF CommitInv

LEMMA ComputeKeeps ==
  ASSUME CommitInv, Compute
  PROVE  CommitInv'
PROOF
<1>0. Answered /\ Types /\ Places /\ Written /\ Driven /\ Discarded /\ Held /\ InTime /\ Converting
  BY DEF CommitInv
<1>1. Answered'
  BY <1>0, Numbers, NoSampleFits DEF Answered, Compute, PlanFor, Return, timer, adc, isr, inputs, planner
<1>2. Types'
  <2>1. CASE plan' = NoPlan
    <3>1. spent' \in 0 .. Stall /\ seen' \in 0 .. arr
      BY <1>0, <2>1, Numbers DEF Compute, Return
    <3>2. timely' \in BOOLEAN /\ moe' \in BOOLEAN /\ pc' \in Steps /\ sample' \in Results
      BY <2>1, NoSampleFits DEF Compute, Return
    <3>. QED BY <1>0, <3>1, <3>2 DEF Compute, Types, RegisterValues, Conversions, adc, inputs
  <2>2. CASE plan' # NoPlan
    <3>1. pc' \in Steps
      BY <2>2 DEF Compute
    <3>. QED BY <1>0, <2>2, <3>1 DEF Compute, Types, RegisterValues, Conversions, adc, inputs
  <2>. QED BY <2>1, <2>2
<1>3. Places'
  <2>1. CASE plan' = NoPlan
    BY <1>0, <2>1 DEF Places, Compute, Return, adc
  <2>2. CASE plan' # NoPlan
    BY <1>0, <2>2 DEF Places, Compute, adc
  <2>. QED BY <2>1, <2>2
<1>4. Written'
  BY <1>0, Numbers, NoSampleFits DEF Written, Registers, Compute, PlanFor, Return, timer, adc, isr,
     inputs, planner
<1>5. Driven'
  BY <1>0, Numbers, NoSampleFits DEF Driven, Down, Places, Types, Written, Held, Discarded, Compute,
     PlanFor, Return, timer, adc, isr, inputs, planner
<1>6. Discarded'
  BY <1>0, Numbers, NoSampleFits DEF Discarded, Usable, Caught, One, Places, Types, Driven,
     Conversions, Results, Compute, PlanFor, Return, timer, adc, isr, inputs, planner
<1>7. Held'
  BY <1>0, Numbers, NoSampleFits DEF Held, Usable, Caught, Down, Places, Types, Discarded, One,
     Driven, Compute, PlanFor, Return, timer, adc, isr, inputs, planner
<1>8. InTime'
  BY <1>0, Numbers, NoSampleFits DEF InTime, BeforePeak, Down, Types, Places, Compute, PlanFor,
     Return, timer, adc, isr, inputs, planner
<1>9. Converting'
  BY <1>0, Numbers, NoSampleFits DEF Converting, Compute, PlanFor, Return, timer, adc, isr, inputs, planner
<1>. QED BY <1>1, <1>2, <1>3, <1>4, <1>5, <1>6, <1>7, <1>8, <1>9 DEF CommitInv

LEMMA LoseKeeps ==
  ASSUME CommitInv, Lose
  PROVE  CommitInv'
PROOF
<1>0. Answered /\ Types /\ Places /\ Written /\ Driven /\ Discarded /\ Held /\ InTime /\ Converting
  BY DEF CommitInv
<1>1. Answered'
  BY <1>0, Numbers, NoSampleFits DEF Answered, Lose, Return, timer, adc, isr, inputs, planner
<1>2. Types'
  <2>1. spent' \in 0 .. Stall /\ seen' \in 0 .. arr
    BY <1>0, Numbers DEF Lose, Return, Types
  <2>2. timely' \in BOOLEAN /\ moe' \in BOOLEAN /\ udis' \in BOOLEAN
    BY <1>0 DEF Lose, Return, Types
  <2>3. pc' \in Steps /\ sample' \in Results
    BY <1>0, NoSampleFits DEF Lose, Return, Types
  <2>. QED BY <1>0, <2>1, <2>2, <2>3 DEF Lose, Types, RegisterValues, Conversions, timer, adc, isr, inputs
<1>3. Places'
  BY <1>0, Numbers, NoSampleFits DEF Places, Lose, Return, timer, adc, isr, inputs, planner
<1>4. Written'
  BY <1>0, Numbers, NoSampleFits DEF Written, Registers, Lose, Return, timer, adc, isr, inputs, planner
<1>5. Driven'
  BY <1>0, Numbers, NoSampleFits DEF Driven, Down, Places, Types, Written, Held, Discarded, Lose,
     Return, timer, adc, isr, inputs, planner
<1>6. Discarded'
  BY <1>0, Numbers, NoSampleFits DEF Discarded, Usable, Caught, One, Places, Types, Driven,
     Conversions, Results, Lose, Return, timer, adc, isr, inputs, planner
<1>7. Held'
  BY <1>0, Numbers, NoSampleFits DEF Held, Usable, Caught, Down, Places, Types, Discarded, One,
     Driven, Lose, Return, timer, adc, isr, inputs, planner
<1>8. InTime'
  BY <1>0, Numbers, NoSampleFits DEF InTime, BeforePeak, Down, Types, Places, Lose, Return, timer,
     adc, isr, inputs, planner
<1>9. Converting'
  BY <1>0, Numbers, NoSampleFits DEF Converting, Lose, Return, timer, adc, isr, inputs, planner
<1>. QED BY <1>1, <1>2, <1>3, <1>4, <1>5, <1>6, <1>7, <1>8, <1>9 DEF CommitInv

LEMMA GuardKeeps ==
  ASSUME CommitInv, Guard
  PROVE  CommitInv'
PROOF
<1>0. Answered /\ Types /\ Places /\ Written /\ Driven /\ Discarded /\ Held /\ InTime /\ Converting
  BY DEF CommitInv
<1>1. Answered'
  BY <1>0, Numbers DEF Answered, Guard, timer, adc, isr, inputs, planner
<1>2. Types'
  <2>1. seen' \in 0 .. arr
    BY <1>0, Numbers, CountRange DEF Types, Guard, Cnt
  <2>2. udis' \in BOOLEAN /\ pc' \in Steps
    BY DEF Guard
  <2>. QED BY <1>0, <2>1, <2>2 DEF Types, RegisterValues, Conversions, Guard, adc, inputs
<1>3. Places'
  BY <1>0, Numbers DEF Places, Guard, timer, adc, isr, inputs, planner
<1>4. Written'
  BY <1>0, Numbers DEF Written, Registers, Guard, timer, adc, isr, inputs, planner
<1>5. Driven'
  BY <1>0, Numbers DEF Driven, Down, Places, Types, Written, Held, Discarded, Guard, timer, adc,
     isr, inputs, planner
<1>6. Discarded'
  BY <1>0, Numbers DEF Discarded, Usable, Caught, One, Places, Types, Driven, Conversions, Results,
     Guard, timer, adc, isr, inputs, planner
<1>7. Held'
  BY <1>0, Numbers DEF Held, Usable, Caught, Down, Places, Types, Discarded, One, Driven, Guard,
     timer, adc, isr, inputs, planner
<1>8. InTime'
  BY <1>0, Numbers DEF InTime, BeforePeak, Down, Types, Places, Guard, timer, adc, isr, inputs, planner
<1>9. Converting'
  BY <1>0, Numbers DEF Converting, Guard, timer, adc, isr, inputs, planner
<1>. QED BY <1>1, <1>2, <1>3, <1>4, <1>5, <1>6, <1>7, <1>8, <1>9 DEF CommitInv

LEMMA LookKeeps ==
  ASSUME CommitInv, Look, ~Missed
  PROVE  CommitInv'
PROOF
<1>0. Answered /\ Types /\ Places /\ Written /\ Driven /\ Discarded /\ Held /\ InTime /\ Converting
  BY DEF CommitInv
<1>1. Answered'
  BY <1>0, Numbers DEF Answered, Look, timer, adc, isr, inputs, planner
<1>2. Types'
  BY <1>0, Numbers DEF Types, RegisterValues, Conversions, Look, timer, adc, isr, inputs, planner
<1>3. Places'
  BY <1>0, Numbers DEF Places, Look, timer, adc, isr, inputs, planner
<1>4. Written'
  BY <1>0, Numbers DEF Written, Registers, Look, timer, adc, isr, inputs, planner
<1>5. Driven'
  BY <1>0, Numbers DEF Driven, Down, Places, Types, Written, Held, Discarded, Look, timer, adc, isr,
     inputs, planner
<1>6. Discarded'
  BY <1>0, Numbers DEF Discarded, Usable, Caught, One, Places, Types, Driven, Conversions, Results,
     Look, timer, adc, isr, inputs, planner
<1>7. Held'
  BY <1>0, Numbers DEF Held, Usable, Caught, Down, Places, Types, Discarded, One, Driven, Look,
     timer, adc, isr, inputs, planner
<1>8. InTime'
  BY <1>0, Numbers DEF InTime, BeforePeak, Down, Types, Places, Look, timer, adc, isr, inputs, planner
<1>9. Converting'
  BY <1>0, Numbers DEF Converting, Look, timer, adc, isr, inputs, planner
<1>. QED BY <1>1, <1>2, <1>3, <1>4, <1>5, <1>6, <1>7, <1>8, <1>9 DEF CommitInv

LEMMA LookPendingKeeps ==
  ASSUME CommitInv, LookPending, ~Missed
  PROVE  CommitInv'
PROOF
<1>0. Answered /\ Types /\ Places /\ Written /\ Driven /\ Discarded /\ Held /\ InTime /\ Converting
  BY DEF CommitInv
<1>1. Answered'
  BY <1>0, Numbers DEF Answered, LookPending, timer, adc, isr, inputs, planner
<1>2. Types'
  BY <1>0, Numbers DEF Types, RegisterValues, Conversions, LookPending, timer, adc, isr, inputs, planner
<1>3. Places'
  BY <1>0, Numbers DEF Places, LookPending, timer, adc, isr, inputs, planner
<1>4. Written'
  <2>1. pc' = "write1" /\ \A r \in Registers : ~(r < Index(pc'))
    BY Indices DEF LookPending, Registers
  <2>. QED BY <2>1 DEF Written
<1>5. Driven'
  BY <1>0, Numbers DEF Driven, Down, Places, Types, Written, Held, Discarded, LookPending, timer,
     adc, isr, inputs, planner
<1>6. Discarded'
  BY <1>0, Numbers DEF Discarded, Usable, Caught, One, Places, Types, Driven, Conversions, Results,
     LookPending, timer, adc, isr, inputs, planner
<1>7. Held'
  BY <1>0, Numbers DEF Held, Usable, Caught, Down, Places, Types, Discarded, One, Driven,
     LookPending, timer, adc, isr, inputs, planner
<1>8. InTime'
  BY <1>0, Numbers DEF InTime, BeforePeak, Down, Types, Places, LookPending, timer, adc, isr,
     inputs, planner
<1>9. Converting'
  BY <1>0, Numbers DEF Converting, LookPending, timer, adc, isr, inputs, planner
<1>. QED BY <1>1, <1>2, <1>3, <1>4, <1>5, <1>6, <1>7, <1>8, <1>9 DEF CommitInv

LEMMA WriteKeeps ==
  ASSUME CommitInv, Write
  PROVE  CommitInv'
PROOF
<1>0. Answered /\ Types /\ Places /\ Written /\ Driven /\ Discarded /\ Held /\ InTime /\ Converting
  BY DEF CommitInv
<1>p. /\ pc \in Writing /\ pc' \in Writing \cup {"route"}
      /\ UNCHANGED <<phase, udis, active, moe, routed, conv, jdr, jeos, sample, lastPair, discard, seen,
                     timely, spent, committed, arr, after, before, ccr, plan, planned>>
  BY Nexts DEF Write, adc, inputs, planner
<1>1. Answered'
  BY <1>0, Numbers DEF Answered, Write, timer, adc, isr, inputs, planner
<1>2. Types'
  <2>1. Index(pc) \in Registers /\ pc' \in Steps
    BY Indices, Nexts DEF Write, Registers
  <2>2. Regs(plan)[Index(pc)] \in 0 .. arr + 1
    BY <1>0, <2>1, PlanFits DEF RegisterValues
  <2>. QED BY <1>0, <2>1, <2>2 DEF Write, Types, RegisterValues, Conversions, adc, inputs
<1>3. Places'
  BY <1>0, <1>p DEF Places
<1>4. Written'
  <2>1. Index(pc) \in Registers /\ preload \in [Registers -> 0 .. arr + 1]
    BY <1>p, <1>0, Indices DEF Registers, Types, RegisterValues
  <2>2. \A r \in Registers : r <= Index(pc) => preload'[r] = Regs(plan)[r]
    BY <1>0, <1>p, <2>1 DEF Written, Write, Registers
  <2>3. pc' = "route" => pc = "write4"
    BY <1>p, Nexts DEF Write
  <2>4. pc' = "route" => preload' = Regs(plan)
    <3>. SUFFICES ASSUME pc' = "route"
                  PROVE  preload' = Regs(plan)
      OBVIOUS
    <3>1. \A r \in Registers : preload'[r] = Regs(plan)[r]
      BY <2>2, <2>3, Indices DEF Registers
    <3>2. preload' = [preload EXCEPT ![Index(pc)] = Regs(plan)[Index(pc)]]
      BY DEF Write
    <3>. QED BY <2>1, <3>1, <3>2 DEF Regs
  <2>5. pc' \in Writing => Index(pc') = Index(pc) + 1
    BY <1>p, Indices, Nexts DEF Write
  <2>6. \A r \in Registers : pc' \in Writing /\ r < Index(pc') => r <= Index(pc)
    BY <2>1, <2>5 DEF Registers
  <2>. QED BY <1>p, <2>2, <2>4, <2>6 DEF Written
<1>5. Driven'
  BY <1>0, <1>p DEF Driven, Down
<1>6. Discarded'
  BY <1>0, <1>p DEF Discarded, Usable, Caught, One
<1>7. Held'
  BY <1>0, <1>p DEF Held, Usable, Caught, Down
<1>8. InTime'
  BY <1>0, <1>p DEF InTime, BeforePeak, Down
<1>9. Converting'
  BY <1>0, Numbers DEF Converting, Write, timer, adc, isr, inputs, planner
<1>. QED BY <1>1, <1>2, <1>3, <1>4, <1>5, <1>6, <1>7, <1>8, <1>9 DEF CommitInv

LEMMA RouteKeeps ==
  ASSUME CommitInv, Route
  PROVE  CommitInv'
PROOF
<1>0. Answered /\ Types /\ Places /\ Written /\ Driven /\ Discarded /\ Held /\ InTime /\ Converting
  BY DEF CommitInv
<1>1. Answered'
  BY <1>0, Numbers DEF Answered, Route, SchedulePair, Rerouted, timer, adc, isr, inputs, planner
<1>2. Types'
  <2>1. pc' \in Steps /\ routed' \in Pairs
    BY <1>0, PlanFits DEF Route, SchedulePair
  <2>2. conv' # NoConv => conv' \in Conversions
    BY <1>0, SomeConversion DEF Types, Route, SchedulePair, Rerouted
  <2>. QED BY <1>0, <2>1, <2>2 DEF Types, RegisterValues, Conversions, Route, timer, inputs
<1>3. Places'
  BY <1>0, Numbers DEF Places, Route, SchedulePair, Rerouted, timer, adc, isr, inputs, planner
<1>4. Written'
  BY <1>0, Numbers DEF Written, Registers, Route, SchedulePair, Rerouted, timer, adc, isr, inputs, planner
<1>5. Driven'
  BY <1>0, Numbers DEF Driven, Down, Places, Types, Written, Held, Discarded, Route, SchedulePair,
     Rerouted, timer, adc, isr, inputs, planner
<1>6. Discarded'
  BY <1>0, Numbers DEF Discarded, Usable, Caught, One, Places, Types, Driven, Conversions, Results,
     Route, SchedulePair, Rerouted, timer, adc, isr, inputs, planner
<1>7. Held'
  <2>1. (conv' # NoConv) <=> (conv # NoConv)
    BY <1>0, SomeConversion DEF Types, Route, SchedulePair, Rerouted
  <2>2. jeos \/ Caught(sample)
    BY <1>0 DEF Held, Route
  <2>. QED BY <2>1, <2>2 DEF Held, Caught, Route, timer
<1>8. InTime'
  BY <1>0, Numbers DEF InTime, BeforePeak, Down, Types, Places, Route, SchedulePair, Rerouted,
     timer, adc, isr, inputs, planner
<1>9. Converting'
  BY <1>0, Numbers DEF Converting, Route, SchedulePair, Rerouted, timer, adc, isr, inputs, planner
<1>. QED BY <1>1, <1>2, <1>3, <1>4, <1>5, <1>6, <1>7, <1>8, <1>9 DEF CommitInv

LEMMA RestoreKeeps ==
  ASSUME CommitInv, Restore
  PROVE  CommitInv'
PROOF
<1>0. Answered /\ Types /\ Places /\ Written /\ Driven /\ Discarded /\ Held /\ InTime /\ Converting
  BY DEF CommitInv
<1>1. Answered'
  BY <1>0, Numbers DEF Answered, Restore, timer, adc, isr, inputs, planner
<1>2. Types'
  <2>1. NotTurned \in BOOLEAN
    BY DEF NotTurned
  <2>2. timely' \in BOOLEAN
    BY <2>1, Zenon DEF Restore
  <2>3. udis' \in BOOLEAN /\ pc' \in Steps
    BY DEF Restore
  <2>. QED BY <1>0, <2>2, <2>3 DEF Restore, Types, RegisterValues, Conversions, adc, inputs
<1>3. Places'
  BY <1>0, Numbers DEF Places, Restore, timer, adc, isr, inputs, planner
<1>4. Written'
  BY <1>0, Numbers DEF Written, Registers, Restore, timer, adc, isr, inputs, planner
<1>5. Driven'
  BY <1>0, Numbers DEF Driven, Down, Places, Types, Written, Held, Discarded, Restore, timer, adc,
     isr, inputs, planner
<1>6. Discarded'
  BY <1>0, Numbers DEF Discarded, Usable, Caught, One, Places, Types, Driven, Conversions, Results,
     Restore, timer, adc, isr, inputs, planner
<1>7. Held'
  BY <1>0, Numbers DEF Held, Usable, Caught, Down, Places, Types, Discarded, One, Driven, Restore,
     timer, adc, isr, inputs, planner
<1>8. InTime'
  <2>1. BeforePeak /\ (~Down => phase < spent)
    BY <1>0 DEF InTime, Restore
  <2>2. NotTurned /\ Down => 2 * arr - phase <= seen
    BY <1>0, Numbers DEF NotTurned, Cnt, Down, Types
  <2>3. timely' => NotTurned
    BY DEF Restore
  <2>. QED BY <2>1, <2>2, <2>3 DEF InTime, Restore, BeforePeak, Down, inputs
<1>9. Converting'
  BY <1>0, Numbers DEF Converting, Restore, timer, adc, isr, inputs, planner
<1>. QED BY <1>1, <1>2, <1>3, <1>4, <1>5, <1>6, <1>7, <1>8, <1>9 DEF CommitInv

LEMMA RecheckKeeps ==
  ASSUME CommitInv, Recheck, ~Missed
  PROVE  CommitInv'
PROOF
<1>0. Answered /\ Types /\ Places /\ Written /\ Driven /\ Discarded /\ Held /\ InTime /\ Converting
  BY DEF CommitInv
<1>1. Answered'
  BY <1>0, Numbers DEF Answered, Recheck, timer, adc, isr, inputs, planner
<1>2. Types'
  BY <1>0, Numbers DEF Types, RegisterValues, Conversions, Recheck, timer, adc, isr, inputs, planner
<1>3. Places'
  BY <1>0, Numbers DEF Places, Recheck, timer, adc, isr, inputs, planner
<1>4. Written'
  BY <1>0, Numbers DEF Written, Registers, Recheck, timer, adc, isr, inputs, planner
<1>5. Driven'
  BY <1>0, Numbers DEF Driven, Down, Places, Types, Written, Held, Discarded, Recheck, timer, adc,
     isr, inputs, planner
<1>6. Discarded'
  BY <1>0, Numbers DEF Discarded, Usable, Caught, One, Places, Types, Driven, Conversions, Results,
     Recheck, timer, adc, isr, inputs, planner
<1>7. Held'
  <2>1. Down /\ timely /\ pc' = "repending"
    BY DEF Recheck
  <2>2. phase >= arr + before
    BY <1>0, <2>1, Numbers DEF InTime, BeforePeak, Types, Down, Recheck
  <2>3. conv = NoConv
    <3>. SUFFICES ASSUME conv \in Conversions, conv # NoConv
                  PROVE  FALSE
      BY <1>0 DEF Types
    <3>1. conv.ticks \in 0 .. before
      BY SomeConversion
    <3>. QED BY <1>0, <2>2, <3>1, Numbers DEF Converting, Types
  <2>4. active[4] < arr
    <3>1. Regs(plan)[4] < arr
      BY <1>0, PlanFits, GoodTrigger DEF Places, Recheck
    <3>. QED BY <1>0, <3>1 DEF Driven, Places, Recheck
  <2>5. jeos \/ sample.valleys = 0
    <3>1. jeos \/ Caught(sample)
      BY <1>0 DEF Held, Recheck
    <3>2. ~(phase < active[4])
      BY <1>0, <2>2, <2>4, Numbers DEF Types, RegisterValues, Registers
    <3>. QED BY <2>3, <3>1, <3>2 DEF Caught
  <2>. QED BY <2>1, <2>3, <2>5 DEF Held, Recheck, Down, timer, adc, inputs
<1>8. InTime'
  BY <1>0, Numbers DEF InTime, BeforePeak, Down, Types, Places, Recheck, timer, adc, isr, inputs, planner
<1>9. Converting'
  BY <1>0, Numbers DEF Converting, Recheck, timer, adc, isr, inputs, planner
<1>. QED BY <1>1, <1>2, <1>3, <1>4, <1>5, <1>6, <1>7, <1>8, <1>9 DEF CommitInv

LEMMA FinishKeeps ==
  ASSUME CommitInv, Finish, ~Missed
  PROVE  CommitInv'
PROOF
<1>0. Answered /\ Types /\ Places /\ Written /\ Driven /\ Discarded /\ Held /\ InTime /\ Converting
  BY DEF CommitInv
<1>1. Answered'
  BY <1>0, Numbers, NoSampleFits DEF Answered, Finish, Return, timer, adc, isr, inputs, planner
<1>2. Types'
  <2>1. spent' \in 0 .. Stall /\ seen' \in 0 .. arr
    BY <1>0, Numbers DEF Finish, Return
  <2>2. timely' \in BOOLEAN /\ pc' \in Steps /\ sample' \in Results
    BY NoSampleFits DEF Finish, Return
  <2>3. committed' \in [last : RegisterValues, previous : RegisterValues]
    BY <1>0, PlanFits DEF Finish, Types
  <2>. QED BY <1>0, <2>1, <2>2, <2>3 DEF Finish, Types, RegisterValues, Conversions, timer, adc, inputs
<1>3. Places'
  BY <1>0, Numbers, NoSampleFits DEF Places, Finish, Return, timer, adc, isr, inputs, planner
<1>4. Written'
  BY <1>0, Numbers, NoSampleFits DEF Written, Registers, Finish, Return, timer, adc, isr, inputs, planner
<1>5. Driven'
  <2>1. /\ Good(arr, after, before, Regs(plan), routed)
        /\ preload = Regs(plan) /\ active \in {committed.last, Regs(plan)}
        /\ ~Down => active = Regs(plan)
    BY <1>0, PlanFits DEF Places, Written, Driven, Finish
  <2>2. 0 < Regs(plan)[4] /\ Regs(plan)[4] < arr
    BY <2>1, GoodTrigger
  <2>3. committed' = [last |-> Regs(plan), previous |-> committed.last] /\ ~jeos /\ pc' = "idle"
    BY DEF Finish, Pending, Return
  <2>4. Down => conv = NoConv
    BY <1>0 DEF Held, Finish
  <2>. QED BY <2>1, <2>2, <2>3, <2>4 DEF Driven, Finish, Return, Down, timer, adc, inputs
<1>6. Discarded'
  <2>1. discard' = 0 /\ pc' = "idle" /\ ~jeos /\ jeos' = jeos /\ conv' = conv /\ routed' = routed
    BY <1>0 DEF Finish, Return, Pending, Places, adc
  <2>2. committed'.last = Regs(plan) /\ active' = active /\ phase' = phase /\ arr' = arr
    BY DEF Finish, timer, inputs
  <2>3. conv # NoConv => Usable(conv.result)
    BY <1>0 DEF Held, Finish
  <2>. QED BY <2>1, <2>2, <2>3 DEF Discarded, One, Usable
<1>7. Held'
  BY <1>0, Numbers, NoSampleFits DEF Held, Usable, Caught, Down, Places, Types, Discarded, One,
     Driven, Finish, Return, timer, adc, isr, inputs, planner
<1>8. InTime'
  BY <1>0, Numbers, NoSampleFits DEF InTime, BeforePeak, Down, Types, Places, Finish, Return, timer,
     adc, isr, inputs, planner
<1>9. Converting'
  BY <1>0, Numbers, NoSampleFits DEF Converting, Finish, Return, timer, adc, isr, inputs, planner
<1>. QED BY <1>1, <1>2, <1>3, <1>4, <1>5, <1>6, <1>7, <1>8, <1>9 DEF CommitInv

LEMMA StartKeeps ==
  ASSUME CommitInv, Start
  PROVE  CommitInv'
PROOF
<1>0. Answered /\ Types /\ Places /\ Written /\ Driven /\ Discarded /\ Held /\ InTime /\ Converting
  BY DEF CommitInv
<1>1. Answered'
  BY <1>0, Numbers DEF Answered, Start, PlanFor, timer, adc, isr, inputs, planner
<1>2. Types'
  <2>1. discard' \in 0 .. 2 /\ pc' \in Steps
    BY DEF Start, StartupSamples
  <2>. QED BY <1>0, <2>1 DEF Types, RegisterValues, Conversions, Start, timer, adc, inputs
<1>3. Places'
  BY <1>0, Numbers DEF Places, Start, PlanFor, timer, adc, isr, inputs, planner
<1>4. Written'
  BY <1>0, Numbers DEF Written, Registers, Start, PlanFor, timer, adc, isr, inputs, planner
<1>5. Driven'
  BY <1>0, Numbers DEF Driven, Down, Places, Types, Written, Held, Discarded, Start, PlanFor, timer,
     adc, isr, inputs, planner
<1>6. Discarded'
  BY <1>0, Numbers DEF Discarded, Usable, Caught, One, Places, Types, Driven, Conversions, Results,
     Start, PlanFor, timer, adc, isr, inputs, planner
<1>7. Held'
  BY <1>0, Numbers DEF Held, Usable, Caught, Down, Places, Types, Discarded, One, Driven, Start,
     PlanFor, timer, adc, isr, inputs, planner
<1>8. InTime'
  BY <1>0, Numbers DEF InTime, BeforePeak, Down, Types, Places, Start, PlanFor, timer, adc, isr,
     inputs, planner
<1>9. Converting'
  BY <1>0, Numbers DEF Converting, Start, PlanFor, timer, adc, isr, inputs, planner
<1>. QED BY <1>1, <1>2, <1>3, <1>4, <1>5, <1>6, <1>7, <1>8, <1>9 DEF CommitInv

LEMMA WritePlanKeeps ==
  ASSUME CommitInv, WritePlan
  PROVE  CommitInv'
PROOF
<1>0. Answered /\ Types /\ Places /\ Written /\ Driven /\ Discarded /\ Held /\ InTime /\ Converting
  BY DEF CommitInv
<1>1. Answered'
  BY <1>0, Numbers DEF Answered, WritePlan, SchedulePair, Rerouted, timer, adc, isr, inputs, planner
<1>2. Types'
  <2>1. preload' \in RegisterValues /\ routed' \in Pairs
    BY <1>0, PlanFits DEF WritePlan, SchedulePair
  <2>2. conv' # NoConv => conv' \in Conversions
    BY <1>0, SomeConversion DEF Types, WritePlan, SchedulePair, Rerouted
  <2>. QED BY <1>0, <2>1, <2>2 DEF Types, RegisterValues, Conversions, WritePlan, timer, inputs
<1>3. Places'
  BY <1>0, Numbers DEF Places, WritePlan, SchedulePair, Rerouted, timer, adc, isr, inputs, planner
<1>4. Written'
  BY <1>0, Numbers DEF Written, Registers, WritePlan, SchedulePair, Rerouted, timer, adc, isr,
     inputs, planner
<1>5. Driven'
  BY <1>0, Numbers DEF Driven, Down, Places, Types, Written, Held, Discarded, WritePlan,
     SchedulePair, Rerouted, timer, adc, isr, inputs, planner
<1>6. Discarded'
  BY <1>0, Numbers DEF Discarded, Usable, Caught, One, Places, Types, Driven, Conversions, Results,
     WritePlan, SchedulePair, Rerouted, timer, adc, isr, inputs, planner
<1>7. Held'
  BY <1>0, Numbers DEF Held, Usable, Caught, Down, Places, Types, Discarded, One, Driven, WritePlan,
     SchedulePair, Rerouted, timer, adc, isr, inputs, planner
<1>8. InTime'
  BY <1>0, Numbers DEF InTime, BeforePeak, Down, Types, Places, WritePlan, SchedulePair, Rerouted,
     timer, adc, isr, inputs, planner
<1>9. Converting'
  BY <1>0, Numbers DEF Converting, WritePlan, SchedulePair, Rerouted, timer, adc, isr, inputs, planner
<1>. QED BY <1>1, <1>2, <1>3, <1>4, <1>5, <1>6, <1>7, <1>8, <1>9 DEF CommitInv

LEMMA TransferKeeps ==
  ASSUME CommitInv, Transfer
  PROVE  CommitInv'
PROOF
<1>0. Answered /\ Types /\ Places /\ Written /\ Driven /\ Discarded /\ Held /\ InTime /\ Converting
  BY DEF CommitInv
<1>1. Answered'
  BY <1>0, Numbers DEF Answered, Transfer, timer, adc, isr, inputs, planner
<1>2. Types'
  BY <1>0, Numbers DEF Types, RegisterValues, Conversions, Transfer, timer, adc, isr, inputs, planner
<1>3. Places'
  BY <1>0, Numbers DEF Places, Transfer, timer, adc, isr, inputs, planner
<1>4. Written'
  BY <1>0, Numbers DEF Written, Registers, Transfer, timer, adc, isr, inputs, planner
<1>5. Driven'
  BY <1>0, Numbers DEF Driven, Down, Places, Types, Written, Held, Discarded, Transfer, timer, adc,
     isr, inputs, planner
<1>6. Discarded'
  BY <1>0, Numbers DEF Discarded, Usable, Caught, One, Places, Types, Driven, Conversions, Results,
     Transfer, timer, adc, isr, inputs, planner
<1>7. Held'
  BY <1>0, Numbers DEF Held, Usable, Caught, Down, Places, Types, Discarded, One, Driven, Transfer,
     timer, adc, isr, inputs, planner
<1>8. InTime'
  BY <1>0, Numbers DEF InTime, BeforePeak, Down, Types, Places, Transfer, timer, adc, isr, inputs, planner
<1>9. Converting'
  <2>. SUFFICES ASSUME conv # NoConv
                PROVE  /\ 0 - arr + 1 <= conv.ticks
                       /\ conv.result.sound =>
                            /\ before < 2 * arr /\ 0 <= conv.ticks + 2 * arr - before
                            /\ conv.result.valleys = 0 \/ conv.ticks = before
    BY DEF Converting, Transfer, adc, inputs
  <2>1. conv \in Conversions
    BY <1>0 DEF Types
  <2>2. conv.ticks \in 0 .. before
    BY <2>1, SomeConversion
  <2>. QED BY <1>0, <2>2, Numbers DEF Converting
<1>. QED BY <1>1, <1>2, <1>3, <1>4, <1>5, <1>6, <1>7, <1>8, <1>9 DEF CommitInv

LEMMA EnableKeeps ==
  ASSUME CommitInv, Enable
  PROVE  CommitInv'
PROOF
<1>0. Answered /\ Types /\ Places /\ Written /\ Driven /\ Discarded /\ Held /\ InTime /\ Converting
  BY DEF CommitInv
<1>1. Answered'
  BY <1>0, Numbers DEF Answered, Enable, timer, adc, isr, inputs, planner
<1>2. Types'
  BY <1>0, Numbers DEF Types, RegisterValues, Conversions, Enable, timer, adc, isr, inputs, planner
<1>3. Places'
  BY <1>0, Numbers DEF Places, Enable, timer, adc, isr, inputs, planner
<1>4. Written'
  BY <1>0, Numbers DEF Written, Registers, Enable, timer, adc, isr, inputs, planner
<1>5. Driven'
  <2>1. active' = Regs(plan) /\ preload' = Regs(plan) /\ committed' = [last |-> Regs(plan), previous |-> Regs(plan)]
    BY <1>0 DEF Written, Enable
  <2>2. Good(arr, after, before, Regs(plan), routed)
    BY <1>0, PlanFits DEF Places, Written, Enable
  <2>3. 0 < Regs(plan)[4] /\ Regs(plan)[4] < arr
    BY <2>2, GoodTrigger
  <2>. QED BY <2>1, <2>2, <2>3 DEF Driven, Enable, Down, adc, inputs
<1>6. Discarded'
  <2>1. pc' = "idle" /\ discard' = 2 /\ jeos' = jeos
    BY <1>0 DEF Enable, Places, adc, StartupSamples
  <2>. QED BY <2>1 DEF Discarded, One
<1>7. Held'
  BY <1>0, Numbers DEF Held, Usable, Caught, Down, Places, Types, Discarded, One, Driven, Enable,
     timer, adc, isr, inputs, planner
<1>8. InTime'
  BY <1>0, Numbers DEF InTime, BeforePeak, Down, Types, Places, Enable, timer, adc, isr, inputs, planner
<1>9. Converting'
  BY <1>0, Numbers DEF Converting, Enable, timer, adc, isr, inputs, planner
<1>. QED BY <1>1, <1>2, <1>3, <1>4, <1>5, <1>6, <1>7, <1>8, <1>9 DEF CommitInv

LEMMA SmallMod ==
  ASSUME NEW m \in Nat, m > 0, NEW x \in 0 .. m
  PROVE  x % m = IF x = m THEN 0 ELSE x
OBVIOUS

\* A valley changes the age of a result and nothing else.
LEMMA AgedFits ==
  ASSUME NEW result \in Results, NEW next
  PROVE  /\ Aged(result, next) \in Results
         /\ Aged(result, next).sound = result.sound /\ Aged(result, next).pair = result.pair
         /\ next # 0 => Aged(result, next) = result
         /\ next = 0 /\ result.valleys = 0 => Aged(result, next).valleys = 1
PROOF
<1>1. CASE next # 0
  BY <1>1 DEF Aged
<1>2. CASE next = 0
  <2>1. Aged(result, next) = [result EXCEPT !.valleys = IF @ < 2 THEN @ + 1 ELSE 2]
    BY <1>2 DEF Aged
  <2>2. (IF result.valleys < 2 THEN result.valleys + 1 ELSE 2) \in 0 .. 2
    BY DEF Results
  <2>. QED BY <1>2, <2>1, <2>2 DEF Results
<1>. QED BY <1>1, <1>2

\* A new conversion: its fields, and when it is sound.
LEMMA StartedFits ==
  ASSUME CommitInv, NEW next
  PROVE  /\ Started(next) \in Conversions /\ Started(next) # NoConv
         /\ Started(next).ticks = 0 /\ Started(next).result.valleys = 0
         /\ Started(next).result.pair = routed
         /\ Good(arr, after, before, active, routed) /\ next = active[4] => Started(next).result.sound
         /\ Started(next).result.sound =>
              Valid([p \in Phases |-> active[p]], arr, after, before, next, routed)
PROOF
<1>. DEFINE v == Valid([p \in Phases |-> active[p]], arr, after, before, next, routed)
<1>1. v \in BOOLEAN
  BY DEF Valid
<1>2. Good(arr, after, before, active, routed) /\ next = active[4] => v
  BY DEF Good
<1>3. Started(next) = [result |-> [pair |-> routed, valleys |-> 0, sound |-> v], ticks |-> 0]
  BY DEF Started
<1>4. v => Valid([p \in Phases |-> active[p]], arr, after, before, next, routed)
  OBVIOUS
<1>. HIDE DEF v
<1>5. routed \in Pairs /\ before \in Nat
  BY Numbers DEF CommitInv, Types
<1>6. Started(next) \in Conversions
  BY <1>1, <1>3, <1>5 DEF Conversions, Results
<1>7. Started(next) # NoConv
  BY <1>6, SomeConversion
<1>8. v <=> Started(next).result.sound
  BY <1>1, <1>3
<1>9. /\ Started(next).ticks = 0 /\ Started(next).result.valleys = 0
      /\ Started(next).result.pair = routed
  BY <1>3
<1>. QED BY <1>2, <1>4, <1>6, <1>7, <1>8, <1>9

\* What a tick does to the counter and to the conversion.
LEMMA TickFacts ==
  ASSUME CommitInv, Tick
  PROVE  /\ phase' = IF phase = 2 * arr - 1 THEN 0 ELSE phase + 1
         /\ phase' \in 0 .. 2 * arr - 1
         /\ \/ phase' \in {0, arr} /\ ~udis /\ active' = preload
            \/ (phase' = 0 => udis) /\ active' = active
         /\ conv # NoConv =>
              /\ conv.ticks \in 0 .. before /\ conv.ticks < before /\ conv.result \in Results
              /\ conv' = [result |-> Aged(conv.result, phase'), ticks |-> conv.ticks + 1]
              /\ conv' \in Conversions
         /\ conv = NoConv /\ 0 < phase' /\ phase' < arr /\ phase' = active[4] => conv' = Started(phase')
         /\ conv = NoConv /\ ~(0 < phase' /\ phase' < arr /\ phase' = active[4]) => conv' = NoConv
         /\ conv' # NoConv => conv' \in Conversions
         /\ spent' = IF pc \in Critical THEN spent + 1 ELSE 0
         /\ pc \in Critical => spent < Stall
         /\ jdr' = Aged(jdr, phase') /\ sample' = Aged(sample, phase')
         /\ UNCHANGED <<udis, preload, moe, routed, jeos, pc, lastPair, discard, seen, timely,
                        committed, arr, after, before, ccr, plan, planned>>
PROOF
<1>1. phase \in 0 .. 2 * arr - 1 /\ arr \in Nat /\ arr > 0 /\ before \in Nat
  BY Numbers DEF CommitInv, Types
<1>2. phase' = (phase + 1) % (2 * arr)
  BY DEF Tick
<1>3. phase' = IF phase = 2 * arr - 1 THEN 0 ELSE phase + 1
  <2>1. 2 * arr \in Nat /\ 2 * arr > 0 /\ phase + 1 \in 0 .. 2 * arr
    BY <1>1
  <2>. QED BY <1>1, <1>2, <2>1, SmallMod
<1>4. phase' \in 0 .. 2 * arr - 1
  BY <1>1, <1>3
<1>5. \/ phase' \in {0, arr} /\ ~udis /\ active' = preload
      \/ (phase' = 0 => udis) /\ active' = active
  BY <1>2 DEF Tick, Updates
<1>6. conv # NoConv =>
        /\ conv.ticks \in 0 .. before /\ conv.ticks < before /\ conv.result \in Results
        /\ conv' = [result |-> Aged(conv.result, phase'), ticks |-> conv.ticks + 1]
  BY <1>2, SomeConversion DEF Tick, CommitInv, Types
<1>7. /\ conv = NoConv /\ 0 < phase' /\ phase' < arr /\ phase' = active[4] => conv' = Started(phase')
      /\ conv = NoConv /\ ~(0 < phase' /\ phase' < arr /\ phase' = active[4]) => conv' = NoConv
  BY <1>2 DEF Tick, Triggered
<1>8. conv' # NoConv \/ conv # NoConv => conv' \in Conversions
  <2>1. CASE conv # NoConv
    BY <1>1, <1>6, <2>1, AgedFits DEF Conversions
  <2>2. CASE conv = NoConv
    BY <1>7, <2>2, StartedFits
  <2>. QED BY <2>1, <2>2
<1>. QED BY <1>2, <1>3, <1>4, <1>5, <1>6, <1>7, <1>8 DEF Tick, inputs, planner

LEMMA TickKeeps ==
  ASSUME CommitInv, Tick
  PROVE  CommitInv'
PROOF
<1>0. Answered /\ Types /\ Places /\ Written /\ Driven /\ Discarded /\ Held /\ InTime /\ Converting
  BY DEF CommitInv
<1>n. /\ phase \in 0 .. 2 * arr - 1
      /\ arr \in Nat /\ after \in Nat /\ before \in Nat /\ arr > 0 /\ Stall \in Nat /\ Stall <= arr
  BY <1>0, Numbers DEF Types
<1>p. /\ phase' = IF phase = 2 * arr - 1 THEN 0 ELSE phase + 1
      /\ phase' \in 0 .. 2 * arr - 1
  BY TickFacts
<1>u. UNCHANGED <<udis, preload, moe, routed, jeos, pc, lastPair, discard, seen, timely,
                  committed, arr, after, before, ccr, plan, planned>>
  BY TickFacts
<1>a. \/ phase' \in {0, arr} /\ ~udis /\ active' = preload
      \/ (phase' = 0 => udis) /\ active' = active
  BY TickFacts
<1>c. conv # NoConv =>
        /\ conv.ticks \in 0 .. before /\ conv.ticks < before /\ conv.result \in Results
        /\ conv' \in Conversions /\ conv' # NoConv
        /\ conv'.ticks = conv.ticks + 1 /\ conv'.result = Aged(conv.result, phase')
  <2>. SUFFICES ASSUME conv # NoConv
                PROVE  /\ conv.ticks \in 0 .. before /\ conv.ticks < before /\ conv.result \in Results
                       /\ conv' \in Conversions /\ conv' # NoConv
                       /\ conv'.ticks = conv.ticks + 1 /\ conv'.result = Aged(conv.result, phase')
    OBVIOUS
  <2>1. /\ conv.ticks \in 0 .. before /\ conv.ticks < before /\ conv.result \in Results
        /\ conv' = [result |-> Aged(conv.result, phase'), ticks |-> conv.ticks + 1]
        /\ conv' \in Conversions
    BY TickFacts
  <2>2. conv' # NoConv
    BY <1>u, <2>1, SomeConversion DEF Conversions
  <2>. QED BY <2>1, <2>2
<1>d. conv = NoConv /\ 0 < phase' /\ phase' < arr /\ phase' = active[4] =>
        conv' = Started(phase') /\ conv' # NoConv
  BY TickFacts, StartedFits
<1>e. conv = NoConv /\ ~(0 < phase' /\ phase' < arr /\ phase' = active[4]) => conv' = NoConv
  BY TickFacts
<1>s. /\ spent' = IF pc \in Critical THEN spent + 1 ELSE 0
      /\ pc \in Critical => spent < Stall
      /\ jdr' = Aged(jdr, phase') /\ sample' = Aged(sample, phase')
  BY TickFacts
\* While the outputs are on the trigger of the active compares is before the peak.
<1>t. moe /\ (pc \in Steady => active = committed.last) => 0 < active[4] /\ active[4] < arr
  <2>1. moe /\ pc \in Unmasking => 0 < Regs(plan)[4] /\ Regs(plan)[4] < arr
    BY <1>0, PlanFits, GoodTrigger DEF Places
  <2>. QED BY <1>0, <2>1 DEF Driven, Places, Types
<1>1. Answered'
  BY <1>0, <1>u DEF Answered
<1>2. Types'
  <2>1. spent' \in 0 .. Stall
    BY <1>0, <1>n, <1>s DEF Types
  <2>2. jdr' \in Results /\ sample' \in Results
    BY <1>0, <1>s, AgedFits DEF Types
  <2>3. active' \in RegisterValues
    BY <1>0, <1>a DEF Types
  <2>4. conv' # NoConv => conv' \in Conversions
    BY TickFacts
  <2>. QED BY <1>0, <1>p, <1>u, <2>1, <2>2, <2>3, <2>4 DEF Types, RegisterValues, Conversions
<1>3. Places'
  BY <1>0, <1>u DEF Places
<1>4. Written'
  BY <1>0, <1>u, <1>a DEF Written
<1>8. InTime'
  <2>1. pc \in PastLook => BeforePeak'
    BY <1>0, <1>u DEF InTime, BeforePeak
  <2>2. pc \in PastLook /\ phase' < arr => phase' < spent'
    <3>1. CASE phase' = 0
      BY <1>0, <1>n, <1>s, <3>1 DEF Types
    <3>2. CASE phase' # 0
      BY <1>0, <1>n, <1>p, <1>s, <3>2 DEF InTime, Down, Types
    <3>. QED BY <3>1, <3>2
  <2>3. pc = "recheck" /\ timely /\ phase' >= arr => 2 * arr - phase' <= seen
    BY <1>0, <1>n, <1>p, <1>s DEF InTime, Down, Types
  <2>. QED BY <1>n, <1>p, <1>u, <2>1, <2>2, <2>3 DEF InTime, Down
<1>9. Converting'
  <2>. SUFFICES ASSUME conv' # NoConv
                PROVE  /\ phase' - arr + 1 <= conv'.ticks
                       /\ conv'.result.sound =>
                            /\ before < 2 * arr /\ phase' <= conv'.ticks + 2 * arr - before
                            /\ conv'.result.valleys = 0 \/ (phase' = 0 /\ conv'.ticks = before)
    BY <1>u DEF Converting
  <2>1. CASE conv # NoConv
    <3>1. conv'.result.sound = conv.result.sound /\ (phase' # 0 => conv'.result = conv.result)
      BY <1>c, <2>1, AgedFits
    <3>2. phase - arr + 1 <= conv.ticks
      BY <1>0, <2>1 DEF Converting
    <3>3. phase' - arr + 1 <= conv'.ticks
      BY <1>c, <1>n, <1>p, <2>1, <3>2
    <3>4. ASSUME conv'.result.sound
          PROVE  /\ before < 2 * arr /\ phase' <= conv'.ticks + 2 * arr - before
                 /\ conv'.result.valleys = 0 \/ (phase' = 0 /\ conv'.ticks = before)
      <4>1. /\ before < 2 * arr /\ phase <= conv.ticks + 2 * arr - before
            /\ conv.result.valleys = 0 \/ (phase = 0 /\ conv.ticks = before)
        BY <1>0, <2>1, <3>1, <3>4 DEF Converting
      <4>2. phase' <= conv'.ticks + 2 * arr - before /\ (phase' = 0 => conv'.ticks = before)
        BY <1>c, <1>n, <1>p, <2>1, <4>1
      <4>. QED BY <1>c, <1>n, <2>1, <3>1, <4>1, <4>2
    <3>. QED BY <3>3, <3>4
  <2>2. CASE conv = NoConv
    <3>1. conv' = Started(phase') /\ 0 < phase' /\ phase' < arr
      BY <1>d, <1>e, <2>2
    <3>2. conv'.ticks = 0 /\ conv'.result.valleys = 0
      BY <3>1, StartedFits
    <3>3. ASSUME conv'.result.sound
          PROVE  before < 2 * arr /\ phase' + before <= 2 * arr
      <4>1. Valid([p \in Phases |-> active[p]], arr, after, before, phase', routed)
        BY <3>1, <3>3, StartedFits
      <4>2. active \in [Registers -> 0 .. arr + 1] /\ routed \in Pairs /\ phase' \in Nat /\ arr + 1 \in Nat
        BY <1>0, <1>n, <1>p DEF Types, RegisterValues
      <4>. QED BY <1>n, <4>1, <4>2, SoundEnds
    <3>. QED BY <1>n, <1>p, <3>1, <3>2, <3>3
  <2>. QED BY <2>1, <2>2
\* A caught sample stays caught: if the tick is the trigger's, it converts now.
<1>b. ASSUME NEW r \in Results, moe, pc \in Steady => active = committed.last, Caught(r),
             phase' = 0 => 0 < active'[4]
      PROVE  \/ Aged(r, phase').valleys = 0 \/ conv' # NoConv \/ phase' < active'[4]
  <2>1. 0 < active[4] /\ active[4] < arr /\ active[4] \in Nat
    BY <1>0, <1>b, <1>n, <1>t DEF Types, RegisterValues, Registers
  <2>2. CASE phase' = 0
    BY <1>b, <2>2
  <2>3. CASE phase' # 0
    <3>1. Aged(r, phase') = r /\ phase' = phase + 1
      BY <1>n, <1>p, <2>3, AgedFits
    <3>2. CASE conv # NoConv
      BY <1>c, <3>2
    <3>3. CASE conv = NoConv /\ phase < active[4]
      <4>1. active' = active \/ phase' = arr
        BY <1>a, <2>3
      <4>2. phase' # arr
        BY <1>n, <2>1, <3>1, <3>3
      <4>3. phase' < active[4] \/ phase' = active[4]
        BY <1>n, <2>1, <3>1, <3>3
      <4>. QED BY <1>d, <1>n, <1>p, <2>1, <2>3, <3>3, <4>1, <4>2, <4>3
    <3>. QED BY <1>b, <3>1, <3>2, <3>3 DEF Caught
  <2>. QED BY <2>2, <2>3
\* Masked, nothing is transferred; otherwise it is what was written.
<1>f. moe /\ pc \in Steady \ {"look"} =>
        (active = committed.last \/ phase' = 0 => active' = committed.last)
  BY <1>0, <1>a, <1>n DEF Driven, Places
<1>g. moe /\ pc \in {"look"} \cup (PastLook \ Unmasking) => active' = active
  BY <1>0, <1>a DEF Places
<1>5. Driven'
  <2>. SUFFICES ASSUME moe
                PROVE  Driven'
    BY <1>u DEF Driven
  <2>1. 0 < committed.last[4] /\ committed.last[4] < arr
    BY <1>0 DEF Driven
  <2>2. ASSUME pc \in Steady
        PROVE  /\ preload = committed.last /\ Good(arr, after, before, committed.last, routed)
               /\ phase' < arr => active' = committed.last
               /\ active' \in {committed.last, committed.previous}
               /\ active' # committed.last => pc = "idle" /\ ~jeos /\ conv' = NoConv
    <3>1. preload = committed.last /\ Good(arr, after, before, committed.last, routed)
      BY <1>0, <2>2 DEF Driven
    <3>2. CASE active = committed.last
      BY <1>f, <1>g, <2>2, <3>1, <3>2
    <3>3. CASE active # committed.last
      <4>1. phase >= arr /\ pc = "idle" /\ ~jeos /\ conv = NoConv /\ active = committed.previous
        BY <1>0, <2>2, <3>3 DEF Driven, Down
      <4>2. phase' = 0 \/ phase' > arr
        BY <1>n, <1>p, <4>1
      <4>3. CASE phase' = 0
        BY <1>e, <1>f, <1>n, <3>1, <4>1, <4>3
      <4>4. CASE phase' > arr
        BY <1>a, <1>e, <1>n, <1>p, <3>1, <4>1, <4>4
      <4>. QED BY <4>2, <4>3, <4>4
    <3>. QED BY <3>2, <3>3
  <2>3. pc \in Critical \ (Unmasking \cup {"look"}) => active' = committed.last
    BY <1>0, <1>g DEF Driven
  <2>4. pc \in Unmasking => active' \in {committed.last, Regs(plan)}
    BY <1>0, <1>a DEF Driven, Written
  <2>5. pc = "repending" /\ phase' < arr => active' = Regs(plan)
    <3>1. CASE phase' = 0
      BY <1>0, <1>a, <3>1 DEF Written, Places
    <3>2. CASE phase' # 0
      <4>1. phase' < arr => ~Down
        BY <1>n, <1>p, <3>2 DEF Down
      <4>. QED BY <1>0, <1>a, <1>n, <4>1 DEF Driven, Written
    <3>. QED BY <3>1, <3>2
  <2>. QED BY <1>n, <1>p, <1>u, <2>1, <2>2, <2>3, <2>4, <2>5 DEF Driven, Down
<1>6. Discarded'
  <2>. SUFFICES ASSUME moe, pc \in {"idle", "read"}, active' = committed.last
                PROVE  /\ ~Usable(jdr)' \/ ~Caught(jdr)' => One(pc = "read") + One(jeos) <= discard
                       /\ conv' # NoConv /\ ~Usable(conv.result)' =>
                            One(pc = "read") + One(jeos) + 1 <= discard
    BY <1>u DEF Discarded, Usable, Caught, One
  <2>1. CASE active = committed.last
    <3>1. Usable(jdr)' <=> Usable(jdr)
      BY <1>0, <1>s, <1>u, AgedFits DEF Usable, Types
    <3>2. Caught(jdr) => Caught(jdr)'
      <4>1. phase' = 0 => 0 < active'[4]
        BY <1>0 DEF Driven
      <4>. QED BY <1>0, <1>b, <1>s, <2>1, <4>1 DEF Caught, Types
    <3>3. CASE conv # NoConv
      <4>1. Usable(conv.result)' <=> Usable(conv.result)
        BY <1>c, <1>u, <3>3, AgedFits DEF Usable
      <4>. QED BY <1>0, <2>1, <3>1, <3>2, <3>3, <4>1 DEF Discarded
    <3>4. CASE conv = NoConv
      <4>1. Good(arr, after, before, active, routed)
        BY <1>0, <2>1 DEF Driven
      <4>2. conv' # NoConv => Usable(conv.result)'
        BY <1>d, <1>e, <1>u, <3>4, <4>1, StartedFits DEF Usable
      <4>. QED BY <1>0, <2>1, <3>1, <3>2, <4>2 DEF Discarded
    <3>. QED BY <3>3, <3>4
  <2>2. CASE active # committed.last
    <3>1. pc = "idle" /\ ~jeos /\ conv = NoConv /\ phase >= arr
      BY <1>0, <2>2 DEF Driven, Down
    <3>2. conv' = NoConv
      BY <1>e, <1>n, <1>p, <3>1
    <3>. QED BY <1>0, <3>1, <3>2 DEF Types, One
  <2>. QED BY <2>1, <2>2
<1>7. Held'
  <2>1. pc \in {"compute", "guard"} => Usable(sample)'
    BY <1>0, <1>s, <1>u, AgedFits DEF Held, Usable, Types
  <2>2. ASSUME pc \in Working \ {"repending"}
        PROVE  jeos \/ Caught(sample)'
    <3>1. moe /\ (pc \in Steady => active = committed.last)
      BY <1>0, <2>2 DEF Driven, Places
    <3>2. phase' = 0 => 0 < active'[4]
      <4>1. pc \in Unmasking => 0 < Regs(plan)[4]
        BY <1>0, PlanFits, GoodTrigger DEF Places
      <4>2. 0 < committed.last[4]
        BY <1>0, <3>1 DEF Driven
      <4>3. active' \in {committed.last, Regs(plan)}
        BY <1>0, <1>a, <2>2, <3>1 DEF Driven, Written, Places
      <4>4. pc \notin Unmasking => active' = committed.last \/ phase' # 0
        BY <1>0, <1>f, <1>g, <2>2, <3>1 DEF Driven
      <4>. QED BY <4>1, <4>2, <4>3, <4>4
    <3>. QED BY <1>0, <1>b, <1>s, <2>2, <3>1, <3>2 DEF Held, Caught, Types
  <2>3. ASSUME pc = "repending"
        PROVE  /\ phase' >= arr => conv' = NoConv /\ (jeos \/ sample'.valleys = 0)
               /\ phase' < arr => /\ jeos \/ sample'.valleys = 1
                                  /\ conv' # NoConv => Usable(conv.result)'
    <3>1. sample \in Results /\ moe
      BY <1>0, <2>3 DEF Types, Places
    <3>2. CASE phase' = 0
      <4>1. Down
        BY <1>n, <1>p, <3>2 DEF Down
      <4>2. conv = NoConv /\ (jeos \/ sample.valleys = 0)
        BY <1>0, <2>3, <4>1 DEF Held
      <4>. QED BY <1>e, <1>n, <1>s, <3>1, <3>2, <4>2, AgedFits
    <3>3. CASE phase' # 0
      <4>1. sample' = sample /\ phase' = phase + 1
        BY <1>n, <1>p, <1>s, <3>1, <3>3, AgedFits
      <4>2. CASE Down
        <5>1. conv' = NoConv
          BY <1>0, <1>e, <1>n, <2>3, <4>1, <4>2 DEF Held, Down
        <5>. QED BY <1>0, <1>n, <2>3, <4>1, <4>2, <5>1 DEF Held, Down
      <4>3. CASE ~Down
        <5>1. phase < spent /\ spent < Stall
          BY <1>0, <1>s, <2>3, <4>3 DEF InTime
        <5>2. phase' < arr
          BY <1>0, <1>n, <4>1, <5>1 DEF Types
        <5>3. active = Regs(plan) /\ routed = plan.pair
          BY <1>0, <2>3, <3>1, <4>3 DEF Driven, Written
        <5>4. Good(arr, after, before, active, routed)
          BY <1>0, <2>3, <5>3, PlanFits DEF Places
        <5>5. conv' # NoConv => Usable(conv.result)'
          <6>1. CASE conv # NoConv
            BY <1>0, <1>c, <1>u, <2>3, <4>3, <6>1, AgedFits DEF Held, Usable
          <6>2. CASE conv = NoConv
            BY <1>d, <1>e, <1>u, <5>4, <6>2, StartedFits DEF Usable
          <6>. QED BY <6>1, <6>2
        <5>. QED BY <1>0, <1>n, <2>3, <4>1, <4>3, <5>2, <5>5 DEF Held
      <4>. QED BY <4>2, <4>3
    <3>. QED BY <3>2, <3>3
  <2>. QED BY <1>n, <1>p, <1>u, <2>1, <2>2, <2>3 DEF Held, Down
<1>. QED BY <1>1, <1>2, <1>3, <1>4, <1>5, <1>6, <1>7, <1>8, <1>9 DEF CommitInv

\* CommitInv is inductive.
LEMMA CommitInitHolds == CommitInit => CommitInv
PROOF
<1>. SUFFICES ASSUME CommitInit
              PROVE  CommitInv
  OBVIOUS
<1>1. Answered
  BY DEF CommitInit, Init, Answered
<1>2. active \in RegisterValues
  <2>1. arr \in Nat /\ arr > 0
    BY <1>1, Numbers
  <2>2. arr \div 2 \in 0 .. arr + 1 /\ arr - 1 \in 0 .. arr + 1
    BY <2>1, Halved
  <2>. QED BY <2>2 DEF CommitInit, RegisterValues
<1>3. Types
  <2>1. phase \in 0 .. 2 * arr - 1 /\ spent \in 0 .. Stall /\ seen \in 0 .. arr
    BY <1>1, Numbers DEF CommitInit
  <2>2. committed \in [last : RegisterValues, previous : RegisterValues]
    BY <1>2 DEF CommitInit
  <2>3. /\ preload = active /\ conv = NoConv /\ routed = Uv /\ jdr = NoSample /\ sample = NoSample
        /\ pc = "idle" /\ discard = 0
    BY DEF CommitInit
  <2>4. udis \in BOOLEAN /\ moe \in BOOLEAN /\ jeos \in BOOLEAN /\ timely \in BOOLEAN
    BY DEF CommitInit
  <2>. QED BY <1>2, <2>1, <2>2, <2>3, <2>4, NoSampleFits DEF Types, Pairs
<1>4. Places
  BY DEF CommitInit, Places
<1>5. Written
  BY DEF CommitInit, Written
<1>6. Driven /\ Discarded /\ Held /\ InTime /\ Converting
  BY DEF CommitInit, Driven, Discarded, Held, InTime, Converting
<1>. QED BY <1>1, <1>3, <1>4, <1>5, <1>6 DEF CommitInv

LEMMA CommitStepKeeps == CommitInv /\ [CommitNext]_commitVars => CommitInv'
PROOF
<1>. SUFFICES ASSUME CommitInv, [CommitNext]_commitVars
              PROVE  CommitInv'
  OBVIOUS
<1>1. CASE UNCHANGED commitVars
  BY <1>1 DEF commitVars, timer, adc, isr, inputs, planner, CommitInv, Answered, Types, Places, Written,
              Driven, Discarded, Held, InTime, Converting, RegisterValues, Conversions, Down, BeforePeak,
              Usable, Caught, One
<1>2. CASE CommitNext
  BY <1>2, TickKeeps, ConvertKeeps, EnterKeeps, ReadKeeps, ComputeKeeps, LoseKeeps, GuardKeeps,
     MissedKeeps, LookKeeps, LookPendingKeeps, WriteKeeps, RouteKeeps, RestoreKeeps, RecheckKeeps,
     FinishKeeps, StartKeeps, WritePlanKeeps, TransferKeeps, EnableKeeps DEF CommitNext, Look,
     LookPending, Recheck, Finish
<1>. QED BY <1>1, <1>2

LEMMA CommitInvariant == CommitSpec => []CommitInv
BY CommitInitHolds, CommitStepKeeps, PTL DEF CommitSpec

-------------------------------------------------------------------------------
\* apply_plan: whenever the outputs are on, the four active compares are those of one
\* plan, wherever update events fall among the four writes, and a period that has
\* begun runs on the last plan whose commit succeeded.
THEOREM PlansAreWhole == CommitSpec => []WholePlans
PROOF
<1>1. CommitInv => WholePlans
  BY DEF CommitInv, Driven, WholePlans, Places, Types
<1>. QED BY <1>1, CommitInvariant, PTL

\* read_currents: the sample that reaches the control law was converted through the pair
\* it is decoded as, under compares at which both shunts conducted: no result that a
\* start, a change of routing or a late conversion has spoilt gets through.
THEOREM SamplesAreSound == CommitSpec => []SampleIsSound
PROOF
<1>1. CommitInv => SampleIsSound
  BY DEF CommitInv, Held, Usable, Places, SampleIsSound
<1>. QED BY <1>1, CommitInvariant, PTL

\* apply_plan: a commit that succeeds meets the valley that ends the period of its
\* sample, however long the interrupt was delayed and wherever the commit stalled.
THEOREM CommitsAreTimely == CommitSpec => CommitIsTimely
PROOF
<1>1. CommitInv /\ [CommitNext]_commitVars =>
        [pc = "repending" /\ committed' # committed =>
           \/ sample.valleys = 0
           \/ sample.valleys = 1 /\ ~Down /\ active = Regs(plan)]_commitVars
  <2>. SUFFICES ASSUME CommitInv, CommitNext, pc = "repending", committed' # committed
                PROVE  \/ sample.valleys = 0
                       \/ sample.valleys = 1 /\ ~Down /\ active = Regs(plan)
    OBVIOUS
  <2>1. ~jeos
    BY DEF CommitNext, Tick, Convert, isr, Enter, Read, Compute, Lose, Guard, Look, LookPending,
       Write, Route, Restore, Recheck, Finish, Missed, Pending, Start, WritePlan, Transfer, Enable
  <2>. QED BY <2>1 DEF CommitInv, Held, Driven, Places
<1>. QED BY <1>1, CommitInvariant, PTL DEF CommitSpec, CommitIsTimely

\* The registers and the counters of the commit stay within their ranges.
THEOREM CommitTypes == CommitSpec => []CommitTypeOK
PROOF
<1>1. CommitInv => CommitTypeOK
  <2>. SUFFICES ASSUME CommitInv
                PROVE  CommitTypeOK
    OBVIOUS
  <2>1. TypeOK
    BY AnsweredFits DEF CommitInv
  <2>2. lastPair = routed
    BY DEF CommitInv, Places
  <2>3. conv \in {NoConv} \cup [result : Results, ticks : 0 .. before]
    BY DEF CommitInv, Types, Conversions
  <2>. QED BY <2>1, <2>2, <2>3 DEF CommitInv, Types, RegisterValues, CommitTypeOK
<1>. QED BY <1>1, CommitInvariant, PTL
===============================================================================
