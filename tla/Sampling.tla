-------------------------------- MODULE Sampling --------------------------------
(***************************************************************************)
(* The two-shunt sampling planner of foc/src/sampling.rs: for the compares *)
(* of one PWM period it chooses the pair of phases to measure, the tick of *)
(* the ADC trigger and, if it must, a common-mode shift. All of it is      *)
(* arithmetic on unsigned integers; a checked_sub that fails is a guard.   *)
(*                                                                         *)
(* Phases are 1, 2, 3 for U, V, W; a pair is the set of its two phases.    *)
(***************************************************************************)
EXTENDS Integers

CONSTANTS
  Arrs,     \* timer reload values
  Afters,   \* settling budgets (tw_after)
  Befores   \* conversion budgets (tw_before)

ASSUME SamplingAssumption ==
  Arrs \subseteq Nat /\ Afters \subseteq Nat /\ Befores \subseteq Nat

VARIABLES
  ccr,     \* the compares asked for
  arr, after, before,
  plan,    \* what the planner returned, or NoPlan
  planned  \* it has returned

vars == <<ccr, arr, after, before, plan, planned>>

Phases == 1 .. 3
Uv == {1, 2}
Uw == {1, 3}
Vw == {2, 3}
Pairs == {Uv, Uw, Vw}

NoPlan == [ccr |-> [p \in Phases |-> 0], ccr4 |-> 0, pair |-> Uv]

Larger(a, b) == IF a >= b THEN a ELSE b
Smaller(a, b) == IF a <= b THEN a ELSE b

\* The later turn-on of the two measured phases.
TurnOn(c, pair) ==
  IF pair = Uv THEN Larger(c[1], c[2])
  ELSE IF pair = Uw THEN Larger(c[1], c[3]) ELSE Larger(c[2], c[3])

\* lowest_pair: leave out the largest compare; ties prefer UV, then UW.
\* Faulty variant: leave out the smallest.
HighestPair(c) ==
  IF c[1] >= c[3] /\ c[2] >= c[3] THEN Uv ELSE IF c[1] >= c[2] /\ c[3] >= c[2] THEN Uw ELSE Vw
LowestPair(c) ==
  IF c[1] <= c[3] /\ c[2] <= c[3] THEN Uv ELSE IF c[1] <= c[2] /\ c[3] <= c[2] THEN Uw ELSE Vw

\* window: the latest trigger that leaves both phases settled before it and
\* conducting until the conversions are done; 0 if there is none. Faulty variant: as
\* soon as both are on.
EarliestUnsettled(m, a) == Larger(m, 1)
Earliest(m, a) == Larger(m + a, 1)
Latest(m, n, b) == Smaller(2 * n - (m + b), n - 1)
Window(c, n, a, b, pair) ==
  LET m == TurnOn(c, pair)
  IN  IF 2 * n >= m + b /\ Earliest(m, a) <= Latest(m, n, b) THEN Latest(m, n, b) ELSE 0

\* The largest turn-on that still has a window.
LatestTurnOn(n, a, b) ==
  Smaller(n - 1 - a, Smaller((2 * n - (a + b)) \div 2, 2 * n - (b + 1)))
TurnOnExists(n, a, b) == n - 1 >= a /\ 2 * n >= a + b /\ 2 * n >= b + 1

Shift(c, n, a, b) == TurnOn(c, LowestPair(c)) - LatestTurnOn(n, a, b)

\* The shift must leave every compare nonnegative.
Headroom(c, s) == \A p \in Phases : s <= c[p]

Shifted(c, s) == [p \in Phases |-> c[p] - s]

PlanAt(c, n, a, b, pair) == [ccr |-> c, ccr4 |-> Window(c, n, a, b, pair), pair |-> pair]

PlanSampling(c, n, a, b) ==
  IF n < 2 \/ \E p \in Phases : c[p] > n + 1 THEN NoPlan
  ELSE IF Window(c, n, a, b, Uv) = n - 1 THEN PlanAt(c, n, a, b, Uv)
  ELSE IF Window(c, n, a, b, LowestPair(c)) # 0 THEN PlanAt(c, n, a, b, LowestPair(c))
  ELSE IF /\ TurnOnExists(n, a, b)
          /\ Shift(c, n, a, b) >= 0
          /\ Headroom(c, Shift(c, n, a, b))
          /\ Window(Shifted(c, Shift(c, n, a, b)), n, a, b, LowestPair(c)) # 0
  THEN PlanAt(Shifted(c, Shift(c, n, a, b)), n, a, b, LowestPair(c))
  ELSE NoPlan

\* Compares of a period: 0 is always off, arr + 1 always on.
Compares(n) == [Phases -> 0 .. n + 1]

Init ==
  /\ arr \in Arrs /\ after \in Afters /\ before \in Befores
  /\ ccr \in Compares(arr)
  /\ plan = NoPlan
  /\ planned = FALSE

\* One call of plan_sampling.
Plan ==
  /\ ~planned
  /\ planned' = TRUE
  /\ plan' = PlanSampling(ccr, arr, after, before)
  /\ UNCHANGED <<ccr, arr, after, before>>

Next == Plan

Spec == Init /\ [][Next]_vars

TypeOK ==
  /\ arr \in Arrs /\ after \in Afters /\ before \in Befores
  /\ ccr \in Compares(arr)
  /\ plan \in [ccr : Compares(arr), ccr4 : 0 .. arr, pair : Pairs]
  /\ planned \in BOOLEAN

-------------------------------------------------------------------------------
\* What a measured phase needs of a trigger at tick t: its low side has turned on
\* and settled, and stays on until the conversion is done.
Measured(c, n, a, b, t) == t >= c + a /\ t + b <= 2 * n - c

Valid(c, n, a, b, t, pair) ==
  /\ 0 < t /\ t < n
  /\ \A p \in pair : Measured(c[p], n, a, b, t)

\* Both phases of the chosen pair can be measured at the chosen trigger.
PlanIsMeasurable ==
  plan # NoPlan => Valid(plan.ccr, arr, after, before, plan.ccr4, plan.pair)

\* The compares move together: every line voltage is the one asked for.
LineVoltagesKept ==
  plan # NoPlan =>
    \A p, q \in Phases : plan.ccr[p] - plan.ccr[q] = ccr[p] - ccr[q]

\* No smaller shift, with any pair and trigger, would do; and if there is no
\* plan, no shift at all does.
Feasible(s, t, pair) ==
  /\ \A p \in Phases : s <= ccr[p]
  /\ Valid([p \in Phases |-> ccr[p] - s], arr, after, before, t, pair)

ShiftIsMinimal ==
  planned /\ arr >= 2 =>
    \A s \in 0 .. arr + 1, t \in 1 .. arr, pair \in Pairs :
      Feasible(s, t, pair) => plan # NoPlan /\ ccr[1] - plan.ccr[1] <= s
===============================================================================
