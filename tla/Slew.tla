---------------------------------- MODULE Slew ----------------------------------
(***************************************************************************)
(* SlewI32 of foc/src/slew.rs: a ramp whose position is kept in fixed      *)
(* point, Scale parts of a published unit, of which only the published     *)
(* value is rounded. The amount of a step is rate times interval; the code *)
(* saturates that product, which the minimum with the distance hides.      *)
(***************************************************************************)
EXTENDS Integers

CONSTANT Scale   \* SlewI32::SCALE (1 000 000)

ASSUME SlewAssumption == Scale \in Nat \ {0} /\ Scale % 2 = 0

\* SlewI32::new.
Position(value) == value * Scale

\* value(): the nearest unit, ties away from zero.
Nearest(position) ==
  IF position >= 0 THEN (position + Scale \div 2) \div Scale
  ELSE -((Scale \div 2 - position) \div Scale)

\* step(), by at most amount >= 0. Faulty variant: every step is rounded to units, as in
\* the stateless approach_i32.
Abs(x) == IF x < 0 THEN -x ELSE x
Least(a, b) == IF a <= b THEN a ELSE b
Stepped(position, target, amount) ==
  LET distance == Position(target) - position
      step == Least(amount, Abs(distance))
  IN  IF distance >= 0 THEN position + step ELSE position - step
StatelessStep(position, target, amount) ==
  Position(Nearest(Stepped(position, target, amount)))
Step(position, target, amount) == Stepped(position, target, amount)
===============================================================================
