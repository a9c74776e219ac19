CONSTANTS
  Arrs <- MCArrs
  Afters <- MCAfters
  Befores <- MCBefores
  Asked <- MCAsked
  Stall = 4
SPECIFICATION CommitSpec
INVARIANTS
  PlanIsMeasurable
  ShiftIsMinimal
  WholePlans
  SampleIsSound
PROPERTIES
  CommitIsTimely
