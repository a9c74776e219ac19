CONSTANTS
  Scale = 4
  Axes <- MCAxes
  Targets <- MCTargets
  Rates <- MCRates
  TimeoutMs = 2
  StallMs = 2
  MaxDelay = 2
  ClockMod = 7
  SequenceMod = 4
SPECIFICATION Spec
INVARIANTS
  RampIsContinuous
PROPERTIES
  TimeoutInTime
  StallInTime
