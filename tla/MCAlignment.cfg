CONSTANTS
  ClockMod = 9
  HoldMs = 3
  TimeoutMs = 6
  PollGap = 2
  Stalls <- MCStalls
  Counts = 4
  Raws <- MCRaws
  MaxMotion = 1
  MaxCurrent = 10
  Tolerance = 2
  RampPerMs = 5
  Commands <- MCCommands
  Measured <- MCMeasured
SPECIFICATION Spec
INVARIANTS
  TimeoutExact
  CompletedOnEvidence
