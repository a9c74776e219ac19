CONSTANTS
  Targets <- MCPair
  BusFaults = {"Adc"}
  EpochMod = 2
  StallPolls = 1
SPECIFICATION Spec
INVARIANTS
  FirstTripPreserved
