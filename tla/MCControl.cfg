CONSTANTS
  Targets <- MCAll
  BusFaults = {"Adc"}
  EpochMod = 2
  StallPolls = 1
SPECIFICATION FairSpec
INVARIANTS
  OutputsOwned
  RefsBelong
  BreakHolds
  BreakReported
PROPERTIES
  ResultsAreCurrent
  BadBusTrips
  DeadIsrTrips
