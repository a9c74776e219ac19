CONSTANTS
  ClockMod = 12
  FaultMs = 5
  MaxDelay = 1
  ConvMs = 1
  MaxSilence = 5
SPECIFICATION FairSpec
INVARIANTS
  RightChannel
  FreshMeansRecent
PROPERTIES
  Recovers
