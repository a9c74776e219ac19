CONSTANTS
  Counts = 4
  Speed = 1
  Travel = 1
  MaxUnwrap = 5
  Late = 1
  Window = 2
  MaxGap = 2
  MsUs = 2
  EncFaultMs = 1
  UsMod = 6
  MsMod = 3
  MaxQuiet = 3
SPECIFICATION EncFairSpec
INVARIANTS
  MotionIsTrue
  ValidIsRecent
PROPERTIES
  SpeedReturns
