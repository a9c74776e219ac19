CONSTANTS
  Records <- MCRecords
  NoRecord = NoRecord
  Blank = Blank
  Junk = Junk
  SlotCount = 2
  Turn = 2
  MaxPoles = 2
  DefaultPoles = 2
  Entered <- MCEntered
SPECIFICATION CalSpec
INVARIANTS
  SavedIsLoaded
  ProgrammedOnce
  QualifiedTogether
  AlwaysEncodes
PROPERTIES
  SavedComesBack
  ImplementsSpec
