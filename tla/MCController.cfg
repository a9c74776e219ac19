CONSTANTS
  thread = thread
  adc = adc
  brk = brk
  g1 = g1
  g2 = g2
  Agents <- MCAgents
  Gains <- MCGains
  NoGains = NoGains
  NoState = NoState
  NoOutput = NoOutput
  MaxAcc = 2
  RevMod = 4
SPECIFICATION FairSpec
INVARIANTS
  SingleOwner
PROPERTIES
  NoStaleCommit
  ImplementsSpec
  RequestsApplied
