CONSTANTS
  ClockMod = 4
  SeqMod = 5
  IntervalMs = 1
  TimeoutMs = 3
  WorkMs = 1
  PollMs = 1
SPECIFICATION FairSpec
INVARIANTS
  OneFeedAfterStop
  NoFalseReset
PROPERTIES
  FeedNeedsAll
  StoppedIsReset
