SPECIFICATION FairSpec
CONSTANTS
  Shift = 0
  SlowestLog = 1
  SlowSends = 3
  Receipts = 3
  PollCap = 5
  TokenMax = 4
  QueueMax = 1
  MaxDelay = 1
  MaxEdits = 3
  MaxLate = 2
  MaxLost = 1
INVARIANTS PaceInv CompletionIsItsClaim NeighborStaysCapable
PROPERTIES CapableGoesOn
