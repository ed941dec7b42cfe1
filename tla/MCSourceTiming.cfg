CONSTANTS
  Announcements <- MCAnnouncements
  Own <- MCOwn
  Passive <- MCPassive
  Sequences = {1, 2}
  Windows = {0, 1}
  InitialWindow = 1
  AnnounceTimeout = 2
  StandardTimeout = 1
  FollowUpLimit = 1
  NoSource = NoSource
  MaxGeneration = 3
SPECIFICATION FairSpec
INVARIANTS
  SourceInv
  FollowUpPairsOneSource
  SnapshotOfSelected
  GenerationNamesRoot
PROPERTIES SilentSourceDropped
CHECK_DEADLOCK FALSE
