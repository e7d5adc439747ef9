SPECIFICATION FairErasureSpec
CONSTANTS
  MaxRequests = 3
  MaxChanges = 3
  MaxFaults = 3
CHECK_DEADLOCK FALSE
INVARIANTS
  ErasureIsComplete
  DownloadsAreServed
PROPERTY EveryDeletionEnds
