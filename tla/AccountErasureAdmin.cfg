SPECIFICATION FairErasureSpec
CONSTANTS
  MaxRequests = 2
  MaxChanges = 1
  MaxFaults = 1
CHECK_DEADLOCK FALSE
PROPERTY EveryAdminDeletionEnds
