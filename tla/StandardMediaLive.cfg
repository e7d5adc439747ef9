SPECIFICATION FairSpec
CONSTANTS
  Sessions = {s1}
  Tasks = {t1, t2}
  MaxBytes = 1
  Quota = 1
  Erasing = TRUE
INVARIANT ErasureIsTracked
PROPERTY EverySessionIsCleaned
