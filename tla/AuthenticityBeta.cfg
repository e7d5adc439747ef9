SPECIFICATION Spec
CONSTANTS
  Cases = {c1}
  Tasks = {t1, t2}
  MaxAttempts = 2
  MaxRev = 2
  OtherBytes = 2
SYMMETRY Symmetry
CHECK_DEADLOCK FALSE
INVARIANTS
  OneCallPerStep
  DeletionIsThorough
  StorageIsCharged
