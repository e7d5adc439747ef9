SPECIFICATION Spec
CONSTANTS
  CallKeys = {k1, k2}
  CaseKeys = {c1, c2}
  Workers = {w1, w2}
  Operations <- MCOperations
  Warning = 3
  OptionalAnalysis = 4
  EssentialOnly = 5
  DeepScanStop = 6
  Limit = 7
  CaseLimit = 2
SYMMETRY Symmetry
INVARIANTS
  ExposureBelowLimit
  HeadroomKept
  CallsAreCharged
CHECK_DEADLOCK FALSE
