SPECIFICATION Spec
CONSTANTS
  Sessions = {s1, s2}
  Tasks = {t1, t2}
  MaxBytes = 2
  Quota = 3
  Erasing = FALSE
SYMMETRY Symmetry
INVARIANTS
  LedgerBalances
  WithinQuota
  QueuedHasBytes
  ApprovedKeepsDerivative
  NothingUntracked
