SPECIFICATION Spec
CONSTANTS
  Posts = {p1}
  Comments = {c1}
  Profiles = {u1}
  OthersPost = TRUE
  Consumers = {w1, w2}
  Moderators = {m1, m2}
  MaxRev = 2
  MaxContents = 1
  MaxCycle = 1
SYMMETRY Symmetry
CHECK_DEADLOCK FALSE
INVARIANTS
  PublicWasApproved
  ReviewIsTracked
  DeletionClosesCases
