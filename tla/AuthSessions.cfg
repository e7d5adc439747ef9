SPECIFICATION Spec
CONSTANTS
  u1 = u1
  s1 = s1
  s2 = s2
  s3 = s3
  c1 = c1
  c2 = c2
  r1 = r1
  r2 = r2
  Users = {u1}
  SupportOnly = {}
  Sessions = {s1, s2, s3}
  Challenges = {c1, c2}
  Requests = {r1, r2}
  MaxVersion = 3
  MaxHash = 3
SYMMETRY Symmetry
INVARIANTS
  OneLiveSessionPerFamily
  SessionsAreCurrent
  SessionsFollowPassword
  OneOpenChallenge
PROPERTIES
  RecoveryNeverLiftsEnforcement
  RevokedFamilyIsDead
CHECK_DEADLOCK FALSE
