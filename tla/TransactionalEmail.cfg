SPECIFICATION FairSpec
CONSTANTS
  e1 = e1
  e2 = e2
  w1 = w1
  w2 = w2
  Emails = {e1, e2}
  Workers = {w1, w2}
  MaxAttempts = 3
  LifecycleStates = {"delivered", "deferred", "bounced", "failed"}
INVARIANTS
  AcceptedAtMostOnce
  NoDeadLinkInDelivery
  EnvelopeOnlyWhilePending
PROPERTIES
  SettledStaysSettled
  EveryEmailSettles
CHECK_DEADLOCK FALSE
