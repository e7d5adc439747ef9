SPECIFICATION FairSpec
CONSTANTS
  Events = {e1}
  Relays = {r1, r2}
  Consumers = {k1, k2}
  MaxCopies = 2
  MaxRetries = 2
CHECK_DEADLOCK FALSE
INVARIANTS
  NoSilentLoss
  HandledOneAtATime
PROPERTY EveryEventIsHandled
