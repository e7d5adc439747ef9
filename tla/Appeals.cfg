SPECIFICATION FairAppealsSpec
CONSTANTS
  People = {1, 2, 3, 4}
  Level5 = {1, 3}
  Editors = {3}
  ReviewerCount = 2
  MaxAttempts = 2
  MaxEvents = 1
CHECK_DEADLOCK FALSE
INVARIANTS
  OutcomeFollowsVotes
PROPERTIES
  ResolvedIsBacked
  ClosedIsSealed
  EveryAppealCloses
