SPECIFICATION FairSpec
CONSTANTS
  MaxPods = 2
  MaxTriggers = 2
  MaxCalls = 3
  MaxFaults = 2
  MaxRetries = 2
  SavedIsReady = TRUE
INVARIANTS
  TypeOK
  SuspendedPodIsGone
  ResumeIsUpToDate
  DeletionIsConfirmed
  TriggersAreRemembered
PROPERTIES
  TerminateReachesTheClaim
CHECK_DEADLOCK FALSE
