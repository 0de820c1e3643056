SPECIFICATION FairSpec
CONSTANTS
  NumRuns = 2
  NameChoices <- OneDogEach
  NumTicks = 1
  MaxAttempts = 1
  SdkHasClient = TRUE
  LateBinding = TRUE
  NoEntry = NoEntry
  Creating = Creating
INVARIANTS
  InUseIsNotReleased
  RunningMeansARun
  PendingEntryHasACreator
PROPERTIES
  EveryRunEnds
  RegisteredIsReleased
CHECK_DEADLOCK FALSE
