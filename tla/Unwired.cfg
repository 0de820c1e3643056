SPECIFICATION Spec
CONSTANTS
  NumRuns = 1
  NameChoices <- TwoDogs
  NumTicks = 1
  MaxAttempts = 1
  SdkHasClient = TRUE
  LateBinding = FALSE
  NoEntry = NoEntry
  Creating = Creating
INVARIANT
  EveryDogIsGivenASandbox
CHECK_DEADLOCK FALSE
