SPECIFICATION Spec
CONSTANTS
  NumRuns = 1
  NameChoices <- TwoDogs
  NumTicks = 2
  MaxAttempts = 2
  SdkHasClient = TRUE
  LateBinding = TRUE
  NoEntry = NoEntry
  Creating = Creating
INVARIANTS
  OrchestratorInv
CHECK_DEADLOCK FALSE
