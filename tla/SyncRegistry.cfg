SPECIFICATION FairSpec
CONSTANTS
  MaxCalls = 3
  Foreign = {f}
  MaxFaults = 1
  MaxInterrupts = 1
INVARIANTS
  TypeOK
  OpenIsTracked
  ExitLeavesNoClaim
PROPERTIES
  EveryCallReturns
  ImplementsLease
CHECK_DEADLOCK FALSE
