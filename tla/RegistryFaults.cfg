SPECIFICATION PastSpec
CONSTANTS
  Calls = {k1, k2, k3, k4}
  Made = {k1, k2}
  Refused = {k4}
  Ops <- AllOps
  None = None
  MayFail = TRUE
  MayCancel = TRUE
  KnownEarly = TRUE
  Structured = FALSE
INVARIANTS
  TypeOK
  RaisedCreateLeavesNoClaim
PROPERTIES
  CloseClosesWhatItClears
  EveryCallReturns
CHECK_DEADLOCK FALSE
