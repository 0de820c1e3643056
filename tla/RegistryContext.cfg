SPECIFICATION Spec
CONSTANTS
  Calls = {k1, k2, k3, k4, k5}
  Ops <- InContext
  Made = {}
  Refused = {}
  None = None
  MayFail = FALSE
  MayCancel = FALSE
  KnownEarly = TRUE
  Structured = TRUE
SYMMETRY Symmetry
INVARIANTS
  ExitLeavesNoClaim
PROPERTIES
  ImplementsLease
CHECK_DEADLOCK FALSE
