SPECIFICATION Spec
CONSTANTS
  Kinds = {"plain", "snapshot"}
  Modes = {"url", "gateway", "tunnel"}
  MaxEnters = 3
  MaxTriggers = 2
  MaxFaults = 3
INVARIANT TypeOK
INVARIANT NothingIsLeft
CHECK_DEADLOCK FALSE
