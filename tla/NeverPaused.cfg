SPECIFICATION Spec
CONSTANTS
  Dogs = {d1, d2}
  NumTicks = 4
INVARIANT
  PausedMeansScaledDown
CHECK_DEADLOCK FALSE
