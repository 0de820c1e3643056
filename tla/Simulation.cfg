SPECIFICATION HistorySpec
CONSTANTS
  MaxDogs = 3
  NumTicks = 80
  SpeakBatchSize = 2
  InitNeeds <- Needs
CONSTRAINT
  PackIsShort
INVARIANTS
  TypeOK
  PlayPairsSymmetric
  OnlyTheLastIsUnmatched
  NobodyIsLeftOut
  NobodyIsStuck
  EveryStateVisited
CHECK_DEADLOCK FALSE
