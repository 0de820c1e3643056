SPECIFICATION FairSpec
CONSTANTS
  Clients = {c1, c2}
  Flaky = {c1}
  NumDogs = 2
  NumTicks = 3
INVARIANTS
  TypeOK
PROPERTIES
  EveryClientSeesTheEnd
  OnlyAGreetingTakesBack
  GoneClientIsForgotten
CHECK_DEADLOCK FALSE
