SPECIFICATION FairSpec
CONSTANTS
  CYCLE = 3
  MaxRuns = 2
  MaxInts = 2
  MaxQuits = 1
  AfterQuit = FALSE
INVARIANTS
  OneByOne
  ReadsAlternate
  LeftoverHarmless
PROPERTIES
  RunEnds
CHECK_DEADLOCK FALSE
