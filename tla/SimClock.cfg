SPECIFICATION FairSpec
CONSTANTS
  Clocks = {c1, c2}
  Params <- FourParams
  Cycles = {0, 2}
  DefaultPeriod = 4
  LifeCycle = 1
  W = 8
INVARIANTS LeftIsDue ResetPin
PROPERTIES EdgesOnTime ResetsEnd
