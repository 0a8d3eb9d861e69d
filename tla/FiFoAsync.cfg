SPECIFICATION FairSpec
CONSTANTS
  FIFO_DEPTH = 2
  DATA = {d1, d2}
  NoData = NoData
INVARIANTS
  IInv
  SlotsApart
PROPERTIES
  SamplesWhole
  ImplementsQueue
  SidesNotice
