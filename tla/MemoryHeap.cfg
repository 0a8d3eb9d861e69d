SPECIFICATION Spec
CONSTANTS
  Base = 4
  Size = 9
  Requests <- AllRequests
  Areas <- SmallAreas
  NoAddress <- MinusOne
  MaxRefs = 2
  Word = 32
INVARIANTS Partition GrantsWhatFits
PROPERTIES MapSpec
