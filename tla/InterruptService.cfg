SPECIFICATION FairSpec
CONSTANTS
  v1 = v1
  v2 = v2
  p1 = p1
  p2 = p2
  NoVector = NoVector
  Vectors = {v1, v2}
  Services = {p1, p2}
  Default = p1
  Calls = {"enable", "disable", "register"}
  MaxQueue = 2
INVARIANTS PendingAccounted MixedOnlyInHand
PROPERTIES KillJoins QueuedIsServed
CHECK_DEADLOCK FALSE
