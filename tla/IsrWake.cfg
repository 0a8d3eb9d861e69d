SPECIFICATION WakeSpec
CONSTANTS
  SwHolds = {}
  HwHolds = {h1}
  IsrHolds = {i1}
  s1 = s1
  s2 = s2
  h1 = h1
  i1 = i1
  StartDelay = 1
  AckDelay = 2
  HwDelays = {1}
  IsrDelay = 3
  AwakeDelay = 1
  MaxDeferred = 3
INVARIANT IsrWakesSimulation
CHECK_DEADLOCK FALSE
