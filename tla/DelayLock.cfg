SPECIFICATION FairSpec
CONSTANTS
  SwHolds = {s1, s2}
  HwHolds = {h1}
  IsrHolds = {i1}
  s1 = s1
  s2 = s2
  h1 = h1
  i1 = i1
  StartDelay = 1
  AckDelay = 2
  HwDelays = {1}
  IsrDelay = 2
  AwakeDelay = 1
  MaxDeferred = 3
INVARIANTS IInv NoSleepWhileHeld NoStrandedDeferral
PROPERTIES LeaveOnlyWhenIdle GateSpec KillJoins HeldGetsClock QuietSleeps
CHECK_DEADLOCK FALSE
