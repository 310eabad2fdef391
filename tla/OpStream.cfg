SPECIFICATION Spec
CONSTANTS
  MaxAttempts = 2
  MaxData = 1
  Window = 1
  Quota = 4
  MaxTicks = 0
  MaxFaults = 1
INVARIANTS OpTypeOK SuccessorCanCollect
PROPERTY ImplementsRemoteCommand
CHECK_DEADLOCK FALSE
