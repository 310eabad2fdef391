SPECIFICATION FairSpec
CONSTANTS
  MaxAttempts = 1
  MaxData = 1
  Window = 1
  Quota = 4
  MaxTicks = 5
  MaxFaults = 2
PROPERTY StreamEnds
CHECK_DEADLOCK FALSE
