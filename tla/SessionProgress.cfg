SPECIFICATION FairSpec
CONSTANTS
  MaxTurns = 2
  MaxRedispatches = 1
  Slots = {s1, s2}
  MaxAsks = 1
  MaxApprovals = 2
  Faults <- ProgressFaults
CHECK_DEADLOCK FALSE
  
PROPERTIES DyingAttemptFenced 
