SPECIFICATION Spec
CONSTANTS
  MaxTurns = 2
  MaxRedispatches = 1
  Slots = {s1, s2}
  MaxAsks = 1
  MaxApprovals = 1
  Faults <- TurnFaults
CHECK_DEADLOCK FALSE
INVARIANT SessionTypeOK
PROPERTY UserCancelIsFinal
SYMMETRY SlotSymmetry
