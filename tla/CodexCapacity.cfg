SPECIFICATION Spec
CONSTANTS
  Creds = {c1}
  MaxTurns = 3
  MaxDispatch = 3
  MaxDeaths = 1
  MaxEdits = 1
  MaxGoal = 2
INVARIANTS CapacityTypeOK NudgeNotBaselined
PROPERTIES WaitReplacesContinuation LossFencedFromSuccessor 
CHECK_DEADLOCK FALSE
