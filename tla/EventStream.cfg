SPECIFICATION FairSpec
CONSTANTS
  MaxEvents = 4
  MaxBatch = 2
  PageSize = 2
  MaxFaults = 2
  MaxGarbles = 1
INVARIANTS
  EventTypeOK
  ServerSkipsNothing
PROPERTIES
  ImplementsDelivery
  StreamHeals
CHECK_DEADLOCK FALSE
