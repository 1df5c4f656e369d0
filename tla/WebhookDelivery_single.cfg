CONSTANTS
  Deliveries = {d1}
  Jobs = {j1, j2}
  Workers = 1
  MaxAttempts = 2
  Threshold = 1
  MaxResends = 1
  MaxFaults = 1
SPECIFICATION FairSpec
INVARIANTS
  SucceededWasAccepted
  FailedAfterAllAttempts
PROPERTIES
  PendingIsDecided
  
CHECK_DEADLOCK FALSE
