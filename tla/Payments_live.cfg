CONSTANTS
  Payments = {p1}
  LivePayments = {p1}
  ApiHandlers = {a1}
  Workers = {w1}
  Effects <- FewEffects
  MaxFaults = 1
SPECIFICATION FairSpec
PROPERTIES
  OverdueIsClosed
  CaptureIsServed
CHECK_DEADLOCK FALSE
