CONSTANTS
  Payments = {p1, p2}
  Operators = {o1, o2}
  MaxFaults = 1
SPECIFICATION FairSpec
INVARIANT FlaggedIsNotPaid
PROPERTIES
  DecidedIsFinal
  PaidIsBooked
CHECK_DEADLOCK FALSE
