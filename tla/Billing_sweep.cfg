CONSTANTS
  Owners = {u}
  Sweepers = {s}
  MaxInvoices = 2
  MaxFree = 1
  MaxOrders = 1
  MaxBillFaults = 1
SPECIFICATION FairBillingSpec
PROPERTIES
  PaidIsActivated
  DebtSuspends
  LapsedIsBilled
  SuspendedForDebt
CHECK_DEADLOCK FALSE
