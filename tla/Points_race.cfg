CONSTANTS
  Handlers = {h1, h2}
  Customers = {"c1"}
  Payments = {p1, p2}
  Vouchers = {v1, v2}
  Owner <- OneOwner
  Legacy <- OldRows
  Earns = {2}
  Amounts = {2}
  Wordings = {0}
  Cost = 2
  Stock = 2
  Bonus = 2
  Budget = 3
  MaxOps = 3
SPECIFICATION Spec
SYMMETRY Symmetry
INVARIANTS
  OneJournalPerRow
  BalanceNeverNegative
CHECK_DEADLOCK FALSE
