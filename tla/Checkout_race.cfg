CONSTANTS
  Payments = {p1, p2, p3}
  Carts <- AllCarts
  Quota = 2
  MaxRedemptions = 1
  FirstOrderOnly = FALSE
  Price = 2
  Discount = 1
  Initial = 3
  MaxFaults = 1
SPECIFICATION Spec
SYMMETRY Symmetry
INVARIANTS
  BalanceFollowsJournal
  RedemptionsAreCounted

  
CHECK_DEADLOCK FALSE
