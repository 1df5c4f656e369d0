CONSTANTS
  Payments = {p1, p2}
  Amount <- OneIsSmall
  MaxDay = 2
  Workers = {w1}
  Admins = {a1, a2}
  Asked = {1, 2, 3, 4}
  Take = 2
  Scale = 2
  Rate = 1
  Tol = 1
  MaxFaults = 1
SPECIFICATION Spec
SYMMETRY Symmetry
INVARIANTS
  CountedOnce
  RefundsNotOverstated
  
  PayoutsCovered
CHECK_DEADLOCK FALSE
