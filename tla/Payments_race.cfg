CONSTANTS
  Payments = {p1}
  LivePayments = {p1}
  ApiHandlers = {a1, a2}
  Workers = {w1}
  Effects <- FewEffects
  MaxFaults = 1
SPECIFICATION Spec
SYMMETRY Symmetry
INVARIANTS
  EffectsOncePerCapture
  
  CancelMeansCancelled
PROPERTY ImplementsMachine
CHECK_DEADLOCK FALSE
