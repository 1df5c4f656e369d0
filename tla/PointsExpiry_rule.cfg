CONSTANTS
  Sizes = {1, 2, 3}
  MaxMoves = 5
SPECIFICATION HistorySpec
INVARIANTS
  RuleIsFifo
  WarnedIsWhatExpires
CHECK_DEADLOCK FALSE
