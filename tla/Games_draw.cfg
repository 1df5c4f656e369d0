CONSTANTS
  Cards = {c1}
  Requests = {r1, r2}
  Prizes = {mug, points}
  PointPrizes = {points}
  NoPrize = NoPrize
  Endless = {points}
  MaxStock = 1
  Attempts = 2
  MaxGameFaults = 1
SPECIFICATION GamesSpec
INVARIANTS
  NoOverAward
  AwardsAreCounted
  
CHECK_DEADLOCK FALSE
