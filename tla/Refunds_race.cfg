CONSTANTS
  Amount = 2
  Keys = {k1}
  NoKey = NoKey
  Handlers = {h1, h2}
  MaxFaults = 1
SPECIFICATION FairSpec
INVARIANTS
  RefundsAddUp
  OneRefundPerKey
PROPERTIES
  ImplementsAccount
  FullRefundCloses
  EachRefundIsAnnounced
CHECK_DEADLOCK FALSE
