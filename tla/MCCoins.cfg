SPECIFICATION FairCoinSpec
CONSTANTS
  CoinOrders = {o1}
  Earn <- Two
  Discount <- One
  Wants = {1, 3}
  Callers = {r1, r2}
  Cron = Cron
  MaxBatches = 2
  MaxCoinCalls = 4
INVARIANTS
  SpentWithinIssued
  ClosedIsEmpty
  BatchesAreBooked
PROPERTIES
  ExpiredIsSwept
CHECK_DEADLOCK FALSE
