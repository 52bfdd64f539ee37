SPECIFICATION PaymentFairSpec
CONSTANTS
  method = "momo"
  Orders = {o1, o2}
  Group <- OneGroup
  Method <- OneMethod
  Txs = {t1, t2}
  Callers = {r1, r2}
  Cron = Cron
  MaxStarted = 3
INVARIANTS
  CompletedIsCollected
  PaidIsCollected
  CompletedIsSettled
PROPERTIES
  PendingEnds
CHECK_DEADLOCK FALSE
