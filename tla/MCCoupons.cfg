SPECIFICATION CouponSpec
CONSTANTS
  Solo = {o1, o2}
  Twins = {t1, t2}
  SubOrders = {o1, o2, t1, t2}
  Group <- Grouping
  Customer <- OneCustomer
  Kinds = {"shop", "platform"}
  MaxPerUser = 2
  Limits <- SomeLimits
  MaxOverwrites = 1
  Tasks = {r1, r2, r3}
SYMMETRY Symmetry
INVARIANTS
  CountIsExact
  NoUseLeaked
  LiveWithinLimit
  ReversedIsCancelled
CHECK_DEADLOCK FALSE
