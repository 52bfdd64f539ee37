SPECIFICATION DeliveredSpec
CONSTANTS
  o1 = o1
  o2 = o2
  Orders = {o1, o2}
  Group <- OneGroup
  Method <- MixedMethods
  Shippers = {s1}
  NoShipper = NoShipper
  Requests = {r1, r2}
  MaxRequests = 2
  Scheduler = Scheduler
INVARIANT SettledAtRest
PROPERTY DeliveredEnds
CHECK_DEADLOCK FALSE
