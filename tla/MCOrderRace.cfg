SPECIFICATION Spec
CONSTANTS
  o1 = o1
  o2 = o2
  Orders = {o1}
  Group <- OneGroup
  Method <- MixedMethods
  Shippers = {s1, s2}
  NoShipper = NoShipper
  Requests = {r1, r2}
  MaxRequests = 6
  Scheduler = Scheduler
SYMMETRY Symmetry
INVARIANTS
  MoneyNeedsDelivery
PROPERTIES
  ShipperKept
CHECK_DEADLOCK FALSE
