SPECIFICATION Spec
CONSTANTS
  v1 = v1
  v2 = v2
  Variants = {v1, v2}
  Shop <- OwnShop
  Starting <- FewLeft
  Quota <- FlashQuota
  CartIds = {c1, c2}
  Lines = {l1, l2, l3}
  Orders = {o1, o2}
  Requests = {r1, r2}
  MaxQuantity = 1
  MaxRequests = 3
SYMMETRY Symmetry
INVARIANTS
  SoldIsLive
  StockIsExact
  CartIsKept
PROPERTIES
  BuysAllOrNothing
CHECK_DEADLOCK FALSE
