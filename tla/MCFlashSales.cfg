SPECIFICATION Spec
CONSTANTS
  c1 = c1
  c2 = c2
  Announced <- TwoDeals
  Campaigns = {c1, c2}
  Items = {i1, i2}
  Variants = {v1}
  Quantities = {1, 2}
  Windows <- TwoWindows
  Patches <- OneFieldPatches
  MaxTime = 3
  Requests = {r1, r2}
  MaxRequests = 3
SYMMETRY Symmetry
INVARIANTS
  SoldWithinQuota
  ApprovedAsReviewed
  OnePricePerVariant
CHECK_DEADLOCK FALSE
