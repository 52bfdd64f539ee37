SPECIFICATION AllocationSpec
CONSTANTS
  s1 = s1
  s2 = s2
  s3 = s3
  Shops = {s1, s2, s3}
  Carts <- Possible
  Minor = 2
  MaxItems = 5
  MaxDiscount = 7
  MaxCoins = 5
INVARIANTS NoNegativeTotal NothingLost FairShare
CHECK_DEADLOCK FALSE
