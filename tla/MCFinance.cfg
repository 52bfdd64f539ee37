SPECIFICATION Spec
CONSTANTS
  paying = paying
  free = free
  Sellers = {s1}
  Orders = {paying, free}
  SellerOf <- OneSeller
  Gross <- SmallGross
  Withdrawals = {w1, w2}
  Amounts = {5, 14}
  Rates = {0, 10}
  Requests = {r1, r2}
  MaxCalls = 4
SYMMETRY Symmetry
INVARIANTS
  DebtNeedsReversal
  HoldsAreBooked
  BooksAgree
PROPERTIES
  ImplementsLedger
CHECK_DEADLOCK FALSE
