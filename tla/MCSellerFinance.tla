-------------------------- MODULE MCSellerFinance ---------------------------
(* Small instances of SellerFinance: one seller whose order is charged,      *)
(* reversed and paid out by handlers that race each other.                   *)
EXTENDS SellerFinance, TLC

CONSTANTS paying, free

OneSeller == [o \in Orders |-> CHOOSE s \in Sellers : TRUE]

\* free is an order whose base is nothing (fully paid by coupon and Xu).
SmallGross == [o \in Orders |-> IF o = paying THEN 15 ELSE 0]

Symmetry == Permutations(Requests) \cup Permutations(Withdrawals)

=============================================================================
