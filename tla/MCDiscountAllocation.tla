------------------------ MODULE MCDiscountAllocation ------------------------
(* Small instances of DiscountAllocation: every checkout of three shops whose  *)
(* amounts lie in small ranges, of which the first shop alone has a coupon.    *)
EXTENDS DiscountAllocation, TLC

CONSTANTS
  s1, s2, s3,
  MaxItems,     \* the largest subtotal
  MaxDiscount,  \* the largest platform discount
  MaxCoins      \* the largest number of Xu

Subtotals == [{s1, s2, s3} -> {1, 3, MaxItems}]

OwnCoupons == {[s \in {s1, s2, s3} |-> IF s = s1 THEN d ELSE 0] : d \in {0, 2, MaxItems + 1}}

SmallCarts ==
  {[items |-> i, applicable |-> a, own |-> o, platform |-> p, coins |-> c] :
     i \in Subtotals, a \in [{s1, s2, s3} -> {0, 2, MaxItems}], o \in OwnCoupons,
     p \in {0, 1, MaxDiscount}, c \in {0, 1, MaxCoins}}

Possible == {c \in SmallCarts : \A s \in {s1, s2, s3} : c.applicable[s] <= c.items[s]}
=============================================================================
