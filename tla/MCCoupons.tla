----------------------------- MODULE MCCoupons ------------------------------
(* Small instances of Coupons: up to three checkouts of one sub-order each,  *)
(* or two of one and two sub-orders, all of one customer.                    *)
EXTENDS Coupons, TLC

CONSTANTS Solo, Twins  \* orders alone in their group, orders that share one

Grouping == [o \in SubOrders |-> IF o \in Twins THEN "twins" ELSE o]
OneCustomer == [g \in {Grouping[o] : o \in SubOrders} |-> "u1"]

SomeLimits == {1, 2}

Symmetry == Permutations(Tasks) \cup Permutations(Solo) \cup Permutations(Twins)

=============================================================================
