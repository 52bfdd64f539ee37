------------------------------ MODULE MCCoins -------------------------------
(* Small instances of Coins: one or two orders that earn 2 Xu and refund 1,  *)
(* and checkouts that ask for 1 or 3.                                        *)
EXTENDS Coins, TLC

Two == [o \in CoinOrders |-> 2]
One == [o \in CoinOrders |-> 1]

Symmetry == Permutations(CoinOrders) \cup Permutations(Callers)

=============================================================================
