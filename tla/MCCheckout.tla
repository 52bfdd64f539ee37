----------------------------- MODULE MCCheckout -----------------------------
(* Small instances of Checkout. *)
EXTENDS Checkout, TLC

CONSTANTS v1, v2

OwnShop == (v1 :> "s1") @@ (v2 :> "s2")
FewLeft == (v1 :> 2) @@ (v2 :> 1)
FlashQuota == (v1 :> 1) @@ (v2 :> 0)

Symmetry == Permutations(CartIds) \cup Permutations(Lines) \cup
            Permutations(Requests) \cup Permutations(Orders)

=============================================================================
