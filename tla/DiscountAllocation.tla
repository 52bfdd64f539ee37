------------------------- MODULE DiscountAllocation -------------------------
(***************************************************************************)
(* How a checkout splits its discounts over its shops' sub-orders:         *)
(* utils/coupon-distribution.util.ts and allocateCoinDiscount.  A shop's   *)
(* coupon stays with its shop; the platform coupon, and then the Xu        *)
(* redeemed, are poured over the shops in rounds of allocateWithCaps, here *)
(* one step each.  Money is in minor units; one Xu is Minor of them.       *)
(***************************************************************************)
EXTENDS Integers, FiniteSets, Functions

CONSTANTS
  Shops,
  Carts,  \* the checkouts considered
  Minor   \* minor units of one Xu (MONEY_MINOR)

\* items: subtotals; applicable: what of them the platform coupon applies to;
\* own: the shop's coupon's discount; platform: the platform coupon's discount;
\* coins: Xu validated for redemption.
Cart == [items : [Shops -> Nat], applicable : [Shops -> Nat], own : [Shops -> Nat],
         platform : Nat, coins : Nat]

ASSUME AllocationAssumption ==
  /\ IsFiniteSet(Shops)
  /\ Minor \in Nat \ {0}
  /\ Carts \subseteq Cart
  /\ \A cart \in Carts : \A s \in Shops : cart.applicable[s] <= cart.items[s]

VARIABLES
  cart,
  stage,   \* what is being poured, or "done"
  weight,  \* [Shops -> Nat]
  cap,     \* [Shops -> Nat]
  given,   \* [Shops -> Nat]  the result map of allocateWithCaps
  rounds,  \* rounds begun
  share    \* [Shops -> Nat]  the platform coupon's shares, once they are known

allocationVars == <<cart, stage, weight, cap, given, rounds, share>>

Amounts == [Shops -> Nat]

AllocationTypeOK ==
  /\ cart \in Cart
  /\ stage \in {"platform", "coins", "done"}
  /\ weight \in Amounts /\ cap \in Amounts /\ given \in Amounts /\ share \in Amounts
  /\ rounds \in Nat

-----------------------------------------------------------------------------
Least(m, n) == IF m <= n THEN m ELSE n

Sum(f) == SumFunctionOnSet(f, Shops)

None == [s \in Shops |-> 0]

\* A shop's coupon discounts at most its shop's items.
Own(s) == Least(cart.own[s], cart.items[s])

\* capMinor: what applies, within the headroom the shop's coupon leaves.
PlatformCap(c, s) == Least(c.applicable[s], c.items[s] - Least(c.own[s], c.items[s]))

Discount(s) == Own(s) + share[s]

\* Whole Xu that fit into a sub-order after its coupons.
Headroom(s) == (cart.items[s] - Discount(s)) \div Minor

Target == Least(IF stage = "platform" THEN cart.platform ELSE cart.coins, Sum(cap))

Remaining == Target - Sum(given)

\* Shops that still have room.
Open == {s \in Shops : weight[s] > 0 /\ cap[s] > given[s]}

Pouring == Remaining > 0 /\ Open # {} /\ rounds < Cardinality(Shops) + 2

AllocationInit ==
  /\ cart \in Carts
  /\ stage = "platform"
  /\ weight = cart.applicable
  /\ cap = [s \in Shops |-> PlatformCap(cart, s)]
  /\ given = None
  /\ rounds = 0
  /\ share = None

-----------------------------------------------------------------------------
TotalWeight == SumFunctionOnSet(weight, Open)
Floor(s) == (Remaining * weight[s]) \div TotalWeight
Frac(s) == (Remaining * weight[s]) % TotalWeight
Leftover == Remaining - SumFunctionOnSet([s \in Open |-> Floor(s)], Open)

\* The shops with the largest remainders, which get one unit more.
LargestRemainders(bumped) ==
  /\ bumped \subseteq Open
  /\ Cardinality(bumped) = Leftover
  /\ \A s \in bumped, t \in Open \ bumped : Frac(s) >= Frac(t)

\* Mutant: a round does not look at the caps.
RoundUncapped ==
  /\ stage # "done"
  /\ Pouring
  /\ \E bumped \in SUBSET Open :
       /\ LargestRemainders(bumped)
       /\ given' = [s \in Shops |->
            IF s \in Open THEN given[s] + Floor(s) + (IF s \in bumped THEN 1 ELSE 0)
                          ELSE given[s]]
  /\ rounds' = rounds + 1
  /\ UNCHANGED <<cart, stage, weight, cap, share>>

\* Mutant: the remainders of the division are dropped.
RoundDown ==
  /\ stage # "done"
  /\ Pouring
  /\ given' = [s \in Shops |-> IF s \in Open THEN given[s] + Least(Floor(s), cap[s] - given[s])
                                             ELSE given[s]]
  /\ rounds' = rounds + 1
  /\ UNCHANGED <<cart, stage, weight, cap, share>>

\* Mutant: a round fills one shop before the next.
RoundGreedy ==
  /\ stage # "done"
  /\ Pouring
  /\ \E s \in Open : given' = [given EXCEPT ![s] = @ + Least(Remaining, cap[s] - @)]
  /\ rounds' = rounds + 1
  /\ UNCHANGED <<cart, stage, weight, cap, share>>

\* One round of allocateWithCaps: split what remains by weight with largest
\* remainders, and give each shop at most its room.
Round ==
  /\ stage # "done"
  /\ Pouring
  /\ \E bumped \in SUBSET Open :
       /\ LargestRemainders(bumped)
       /\ given' = [s \in Shops |->
            IF s \in Open
            THEN given[s] + Least(Floor(s) + (IF s \in bumped THEN 1 ELSE 0), cap[s] - given[s])
            ELSE given[s]]
  /\ rounds' = rounds + 1
  /\ UNCHANGED <<cart, stage, weight, cap, share>>

\* The coupons are distributed; allocateCoinDiscount takes the whole headroom as
\* weight and cap.
DistributeCoins ==
  /\ stage = "platform"
  /\ ~Pouring
  /\ stage' = "coins"
  /\ share' = given
  /\ weight' = [s \in Shops |-> (cart.items[s] - Own(s) - given[s]) \div Minor]
  /\ cap' = weight'
  /\ given' = None
  /\ rounds' = 0
  /\ UNCHANGED cart

Finish ==
  /\ stage = "coins"
  /\ ~Pouring
  /\ stage' = "done"
  /\ UNCHANGED <<cart, weight, cap, given, rounds, share>>

AllocationNext == Round \/ DistributeCoins \/ Finish

AllocationSpec == AllocationInit /\ [][AllocationNext]_allocationVars

-----------------------------------------------------------------------------
\* The shops' totals are never negative: what a sub-order loses to its own coupon,
\* to its share of the platform coupon and to its share of the Xu is at most what
\* its items cost (allocateWithCaps' caps, allocateCoinDiscount's headroom).
NoNegativeTotal ==
  \A s \in Shops :
    IF stage = "platform" THEN Own(s) + given[s] <= cart.items[s]
                          ELSE Discount(s) + Minor * given[s] <= cart.items[s]

\* Nothing of a discount is lost to rounding or to a shop that cannot take its
\* part: an allocation that has stopped gave exactly what was asked, or all there
\* was room for.
NothingLost ==
  /\ stage # "platform" =>
       Sum(share) = Least(cart.platform, Sum([s \in Shops |-> PlatformCap(cart, s)]))
  /\ stage = "done" => Sum(given) = Least(cart.coins, Sum(cap))

\* The waterfall needs no more rounds than there are shops, so the guard of the
\* loop of allocateWithCaps never cuts it short.
RoundsBounded == rounds <= Cardinality(Shops)

\* A shop that could have taken more gets at least its part of a discount in
\* proportion to its weight, whatever the other shops' caps force on the rounds.
FairShare ==
  LET all == Sum(weight)
  IN rounds > 0 =>
       \A s \in Shops : given[s] < cap[s] => given[s] >= (Target * weight[s]) \div all
=============================================================================
