------------------------------ MODULE Coupons -------------------------------
(***************************************************************************)
(* The uses of one coupon: coupon.service.ts over coupons.current_uses and *)
(* coupon_usages, with the checkout that records a use and the             *)
(* cancellation that reverses it.  One shop's coupon discounts one         *)
(* sub-order of a checkout; a platform coupon discounts any of them, with  *)
(* a usage row for each and one count for all.                             *)
(*                                                                         *)
(* A checkout validates before its transaction and records inside it.  A   *)
(* cancellation awaits one statement after the other without one.          *)
(***************************************************************************)
EXTENDS Integers, FiniteSets

CONSTANTS
  SubOrders,
  Group,       \* [SubOrders -> order_group_id]: the sub-orders of a checkout
  Customer,    \* [order_group_id -> user_id]
  Kinds,       \* subset of {"shop", "platform"}: the coupons considered
  MaxPerUser,  \* max_uses_per_user
  Limits,      \* values max_uses may be given
  MaxOverwrites, \* bound: cancellations overwritten
  Tasks        \* checkouts, cancellations in flight

Unlimited == -1

Groups == {Group[o] : o \in SubOrders}
Members(g) == {o \in SubOrders : Group[o] = g}

ASSUME CouponAssumption ==
  /\ Customer \in [Groups -> {Customer[g] : g \in Groups}]
  /\ Kinds \subseteq {"shop", "platform"}
  /\ MaxPerUser \in Nat \ {0}
  /\ Limits \subseteq (Nat \ {0}) \cup {Unlimited}
  /\ MaxOverwrites \in Nat
  /\ IsFiniteSet(SubOrders) /\ IsFiniteSet(Tasks)

VARIABLES
  kind,         \* whose coupon it is: coupons.shop_id, or NULL
  maxUses,      \* coupons.max_uses
  currentUses,  \* coupons.current_uses
  usage,        \* [SubOrders -> UsageStatus]  coupon_usages.status of the order's row
  placed,       \* checkouts committed
  cancelled,    \* orders with status `cancelled`
  task,         \* [Tasks -> CouponJob]
  widest,       \* history: the largest max_uses there has been
  lost,         \* history: decrements a failure prevented
  reopened,     \* history: orders that had to lose their discount when another status
                \* write overwrote a cancellation
  overwrites    \* how many cancellations were overwritten

couponVars == <<kind, maxUses, currentUses, usage, placed, cancelled, task, widest, lost, reopened, overwrites>>

UsageStatus == {"none", "applied", "reversed"}

NoJob == [op |-> "idle"]

\* A handler's next await.  flipped: reverseIfApplied has returned true.
CouponJob ==
  {NoJob}
  \cup [op : {"count", "commit", "all", "findGroup"}, group : Groups]
  \cup [op : {"cancel", "findOrder"}, order : SubOrders]
  \cup [op : {"flip"}, todo : SUBSET SubOrders, flipped : BOOLEAN]

CouponTypeOK ==
  /\ kind \in Kinds
  /\ maxUses \in Nat \cup {Unlimited}
  /\ currentUses \in Nat
  /\ usage \in [SubOrders -> UsageStatus]
  /\ placed \subseteq Groups
  /\ cancelled \subseteq SubOrders
  /\ task \in [Tasks -> CouponJob]
  /\ widest \in Nat \cup {Unlimited}
  /\ lost \in Nat
  /\ reopened \subseteq SubOrders
  /\ overwrites \in 0 .. MaxOverwrites

CouponInit ==
  /\ kind \in Kinds
  /\ maxUses \in Limits
  /\ currentUses = 0
  /\ usage = [o \in SubOrders |-> "none"]
  /\ placed = {}
  /\ cancelled = {}
  /\ task = [r \in Tasks |-> NoJob]
  /\ widest = maxUses
  /\ lost = 0
  /\ reopened = {}
  /\ overwrites = 0

-----------------------------------------------------------------------------
Applied(os) == {o \in os : usage[o] = "applied"}

\* Checkouts with an applied use.  A use that was reversed stays so when a stale status
\* write reopens its order, which keeps its price: such a checkout is not counted here.
Live == {g \in Groups : Applied(Members(g)) # {}}

\* countActiveByUserAndCoupon: distinct groups.
UsesOf(user) == Cardinality({g \in Live : Customer[g] = user})

Exhausted == maxUses # Unlimited /\ currentUses >= maxUses

\* With the orders os cancelled o loses its discount: a shop's coupon with the order, a
\* platform coupon with all the orders of the checkout.
Forfeits(o, os) == IF kind = "shop" THEN o \in os ELSE Members(Group[o]) \subseteq os

Goto(r, job) == task' = [task EXCEPT ![r] = job]

-----------------------------------------------------------------------------
(* Checkout. *)

\* validateCoupon reads the coupon.
ReadCoupon(r, g) ==
  /\ task[r] = NoJob
  /\ g \notin placed
  /\ \A s \in Tasks : task[s].op \in {"count", "commit"} => task[s].group # g
  /\ ~Exhausted
  /\ Goto(r, [op |-> "count", group |-> g])
  /\ UNCHANGED <<kind, maxUses, currentUses, usage, placed, cancelled, widest, lost, reopened, overwrites>>

\* validateCoupon counts the customer's uses, still outside the transaction.
CountUses(r) ==
  LET g == task[r].group IN
  /\ task[r].op = "count"
  /\ IF UsesOf(Customer[g]) >= MaxPerUser
     THEN Goto(r, NoJob)
     ELSE Goto(r, [op |-> "commit", group |-> g])
  /\ UNCHANGED <<kind, maxUses, currentUses, usage, placed, cancelled, widest, lost, reopened, overwrites>>

\* Mutant: current_uses is incremented without looking at max_uses again.
CommitUnguarded(r) ==
  /\ task[r].op = "commit"
  /\ \E os \in SUBSET Members(task[r].group) :
       /\ os # {}
       /\ kind = "shop" => Cardinality(os) = 1
       /\ usage' = [o \in SubOrders |-> IF o \in os THEN "applied" ELSE usage[o]]
  /\ currentUses' = currentUses + 1
  /\ placed' = placed \cup {task[r].group}
  /\ Goto(r, NoJob)
  /\ UNCHANGED <<kind, maxUses, cancelled, widest, lost, reopened, overwrites>>

\* Mutant: every sub-order increments current_uses.
CommitCountingRows(r) ==
  /\ task[r].op = "commit"
  /\ IF Exhausted
     THEN UNCHANGED <<currentUses, usage, placed>>
     ELSE /\ \E os \in SUBSET Members(task[r].group) :
               /\ os # {}
               /\ kind = "shop" => Cardinality(os) = 1
               /\ usage' = [o \in SubOrders |-> IF o \in os THEN "applied" ELSE usage[o]]
               /\ currentUses' = currentUses + Cardinality(os)
          /\ placed' = placed \cup {task[r].group}
  /\ Goto(r, NoJob)
  /\ UNCHANGED <<kind, maxUses, cancelled, widest, lost, reopened, overwrites>>

\* recordUsage for every sub-order discounted, in the checkout's transaction:
\* the guarded increment locks the coupon until the commit.  When it finds the
\* coupon used up everything is rolled back (COUPON_003).
Commit(r) ==
  /\ task[r].op = "commit"
  /\ IF Exhausted
     THEN UNCHANGED <<currentUses, usage, placed>>
     ELSE /\ \E os \in SUBSET Members(task[r].group) :
               /\ os # {}
               /\ kind = "shop" => Cardinality(os) = 1
               /\ usage' = [o \in SubOrders |-> IF o \in os THEN "applied" ELSE usage[o]]
          /\ currentUses' = currentUses + 1
          /\ placed' = placed \cup {task[r].group}
  /\ Goto(r, NoJob)
  /\ UNCHANGED <<kind, maxUses, cancelled, widest, lost, reopened, overwrites>>

-----------------------------------------------------------------------------
(* Cancellation and handleCouponReversalOnCancel. *)

\* Several handlers may have read the order before any of them cancels it.
BeginCancel(r, o) ==
  /\ task[r] = NoJob
  /\ Group[o] \in placed
  /\ o \notin cancelled
  /\ Goto(r, [op |-> "cancel", order |-> o])
  /\ UNCHANGED <<kind, maxUses, currentUses, usage, placed, cancelled, widest, lost, reopened, overwrites>>

CancelOrder(r) ==
  /\ task[r].op = "cancel"
  /\ cancelled' = cancelled \cup {task[r].order}
  /\ Goto(r, [op |-> "findOrder", order |-> task[r].order])
  /\ UNCHANGED <<kind, maxUses, currentUses, usage, placed, widest, lost, reopened, overwrites>>

\* updateOrderStatus and updateSellerOrderStatus UPDATE by id what they checked some
\* time before: an order confirmed by a handler that read it as pending lives again,
\* before, between or after the steps of its reversal.
OverwriteCancellation(o) ==
  /\ overwrites < MaxOverwrites /\ overwrites' = overwrites + 1
  /\ o \in cancelled
  /\ cancelled' = cancelled \ {o}
  /\ reopened' = reopened \cup {p \in SubOrders :
                     Forfeits(p, cancelled) /\ ~Forfeits(p, cancelled \ {o})}
  /\ UNCHANGED <<kind, maxUses, currentUses, usage, placed, task, widest, lost>>

\* reverseOrderShopCoupons looks for the order's usages of shops' coupons; a
\* platform coupon is left to the question whether the whole group is cancelled.
FindOrderUsages(r) ==
  LET o == task[r].order IN
  /\ task[r].op = "findOrder"
  /\ CASE kind = "platform" -> Goto(r, [op |-> "all", group |-> Group[o]])
       [] kind = "shop" /\ Applied({o}) = {} -> Goto(r, NoJob)
       [] OTHER -> Goto(r, [op |-> "flip", todo |-> {o}, flipped |-> FALSE])
  /\ UNCHANGED <<kind, maxUses, currentUses, usage, placed, cancelled, widest, lost, reopened, overwrites>>

\* Mutant: the platform coupon is reversed with the first cancelled sub-order.
AskWithoutWaiting(r) ==
  /\ task[r].op = "all"
  /\ Goto(r, [op |-> "findGroup", group |-> task[r].group])
  /\ UNCHANGED <<kind, maxUses, currentUses, usage, placed, cancelled, widest, lost, reopened, overwrites>>

\* areAllGroupOrdersCancelled.
AskAllCancelled(r) ==
  LET g == task[r].group IN
  /\ task[r].op = "all"
  /\ IF Members(g) \subseteq cancelled
     THEN Goto(r, [op |-> "findGroup", group |-> g])
     ELSE Goto(r, NoJob)
  /\ UNCHANGED <<kind, maxUses, currentUses, usage, placed, cancelled, widest, lost, reopened, overwrites>>

\* reverseGroupPlatformCoupon looks for the group's usages.
FindGroupUsages(r) ==
  LET found == Applied(Members(task[r].group)) IN
  /\ task[r].op = "findGroup"
  /\ IF found = {} THEN Goto(r, NoJob)
     ELSE Goto(r, [op |-> "flip", todo |-> found, flipped |-> FALSE])
  /\ UNCHANGED <<kind, maxUses, currentUses, usage, placed, cancelled, widest, lost, reopened, overwrites>>

\* Mutant: the UPDATE has no `status = applied`, so it always affects a row.
ReverseAlways(r) ==
  /\ task[r].op = "flip"
  /\ \E o \in task[r].todo :
       /\ usage' = [usage EXCEPT ![o] = "reversed"]
       /\ Goto(r, [op |-> "flip", todo |-> task[r].todo \ {o}, flipped |-> TRUE])
  /\ UNCHANGED <<kind, maxUses, currentUses, placed, cancelled, widest, lost, reopened, overwrites>>

\* reverseIfApplied, a guarded UPDATE.
ReverseIfApplied(r) ==
  /\ task[r].op = "flip"
  /\ \E o \in task[r].todo :
       /\ usage' = [usage EXCEPT ![o] = "reversed"]
       /\ Goto(r, [op |-> "flip", todo |-> task[r].todo \ {o},
                   flipped |-> task[r].flipped \/ usage[o] = "applied"])
  /\ UNCHANGED <<kind, maxUses, currentUses, placed, cancelled, widest, lost, reopened, overwrites>>

\* decrementUsage, if any usage was flipped; current_uses stops at zero.
DecrementUsage(r) ==
  /\ task[r].op = "flip" /\ task[r].todo = {}
  /\ currentUses' = IF task[r].flipped /\ currentUses > 0 THEN currentUses - 1 ELSE currentUses
  /\ Goto(r, NoJob)
  /\ UNCHANGED <<kind, maxUses, usage, placed, cancelled, widest, lost, reopened, overwrites>>

-----------------------------------------------------------------------------
Wider(m, n) == IF m = Unlimited \/ n = Unlimited THEN Unlimited ELSE IF m >= n THEN m ELSE n

\* updateCoupon: the limit may go up, or down below what is used.
UpdateCoupon(n) ==
  /\ n # maxUses
  /\ maxUses' = n
  /\ widest' = Wider(widest, n)
  /\ UNCHANGED <<kind, currentUses, usage, placed, cancelled, task, lost, reopened, overwrites>>

\* A statement throws, a checkout rolls back or the process dies.
CouponFail(r) ==
  /\ task[r] # NoJob
  /\ Goto(r, NoJob)
  /\ lost' = IF task[r].op = "flip" /\ task[r].flipped THEN lost + 1 ELSE lost
  /\ UNCHANGED <<kind, maxUses, currentUses, usage, placed, cancelled, widest, reopened, overwrites>>

Checkout(r) == (\E g \in Groups : ReadCoupon(r, g)) \/ CountUses(r) \/ Commit(r)

Cancellation(r) ==
  \/ \E o \in SubOrders : BeginCancel(r, o)
  \/ CancelOrder(r)
  \/ FindOrderUsages(r) \/ AskAllCancelled(r) \/ FindGroupUsages(r)
  \/ ReverseIfApplied(r) \/ DecrementUsage(r)

CouponNext ==
  \/ \E r \in Tasks : Checkout(r) \/ Cancellation(r) \/ CouponFail(r)
  \/ \E o \in SubOrders : OverwriteCancellation(o)
  \/ \E n \in Limits : UpdateCoupon(n)

CouponSpec == CouponInit /\ [][CouponNext]_couponVars

-----------------------------------------------------------------------------
(* Safety. *)

\* Reversals that will still decrement current_uses, or failed before they did.
Owed == Cardinality({r \in Tasks : task[r].op = "flip" /\ task[r].flipped}) + lost

\* A shop's coupon counts exactly the checkouts with an applied use, and those whose
\* reversal is under way, whichever cancellations, stale status writes and retries overlap.
CountIsExact == kind = "shop" => currentUses = Cardinality(Live) + Owed

\* No use is leaked: what current_uses counts beyond the checkouts with an applied
\* use is given back by a reversal that is under way, unless it failed.  Platform
\* coupons promise no more, see CountCoversLive.
NoUseLeaked == currentUses <= Cardinality(Live) + Owed

\* However checkouts race for the last use, no more of them have an applied use of a
\* shop's coupon than the largest limit it was ever given.
LiveWithinLimit ==
  kind = "shop" => widest = Unlimited \/ Cardinality(Live) <= widest

\* A customer loses a discount only by cancelling: a shop's coupon is reversed with
\* its order, a platform coupon when every order of the checkout is cancelled.  What is
\* lost then stays lost when a stale status write reopens an order.
ReversedIsCancelled ==
  \A o \in SubOrders : usage[o] = "reversed" => Forfeits(o, cancelled) \/ o \in reopened

-----------------------------------------------------------------------------
(* What the comments and docs say of coupons, and the code does not keep. *)

\* coupon.service.ts:379 "Global count is decremented once per coupon": a platform
\* coupon is counted as long as it discounts a checkout.
CountCoversLive == currentUses >= Cardinality(Live)

\* API_SPEC.md:111 COUPON_004: a customer uses a coupon at most MaxPerUser times.
PerUserLimit == \A g \in Live : UsesOf(Customer[g]) <= MaxPerUser

=============================================================================
