------------------------------ MODULE Checkout ------------------------------
(***************************************************************************)
(* OrderService.checkout and cancelOrder with what they call: the cart,    *)
(* flash-sale quotas, and the stock kept by the listeners of order.created *)
(* and order.cancelled.  Cart, prices and stock are read before the        *)
(* transaction; inside it the orders are inserted, flash units consumed    *)
(* and the cart cleared; stock moves afterwards, best effort.  Coupons and *)
(* Xu, recorded in the same transaction, have modules of their own: here   *)
(* they are one more reason for it to fail.                                *)
(***************************************************************************)
EXTENDS Carts

CONSTANTS
  Shop,    \* [Variants -> shop]
  Quota,   \* [Variants -> Nat] flash_quantity; 0: no flash item
  Orders   \* rows `orders` may get

ASSUME CheckoutAssumption ==
  /\ IsFiniteSet(Orders)
  /\ IsFiniteSet(Requests)
  /\ DOMAIN Shop = Variants
  /\ Quota \in [Variants -> Nat]

VARIABLES
  order,    \* [Orders -> [status, items] \cup {NoOrder}]
  sold,     \* [Variants -> Nat]   flash_sale_items.sold_quantity
  open,     \* variants whose approved flash item is in a live campaign
  short,    \* history: variants a deduction found too few of
  leaked,   \* history: variants some effect of which was lost in a failure
  overwritten,  \* history: variants of orders whose cancellation another status write
                \* met: a second cancellation, or one that makes the order live again
  crossed   \* history: variants in two checkouts between stock check and deduction

orderVars == <<order, sold, open, short, leaked, overwritten, crossed>>
vars == <<cartVars, orderVars>>

NoOrder == [status |-> "none"]

OrderItem == [line : Lines, variant : Variants, quantity : Nat \ {0}, flash : BOOLEAN]

\* A checkout's next await: check what the cart holds, take flash units, find the
\* cart, delete its lines, delete it and commit; then deduct stock.  A
\* cancellation's: write the status, give flash units back, then stock.
OrderJob ==
  [op : {"check"}, on : SUBSET Variants, items : SUBSET Item]
  \cup [op : {"consume"}, on : SUBSET Variants, items : SUBSET OrderItem,
        left : SUBSET OrderItem]
  \cup [op : {"clear"}, on : SUBSET Variants, items : SUBSET OrderItem]
  \cup [op : {"clearLines"}, on : SUBSET Variants, items : SUBSET OrderItem, cart : CartIds]
  \cup [op : {"commit"}, on : SUBSET Variants, items : SUBSET OrderItem,
        carts : SUBSET CartIds]
  \cup [op : {"deduct"}, on : SUBSET Variants, left : SUBSET OrderItem]
  \cup [op : {"cancel"}, on : SUBSET Variants, order : Orders]
  \cup [op : {"undo"}, on : SUBSET Variants, reverse : SUBSET OrderItem,
        restore : SUBSET OrderItem]

TypeOK ==
  /\ CartTypeOK
  /\ req \in [Requests -> CartJob \cup OrderJob]
  /\ order \in [Orders -> {NoOrder} \cup [status : {"live", "cancelled"},
                                         items : SUBSET OrderItem]]
  /\ sold \in [Variants -> Nat]
  /\ open \subseteq Variants
  /\ short \cup leaked \cup overwritten \cup crossed \subseteq Variants

Init ==
  /\ CartInit
  /\ order = [o \in Orders |-> NoOrder]
  /\ sold = [v \in Variants |-> 0]
  /\ open = {v \in Variants : Quota[v] > 0}
  /\ short = {}
  /\ leaked = {}
  /\ overwritten = {}
  /\ crossed = {}

Units(is, v) == SumFunctionOnSet([i \in is |-> IF i.variant = v THEN i.quantity ELSE 0], is)
FlashOf(is) == {i \in is : i.flash}
VariantsOf(is) == {i.variant : i \in is}

InTransaction == {"consume", "clear", "clearLines", "commit"}

\* Flash units an open transaction has taken; their row is locked until it ends.
Taken(r) ==
  CASE req[r].op = "consume" -> FlashOf(req[r].items) \ req[r].left
    [] req[r].op \in {"clear", "clearLines", "commit"} -> FlashOf(req[r].items)
    [] OTHER -> {}
FlashLocked(r, v) == \E s \in Requests \ {r} : v \in VariantsOf(Taken(s))

-----------------------------------------------------------------------------
(* checkout. *)

\* getCartWithItems; no line ends in CART_EMPTY.
ReadCart(r) ==
  /\ \E c \in CartsOf("user") :
       /\ LinesOf(c) # {}
       /\ Begin(r, [op |-> "check", on |-> Variants, items |-> Items(c)])
  /\ UNCHANGED <<owner, line, stock, cleared, wanted, twin, torn, orderVars>>

\* getActiveFlashPriceMap and the stock of every line, then address, coupons and
\* Xu; nothing read here is reserved or read again.
Check(r) ==
  LET is == req[r].items
      priced == {[line |-> i.line, variant |-> i.variant, quantity |-> i.quantity,
                  flash |-> i.variant \in open] : i \in is}
      next == [op |-> "consume", on |-> req[r].on, items |-> priced, left |-> FlashOf(priced)]
      others == {s \in Requests \ {r} : req[s].op \in InTransaction \cup {"deduct"}}
      pending(s) == IF req[s].op = "deduct" THEN req[s].left ELSE req[s].items
  IN
  /\ req[r].op = "check"
  /\ IF \A i \in priced : /\ i.quantity <= stock[i.variant]
                          /\ i.flash => i.quantity <= Quota[i.variant] - sold[i.variant]
     THEN /\ Goto(r, next)
          /\ crossed' = crossed \cup
               (VariantsOf(is) \cap UNION {VariantsOf(pending(s)) : s \in others})
     ELSE /\ Goto(r, Idle)
          /\ UNCHANGED crossed
  /\ UNCHANGED <<owner, line, stock, cleared, started, wanted, raced, twin, torn,
                 order, sold, open, short, leaked, overwritten>>

\* Mutant: the quota is taken outside of the checkout's transaction.
ConsumeOutside(r) ==
  /\ req[r].op = "consume"
  /\ \/ \E i \in req[r].left :
          /\ ~FlashLocked(r, i.variant)
          /\ IF i.variant \in open /\ sold[i.variant] + i.quantity <= Quota[i.variant]
             THEN /\ Goto(r, [req[r] EXCEPT !.left = @ \ {i}])
                  /\ sold' = [sold EXCEPT ![i.variant] = @ + i.quantity]
             ELSE Goto(r, Idle) /\ UNCHANGED sold
     \/ /\ req[r].left = {}
        /\ Goto(r, [op |-> "clear", on |-> req[r].on, items |-> req[r].items])
        /\ UNCHANGED sold
  /\ UNCHANGED <<owner, line, stock, cleared, started, wanted, raced, twin, torn,
                 order, open, short, leaked, overwritten, crossed>>

\* One guarded UPDATE per flash line, waiting for the row's lock; a miss
\* (FLASH_SALE_006) rolls the checkout back.
Consume(r) ==
  /\ req[r].op = "consume"
  /\ \/ \E i \in req[r].left :
          /\ ~FlashLocked(r, i.variant)
          /\ Goto(r, IF /\ i.variant \in open
                        /\ sold[i.variant] + Units(Taken(r), i.variant) + i.quantity
                             <= Quota[i.variant]
                     THEN [req[r] EXCEPT !.left = @ \ {i}]
                     ELSE Idle)
     \/ /\ req[r].left = {}
        /\ Goto(r, [op |-> "clear", on |-> req[r].on, items |-> req[r].items])
  /\ UNCHANGED <<owner, line, stock, cleared, started, wanted, raced, twin, torn, orderVars>>

\* clearCart finds the cart again, perhaps another or none.
FindCart(r) ==
  LET job == req[r] IN
  /\ job.op = "clear"
  /\ \/ \E c \in CartsOf("user") :
          Goto(r, [op |-> "clearLines", on |-> job.on, items |-> job.items, cart |-> c])
     \/ /\ CartsOf("user") = {}
        /\ Goto(r, [op |-> "commit", on |-> job.on, items |-> job.items, carts |-> {}])
  /\ UNCHANGED <<owner, line, stock, cleared, started, wanted, raced, twin, torn, orderVars>>

\* Mutant: clearCart is not given the transaction's manager.
ClearLinesOutside(r) ==
  LET job == req[r] IN
  /\ job.op = "clearLines"
  /\ line' = [l \in Lines |-> IF line[l].cart = job.cart THEN NoLine ELSE line[l]]
  /\ Goto(r, [op |-> "commit", on |-> job.on, items |-> job.items, carts |-> {job.cart}])
  /\ UNCHANGED <<owner, stock, cleared, started, wanted, raced, twin, torn, orderVars>>

\* Every line the cart holds now is deleted, ordered or not.
ClearLines(r) ==
  LET job == req[r] IN
  /\ job.op = "clearLines"
  /\ \A l \in LinesOf(job.cart) : ~Locked(l)
  /\ cleared' = [cleared EXCEPT ![r] = LinesOf(job.cart)]
  /\ Goto(r, [op |-> "commit", on |-> job.on, items |-> job.items, carts |-> {job.cart}])
  /\ UNCHANGED <<owner, line, stock, started, wanted, raced, twin, torn, orderVars>>

\* The cart's row is deleted and the transaction commits: one order per shop, the
\* flash units and the empty cart appear together.  A line added to the cart since
\* its lines were deleted fails the DELETE, and the checkout, on its foreign key.
Commit(r) ==
  LET job == req[r]
      shops == {Shop[v] : v \in VariantsOf(job.items)}
      ofShop(s) == {i \in job.items : Shop[i.variant] = s}
      kept == {l \in Lines : line[l].cart \in job.carts} \ cleared[r]
  IN
  /\ job.op = "commit"
  /\ cleared' = [cleared EXCEPT ![r] = {}]
  /\ IF kept # {}
     THEN /\ Goto(r, Idle)
          /\ UNCHANGED <<owner, line, order, sold>>
     ELSE /\ \E id \in [shops -> {o \in Orders : order[o] = NoOrder}] :
               /\ \A s, t \in shops : id[s] = id[t] => s = t
               /\ order' = [o \in Orders |->
                    IF \E s \in shops : id[s] = o
                    THEN [status |-> "live",
                          items |-> ofShop(CHOOSE s \in shops : id[s] = o)]
                    ELSE order[o]]
          /\ sold' = [v \in Variants |-> sold[v] + Units(FlashOf(job.items), v)]
          /\ owner' = [c \in CartIds |-> IF c \in job.carts THEN "nobody" ELSE owner[c]]
          /\ line' = [l \in Lines |-> IF l \in cleared[r] THEN NoLine ELSE line[l]]
          /\ Goto(r, [op |-> "deduct", on |-> {}, left |-> job.items])
  /\ UNCHANGED <<stock, started, wanted, raced, twin, torn, open, short, leaked,
                 overwritten, crossed>>

\* Mutant: the UPDATE of stock_quantity stops at zero instead of missing.
DeductFloored(r) ==
  /\ req[r].op = "deduct"
  /\ \E i \in req[r].left :
       /\ stock' = [stock EXCEPT ![i.variant] =
                      IF @ < i.quantity THEN 0 ELSE @ - i.quantity]
       /\ Goto(r, IF req[r].left = {i} THEN Idle ELSE [req[r] EXCEPT !.left = @ \ {i}])
  /\ UNCHANGED <<owner, line, cleared, started, wanted, raced, twin, torn,
                 order, sold, open, short, leaked, overwritten, crossed>>

\* order.created: a guarded UPDATE per item, whose miss is only logged.
DeductStock(r) ==
  /\ req[r].op = "deduct"
  /\ \E i \in req[r].left :
       /\ IF stock[i.variant] >= i.quantity
          THEN /\ stock' = [stock EXCEPT ![i.variant] = @ - i.quantity]
               /\ UNCHANGED short
          ELSE /\ short' = short \cup {i.variant}
               /\ UNCHANGED stock
       /\ Goto(r, IF req[r].left = {i} THEN Idle ELSE [req[r] EXCEPT !.left = @ \ {i}])
  /\ UNCHANGED <<owner, line, cleared, started, wanted, raced, twin, torn,
                 order, sold, open, leaked, overwritten, crossed>>

-----------------------------------------------------------------------------
(* cancelOrder, and the admin's and seller's status change to `cancelled`. *)

ReadOrder(r, o) ==
  /\ order[o].status = "live"
  /\ Begin(r, [op |-> "cancel", on |-> {}, order |-> o])
  /\ UNCHANGED <<owner, line, stock, cleared, wanted, twin, torn, orderVars>>

\* Mutant: flash units are given back for the order's other items too.
CancelOrderReversingAll(r) ==
  LET o == req[r].order
      is == order[o].items
  IN
  /\ req[r].op = "cancel"
  /\ order' = [order EXCEPT ![o].status = "cancelled"]
  /\ overwritten' = IF order[o].status = "cancelled" THEN overwritten \cup VariantsOf(is)
                                                     ELSE overwritten
  /\ Goto(r, [op |-> "undo", on |-> {}, reverse |-> is, restore |-> is])
  /\ UNCHANGED <<owner, line, stock, cleared, started, wanted, raced, twin, torn,
                 sold, open, short, leaked, crossed>>

\* updateStatus by id, whatever the status is by now.
CancelOrder(r) ==
  LET o == req[r].order
      is == order[o].items
  IN
  /\ req[r].op = "cancel"
  /\ order' = [order EXCEPT ![o].status = "cancelled"]
  /\ overwritten' = IF order[o].status = "cancelled" THEN overwritten \cup VariantsOf(is)
                                                     ELSE overwritten
  /\ Goto(r, [op |-> "undo", on |-> {}, reverse |-> FlashOf(is), restore |-> is])
  /\ UNCHANGED <<owner, line, stock, cleared, started, wanted, raced, twin, torn,
                 sold, open, short, leaked, crossed>>

\* updateOrderStatus and updateSellerOrderStatus UPDATE by id what they checked some
\* time before: an order confirmed by a handler that read it as pending lives again,
\* whatever its cancellation has given back.
OverwriteCancellation(o) ==
  /\ order[o].status = "cancelled"
  /\ order' = [order EXCEPT ![o].status = "live"]
  /\ overwritten' = overwritten \cup VariantsOf(order[o].items)
  /\ UNCHANGED <<cartVars, sold, open, short, leaked, crossed>>

\* FlashSaleService.reverse: never below zero.
ReverseFlash(r) ==
  /\ req[r].op = "undo"
  /\ \E i \in req[r].reverse :
       /\ ~FlashLocked(r, i.variant)
       /\ sold' = [sold EXCEPT ![i.variant] = IF @ < i.quantity THEN 0 ELSE @ - i.quantity]
       /\ Goto(r, [req[r] EXCEPT !.reverse = @ \ {i}])
  /\ UNCHANGED <<owner, line, stock, cleared, started, wanted, raced, twin, torn,
                 order, open, short, leaked, overwritten, crossed>>

\* order.cancelled, emitted when the flash units are back: stock, unconditionally.
RestoreStock(r) ==
  /\ req[r].op = "undo"
  /\ req[r].reverse = {}
  /\ \E i \in req[r].restore :
       /\ stock' = [stock EXCEPT ![i.variant] = @ + i.quantity]
       /\ Goto(r, IF req[r].restore = {i} THEN Idle ELSE [req[r] EXCEPT !.restore = @ \ {i}])
  /\ UNCHANGED <<owner, line, cleared, started, wanted, raced, twin, torn, orderVars>>

-----------------------------------------------------------------------------
\* A campaign ends or a registration is revoked (FlashSales).
EndSale(v) ==
  /\ v \in open
  /\ open' = open \ {v}
  /\ UNCHANGED <<cartVars, order, sold, short, leaked, overwritten, crossed>>

\* A call throws, two transactions deadlock, or the process dies: a transaction
\* rolls back, the effects still to come are lost.
Fail(r) ==
  /\ req[r].op \in InTransaction \cup {"check", "deduct", "cancel", "undo"}
  /\ cleared' = [cleared EXCEPT ![r] = {}]
  /\ leaked' = leaked \cup
       CASE req[r].op = "deduct" -> VariantsOf(req[r].left)
         [] req[r].op = "undo"   -> VariantsOf(req[r].restore)
         [] OTHER -> {}
  /\ Goto(r, Idle)
  /\ UNCHANGED <<owner, line, stock, started, wanted, raced, twin, torn,
                 order, sold, open, short, overwritten, crossed>>

OrderStep(r) ==
  \/ ReadCart(r) \/ Check(r) \/ Consume(r) \/ FindCart(r) \/ ClearLines(r) \/ Commit(r)
  \/ DeductStock(r)
  \/ \E o \in Orders : ReadOrder(r, o)
  \/ CancelOrder(r) \/ ReverseFlash(r) \/ RestoreStock(r)
  \/ Fail(r)

Next ==
  \/ \E r \in Requests : \/ CartStep(r) /\ UNCHANGED orderVars
                         \/ OrderStep(r)
  \/ \E o \in Orders : OverwriteCancellation(o)
  \/ \E v \in Variants : EndSale(v)

Spec == Init /\ [][Next]_vars

-----------------------------------------------------------------------------
(* Safety. *)

Placed(o) == order[o] # NoOrder

LiveUnits(v) ==
  SumFunctionOnSet([o \in Orders |-> IF order[o].status = "live" THEN Units(order[o].items, v) ELSE 0],
                   Orders)
LiveFlash(v) ==
  SumFunctionOnSet([o \in Orders |-> IF order[o].status = "live"
                                     THEN Units(FlashOf(order[o].items), v) ELSE 0],
                   Orders)
OrderedUnits(v) ==
  SumFunctionOnSet([o \in Orders |-> IF Placed(o) THEN Units(order[o].items, v) ELSE 0], Orders)
ToDeduct(v) ==
  SumFunctionOnSet([r \in Requests |-> IF req[r].op = "deduct" THEN Units(req[r].left, v) ELSE 0],
                   Requests)
ToRestore(v) ==
  SumFunctionOnSet([r \in Requests |-> IF req[r].op = "undo" THEN Units(req[r].restore, v) ELSE 0],
                   Requests)
ToReverse(v) ==
  SumFunctionOnSet([r \in Requests |-> IF req[r].op = "undo" THEN Units(req[r].reverse, v) ELSE 0],
                   Requests)

\* sold_quantity counts exactly the flash units of live orders and of those whose
\* cancellation has yet to give them back: transactions that roll back after some
\* of their UPDATEs, and campaigns that end in between, leave no trace.  Only another
\* status write that meets a cancellation can make it wrong.
SoldIsLive ==
  \A v \in Variants \ (overwritten \cup leaked) : sold[v] = LiveFlash(v) + ToReverse(v)

\* However checkouts compete and whatever fails, no more units than the quota are
\* live at the flash price, unless another status write met a cancellation of theirs:
\* the units given back are sold again, and the order may be live again.
QuotaHolds == \A v \in Variants \ overwritten : LiveFlash(v) <= Quota[v]

\* Stock moves with orders: nothing appears or vanishes while effects are on their
\* way, except when a deduction missed, an effect was lost, or another status write met
\* a cancellation (stock restored twice, or restored for an order that lives again).
StockIsExact ==
  \A v \in Variants \ (short \cup leaked \cup overwritten) :
    stock[v] + LiveUnits(v) + ToRestore(v) = Starting[v] + ToDeduct(v)

\* A checkout that no other one overtakes between its stock check and its
\* deduction sells no unit that is not there.
SoldFromStock ==
  \A v \in Variants \ (crossed \cup short \cup leaked \cup overwritten) :
    twin \/ LiveUnits(v) <= Starting[v]

\* What the customer put in his carts is in them or ordered, once: failed
\* checkouts and merges lose none of it and order none of it twice, as long as no
\* two requests moved the same units and no second cart or line came to be.
CartIsKept ==
  LET merging == \E r \in Requests : req[r].op \in {"mergeLine", "mergeWrite", "mergeDrop"} IN
  \A v \in Variants \ raced :
    \/ twin \/ torn \/ merging
    \/ CartUnits(v) + OrderedUnits(v) = wanted[v]

\* Nor does a merge that stops half way lose any.
MergeLosesNothing ==
  \A v \in Variants \ raced : twin \/ CartUnits(v) + OrderedUnits(v) >= wanted[v]

\* Orders and quotas move as Purchases says.
Bought ==
  INSTANCE Purchases WITH
    items <- [o \in Orders |-> IF order[o] = NoOrder THEN {} ELSE order[o].items]

BuysAllOrNothing == Bought!Spec

=============================================================================
