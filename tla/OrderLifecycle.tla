--------------------------- MODULE OrderLifecycle ---------------------------
(***************************************************************************)
(* The order feature after checkout: order.service.ts, the auto-complete   *)
(* cron of order.scheduler.ts and the payment listener, over the `orders`  *)
(* table of order.repository.ts.                                           *)
(*                                                                         *)
(* No handler takes a row lock: it reads the order, checks it, awaits an   *)
(* UPDATE that is keyed by id only, and then awaits its side effects one   *)
(* by one.  Every await lets other handlers run, so a handler is a `req`   *)
(* that takes one step per await: Begin... (read and check), Write (the    *)
(* UPDATE) and Settle (one side effect).  acceptOrder is the exception:    *)
(* its check is in the WHERE clause of its UPDATE.                         *)
(***************************************************************************)
EXTENDS Naturals, Sequences, FiniteSets, OrderGroups

CONSTANTS
  Shippers,    \* users holding the shipper role
  NoShipper,   \* shipper_id IS NULL
  Requests,    \* HTTP requests and payment events that can be in flight at once
  Scheduler,   \* the hourly cron
  MaxRequests  \* bound: requests accepted in one behaviour

ASSUME OrderAssumption ==
  /\ NoShipper \notin Shippers
  /\ Scheduler \notin Requests
  /\ Orders # {}
  /\ MaxRequests \in Nat

VARIABLES
  status,       \* [Orders -> Statuses]      orders.status
  payment,      \* [Orders -> Payments]      orders.payment_status
  shipper,      \* [Orders -> shipper_id]    orders.shipper_id
  deliveredAt,  \* [Orders -> DeliveredAts]  orders.delivered_at
  req,          \* [Handlers -> Job]         handlers in flight
  calls,        \* [Orders -> [Effects -> Nat]] side effects invoked so far
  accepted,     \* number of requests accepted so far
  abandoned     \* history: orders a handler wrote but failed before settling

vars == <<status, payment, shipper, deliveredAt, req, calls, accepted, abandoned>>
rows == <<status, payment, shipper, deliveredAt>>

Statuses == {"pending", "confirmed", "shipping", "delivered", "completed",
             "return_requested", "cancelled"}
Payments == {"unpaid", "paid"}

\* delivered_at: unset, within the last AUTO_COMPLETE_DAYS, or older.
DeliveredAts == {"null", "recent", "expired"}

\* What a handler awaits after its UPDATE.  "coupons" and "flash" propagate an
\* error; award/charge/coins/commission swallow one; "stock" and "notify" are
\* the events order.cancelled and order.status_updated.
Effects == {"coupons", "flash", "coins", "commission", "stock",
            "award", "charge", "notify"}

CancelEffects   == <<"coupons", "flash", "coins", "commission", "stock", "notify">>
CompleteEffects == <<"award", "charge", "notify">>

\* Mutant: completing an order no longer charges commission or awards coins.
EffectsOfWithoutEarning(to) ==
  CASE to = "cancelled" -> CancelEffects
    [] to \in Payments  -> <<>>
    [] OTHER            -> <<"notify">>

EffectsOf(to) ==
  CASE to = "cancelled" -> CancelEffects
    [] to = "completed" -> CompleteEffects
    [] to \in Payments  -> <<>>
    [] OTHER            -> <<"notify">>

-----------------------------------------------------------------------------
(* The transition tables of order.types.ts. *)

\* Mutant: the admin may complete an order that is still being shipped.
AdminCompletesShipping ==
  [s \in Statuses |->
     CASE s = "pending"          -> {"confirmed", "cancelled"}
       [] s = "confirmed"        -> {"shipping", "cancelled"}
       [] s = "shipping"         -> {"delivered", "completed", "cancelled"}
       [] s = "delivered"        -> {"completed"}
       [] s = "return_requested" -> {"completed", "cancelled"}
       [] OTHER                  -> {}]

ADMIN_STATUS_TRANSITIONS ==
  [s \in Statuses |->
     CASE s = "pending"          -> {"confirmed", "cancelled"}
       [] s = "confirmed"        -> {"shipping", "cancelled"}
       [] s = "shipping"         -> {"delivered", "cancelled"}
       [] s = "delivered"        -> {"completed"}
       [] s = "return_requested" -> {"completed", "cancelled"}
       [] OTHER                  -> {}]

SELLER_STATUS_TRANSITIONS ==
  [s \in Statuses |->
     CASE s = "pending"   -> {"confirmed"}
       [] s = "confirmed" -> {"shipping"}
       [] s = "shipping"  -> {"delivered"}
       [] OTHER           -> {}]

-----------------------------------------------------------------------------
Handlers == Requests \cup {Scheduler}

\* A handler: where it is, the orders its UPDATE names (then those it still has
\* to settle), the value it writes, the order it settles and the next effect.
Job == [pc : {"idle", "write", "settle"},
        os : SUBSET Orders,
        to : Statuses \cup Payments,
        cur : Orders,
        k : Nat]

TypeOK ==
  /\ status \in [Orders -> Statuses]
  /\ payment \in [Orders -> Payments]
  /\ shipper \in [Orders -> Shippers \cup {NoShipper}]
  /\ deliveredAt \in [Orders -> DeliveredAts]
  /\ req \in [Handlers -> Job]
  /\ calls \in [Orders -> [Effects -> Nat]]
  /\ accepted \in Nat
  /\ abandoned \subseteq Orders

Idle == [pc |-> "idle", os |-> {}, to |-> "pending",
         cur |-> CHOOSE o \in Orders : TRUE, k |-> 1]

Init ==
  /\ status = [o \in Orders |-> "pending"]
  /\ payment = [o \in Orders |-> "unpaid"]
  /\ shipper = [o \in Orders |-> NoShipper]
  /\ deliveredAt = [o \in Orders |-> "null"]
  /\ req = [r \in Handlers |-> Idle]
  /\ calls = [o \in Orders |-> [e \in Effects |-> 0]]
  /\ accepted = 0
  /\ abandoned = {}

-----------------------------------------------------------------------------
(* Reading the order and checking it: nothing is written, and what was read  *)
(* is only remembered as the UPDATE the handler is about to send.            *)

Accept(r) ==
  /\ req[r].pc = "idle"
  /\ IF r = Scheduler THEN UNCHANGED accepted
                      ELSE accepted < MaxRequests /\ accepted' = accepted + 1

Begin(r, os, to) ==
  /\ Accept(r)
  /\ req' = [req EXCEPT ![r] = [pc |-> "write", os |-> os, to |-> to,
                                cur |-> CHOOSE o \in os : TRUE, k |-> 1]]
  /\ UNCHANGED <<rows, calls, abandoned>>

BeginCancel(r, o) ==
  /\ r \in Requests
  /\ status[o] = "pending"
  /\ Begin(r, {o}, "cancelled")

BeginConfirmReceipt(r, o) ==
  /\ r \in Requests
  /\ status[o] = "delivered"
  /\ Begin(r, {o}, "completed")

BeginRequestReturn(r, o) ==
  /\ r \in Requests
  /\ status[o] = "delivered"
  /\ Begin(r, {o}, "return_requested")

\* COD is paid at the door; every other method has to be paid before.
PaidOrCod(o) == Method[o] = "cod" \/ payment[o] # "unpaid"

BeginAdminStatus(r, o, to) ==
  /\ r \in Requests
  /\ to \in ADMIN_STATUS_TRANSITIONS[status[o]]
  /\ to = "delivered" => PaidOrCod(o)
  /\ Begin(r, {o}, to)

BeginSellerStatus(r, o, to) ==
  /\ r \in Requests
  /\ to \in SELLER_STATUS_TRANSITIONS[status[o]]
  /\ Begin(r, {o}, to)

BeginMarkDelivered(r, s, o) ==
  /\ r \in Requests
  /\ shipper[o] = s
  /\ status[o] = "shipping"
  /\ PaidOrCod(o)
  /\ Begin(r, {o}, "delivered")

\* The admin and the seller endpoints check the same two conditions.
BeginPaymentStatus(r, o, to) ==
  /\ r \in Requests
  /\ status[o] \notin {"cancelled", "return_requested"}
  /\ Method[o] = "cod" => status[o] \notin {"pending", "confirmed"}
  /\ Begin(r, {o}, to)

\* payment.completed: the transaction updates the orders its SELECT saw alive.
BeginMarkGroupPaid(r, g) ==
  LET alive == {o \in Orders : Group[o] = g /\ status[o] # "cancelled"} IN
  /\ r \in Requests
  /\ alive # {}
  /\ Begin(r, alive, "paid")

\* Mutant: the cron's cutoff comparison is turned round.
AutoCompleteRecent ==
  LET due == {o \in Orders : status[o] = "delivered" /\ deliveredAt[o] = "recent"} IN
  /\ due # {}
  /\ Begin(Scheduler, due, "completed")

BeginAutoComplete ==
  LET due == {o \in Orders : status[o] = "delivered" /\ deliveredAt[o] = "expired"} IN
  /\ due # {}
  /\ Begin(Scheduler, due, "completed")

-----------------------------------------------------------------------------
(* The UPDATE, keyed by id: it overwrites whatever the rows hold by now.      *)

\* The handler after its UPDATE: it has ended when no effect follows it.
Written(job, o) ==
  IF EffectsOf(job.to) = <<>> THEN Idle ELSE [job EXCEPT !.pc = "settle", !.cur = o]

WriteStatus(r) ==
  /\ req[r].pc = "write"
  /\ req[r].to \in Statuses
  /\ status' = [o \in Orders |-> IF o \in req[r].os THEN req[r].to ELSE status[o]]
  /\ deliveredAt' = [o \in Orders |->
       IF o \in req[r].os /\ req[r].to = "delivered" THEN "recent" ELSE deliveredAt[o]]
  /\ \E o \in req[r].os : req' = [req EXCEPT ![r] = Written(req[r], o)]
  /\ UNCHANGED <<payment, shipper, calls, accepted, abandoned>>

WritePayment(r) ==
  /\ req[r].pc = "write"
  /\ req[r].to \in Payments
  /\ payment' = [o \in Orders |-> IF o \in req[r].os THEN req[r].to ELSE payment[o]]
  /\ \E o \in req[r].os : req' = [req EXCEPT ![r] = Written(req[r], o)]
  /\ UNCHANGED <<status, shipper, deliveredAt, calls, accepted, abandoned>>

\* Mutant: the UPDATE of acceptOrder without `shipper_id IS NULL`.
AcceptOrderUnguarded(r, s, o) ==
  /\ r \in Requests /\ Accept(r)
  /\ status[o] = "confirmed"
  /\ shipper' = [shipper EXCEPT ![o] = s]
  /\ status' = [status EXCEPT ![o] = "shipping"]
  /\ req' = [req EXCEPT ![r] = [pc |-> "settle", os |-> {o}, to |-> "shipping",
                                cur |-> o, k |-> 1]]
  /\ UNCHANGED <<payment, deliveredAt, calls, abandoned>>

\* acceptOrder: one conditional UPDATE; a miss changes nothing (ORDER_003).
AcceptOrder(r, s, o) ==
  /\ r \in Requests /\ Accept(r)
  /\ shipper[o] = NoShipper
  /\ status[o] = "confirmed"
  /\ shipper' = [shipper EXCEPT ![o] = s]
  /\ status' = [status EXCEPT ![o] = "shipping"]
  /\ req' = [req EXCEPT ![r] = [pc |-> "settle", os |-> {o}, to |-> "shipping",
                                cur |-> o, k |-> 1]]
  /\ UNCHANGED <<payment, deliveredAt, calls, abandoned>>

-----------------------------------------------------------------------------
(* The side effects of the order at hand, in the order of EffectsOf; the cron *)
(* then settles the next order of its batch.                                  *)

Settle(r) ==
  LET job  == req[r]
      left == job.os \ {job.cur}
  IN
  /\ job.pc = "settle"
  /\ calls' = [calls EXCEPT ![job.cur][EffectsOf(job.to)[job.k]] = @ + 1]
  /\ \/ /\ job.k < Len(EffectsOf(job.to))
        /\ req' = [req EXCEPT ![r] = [job EXCEPT !.k = @ + 1]]
     \/ /\ job.k = Len(EffectsOf(job.to))
        /\ left = {}
        /\ req' = [req EXCEPT ![r] = Idle]
     \/ /\ job.k = Len(EffectsOf(job.to))
        /\ \E o \in left :
             req' = [req EXCEPT ![r] = [job EXCEPT !.os = left, !.cur = o, !.k = 1]]
  /\ UNCHANGED <<rows, accepted, abandoned>>

\* An await that throws, or the process dying there: nothing resumes a handler.
Fail(r) ==
  /\ req[r].pc \in {"write", "settle"}
  /\ req' = [req EXCEPT ![r] = Idle]
  /\ abandoned' = IF req[r].pc = "settle" THEN abandoned \cup req[r].os ELSE abandoned
  /\ UNCHANGED <<rows, calls, accepted>>

\* Seven days pass after a delivery.
Expire(o) ==
  /\ deliveredAt[o] = "recent"
  /\ deliveredAt' = [deliveredAt EXCEPT ![o] = "expired"]
  /\ UNCHANGED <<status, payment, shipper, req, calls, accepted, abandoned>>

-----------------------------------------------------------------------------
BeginAny(r) ==
  \E o \in Orders :
    \/ BeginCancel(r, o)
    \/ BeginConfirmReceipt(r, o)
    \/ BeginRequestReturn(r, o)
    \/ \E to \in Statuses : BeginAdminStatus(r, o, to) \/ BeginSellerStatus(r, o, to)
    \/ \E s \in Shippers : BeginMarkDelivered(r, s, o) \/ AcceptOrder(r, s, o)
    \/ \E to \in Payments : BeginPaymentStatus(r, o, to)
    \/ BeginMarkGroupPaid(r, Group[o])

Advance(r) == WriteStatus(r) \/ WritePayment(r) \/ Settle(r) \/ Fail(r)

Next ==
  \/ \E r \in Requests : BeginAny(r)
  \/ BeginAutoComplete
  \/ \E r \in Handlers : Advance(r)
  \/ \E o \in Orders : Expire(o)

Spec == Init /\ [][Next]_vars

\* Time passes, the cron fires every hour, and a database that keeps being asked
\* eventually takes the cron's UPDATE.  Nothing is assumed of users' requests.
Fairness ==
  /\ \A o \in Orders : WF_vars(Expire(o))
  /\ WF_vars(BeginAutoComplete)
  /\ SF_vars(WriteStatus(Scheduler))
  /\ WF_vars(Settle(Scheduler))

FairSpec == Spec /\ Fairness

-----------------------------------------------------------------------------
(* Safety. *)

\* An order that was handed over has a delivery date, however stale the check
\* behind the write that completed it or asked for its return: only `delivered`
\* and `return_requested` lead to the later states, and every path to
\* `delivered` goes through updateStatusWithDeliveredAt.
DeliveredIsDated ==
  \A o \in Orders :
    status[o] \in {"delivered", "return_requested", "completed"} => deliveredAt[o] # "null"

\* Coins are awarded and commission is charged (the seller is paid) only for
\* orders that were delivered at some time, even if a late write moved the order
\* back since.
MoneyNeedsDelivery ==
  \A o \in Orders : calls[o]["award"] + calls[o]["charge"] > 0 => deliveredAt[o] # "null"

\* The effects without which a state of rest is wrong: stock, flash-sale units,
\* coupons, coins and commission given back, or coins and commission booked.
Required(st) ==
  CASE st = "cancelled" -> {"coupons", "flash", "coins", "commission", "stock"}
    [] st = "completed" -> {"award", "charge"}
    [] OTHER            -> {}

\* Best effort is enough when nothing fails: once no handler is settling an order
\* and none failed while settling it, the effects its state requires have all been
\* invoked, whichever of several racing handlers wrote last.
SettledAtRest ==
  \A o \in Orders :
    (o \notin abandoned /\ \A r \in Handlers : req[r].pc = "settle" => o \notin req[r].os)
      => \A e \in Required(status[o]) : calls[o][e] > 0

\* Two shippers never share or exchange an order: acceptOrder assigns it at most
\* once and no other handler touches shipper_id (API_SPEC, order assignment
\* model).
ShipperKept ==
  [][\A o \in Orders : shipper[o] # NoShipper => shipper'[o] = shipper[o]]_vars

(* Liveness. *)

\* No order stays in `delivered`: the customer, the admin or the cron ends it.
DeliveredEnds ==
  \A o \in Orders : status[o] = "delivered" ~> status[o] # "delivered"

-----------------------------------------------------------------------------
(* What the comments and docs say of orders, and the code does not keep.     *)

\* order.service.ts:1568 "a given order only transitions into `cancelled` once",
\* on which the give-back of flash-sale units relies.
CancelledOnce ==
  \A o \in Orders : calls[o]["flash"] <= 1

\* order/context.md:13 "customer confirm receipt -> completed (terminal)".
CompletedIsTerminal ==
  [][\A o \in Orders : status[o] = "completed" => status'[o] = "completed"]_vars

\* order/context.md:14-16: a requested return is approved or rejected by an admin,
\* so the cron does not complete it.
ReturnIsDecidedByAdmin ==
  [][\A o \in Orders : status[o] = "return_requested" /\ status'[o] = "completed"
        => req'[Scheduler] = req[Scheduler]]_vars

\* order.service.ts:875 "Order must be paid before marking as delivered".
PaidWhenDelivered ==
  [][\A o \in Orders : status[o] # "delivered" /\ status'[o] = "delivered"
        => PaidOrCod(o)]_vars

\* API_SPEC.md:683 "Update payment status (unpaid -> paid)".
PaymentOnlyMovesToPaid ==
  [][\A o \in Orders : payment[o] = "paid" => payment'[o] = "paid"]_vars

=============================================================================
