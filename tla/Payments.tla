------------------------------ MODULE Payments ------------------------------
(***************************************************************************)
(* Online payment: payment.service.ts, payment-transaction.repository.ts   *)
(* and the listener of payment.completed in the order feature.             *)
(*                                                                         *)
(* A payment starts with an HTTP request (checks, then an INSERT, then the *)
(* gateway URL), is decided at the gateway, and ends with the gateway's    *)
(* IPN callback or with the timeout cron.  The gateway delivers a callback *)
(* late, repeatedly or never.  updateStatus is keyed by id alone, so a     *)
(* status is written from whatever its writer read earlier.                *)
(***************************************************************************)
EXTENDS Naturals, FiniteSets, OrderGroups

CONSTANTS
  Txs,       \* rows payment_transactions may get; bounds the attempts
  Callers,   \* HTTP requests and callbacks in flight
  Cron,      \* handlePaymentTimeout
  MaxStarted \* bound: see started

ASSUME PaymentAssumption ==
  /\ \A o, p \in Orders : Group[o] = Group[p] => Method[o] = Method[p]
  /\ Cron \notin Callers
  /\ MaxStarted \in Nat

VARIABLES
  cancelled,  \* orders with status `cancelled`
  paid,       \* orders with payment_status `paid`
  tx,         \* [Txs -> Row]      payment_transactions
  gateway,    \* [Txs -> Verdicts] what the gateway knows of a transaction
  work,       \* [Workers -> PaymentJob]
  started,    \* requests for a payment, callbacks that found one pending, and
              \* status writes by sellers and admins
  lost,       \* history: groups whose payment.completed was not handled to its end
  skipped,    \* history: orders a listener last passed over, finding them cancelled
  manual      \* history: orders whose payment_status a person changed last

paymentVars == <<cancelled, paid, tx, gateway, work, started, lost, skipped, manual>>

Groups == {Group[o] : o \in Orders}
Members(g) == {o \in Orders : Group[o] = g}

\* covers: the orders whose totals the transaction's amount sums up; old: it was
\* created more than fifteen minutes ago.
Row == [order : Orders, covers : SUBSET Orders, old : BOOLEAN,
        status : {"pending", "completed", "failed"}]
NoTx == [status |-> "none"]

Verdicts == {"none", "open", "paid", "refused"}

Pending == {t \in Txs : tx[t].status = "pending"}

Workers == Callers \cup {Cron}

NoWork == [op |-> "idle"]

\* A handler's next await: look for a pending payment, insert the row, build the
\* URL; write a callback's status, read the group, mark it paid; fail expired rows.
PaymentJob ==
  {NoWork}
  \cup [op : {"check"}, kind : {"single", "group"}, order : Orders, covers : SUBSET Orders]
  \cup [op : {"insert"}, order : Orders, covers : SUBSET Orders]
  \cup [op : {"url"}, tx : Txs]
  \cup [op : {"ipn"}, tx : Txs, to : {"completed", "failed"}]
  \cup [op : {"read"}, group : Groups]
  \cup [op : {"mark"}, group : Groups, os : SUBSET Orders]
  \cup [op : {"sweep"}, txs : SUBSET Txs]

PaymentTypeOK ==
  /\ cancelled \subseteq Orders
  /\ paid \subseteq Orders
  /\ tx \in [Txs -> Row \cup {NoTx}]
  /\ gateway \in [Txs -> Verdicts]
  /\ work \in [Workers -> PaymentJob]
  /\ started \in 0 .. MaxStarted
  /\ lost \subseteq Groups
  /\ skipped \subseteq Orders
  /\ manual \subseteq Orders

PaymentInit ==
  /\ cancelled = {}
  /\ paid = {}
  /\ tx = [t \in Txs |-> NoTx]
  /\ gateway = [t \in Txs |-> "none"]
  /\ work = [r \in Workers |-> NoWork]
  /\ started = 0
  /\ lost = {}
  /\ skipped = {}
  /\ manual = {}

Goto(r, job) == work' = [work EXCEPT ![r] = job]
SetStatus(t, st) == tx' = [tx EXCEPT ![t].status = st]

-----------------------------------------------------------------------------
(* POST /payments/create. *)

\* createSingleOrderPayment reads and checks its order.
CreateSingle(r, o) ==
  /\ work[r] = NoWork
  /\ started < MaxStarted /\ started' = started + 1
  /\ o \notin cancelled
  /\ Method[o] # "cod"
  /\ o \notin paid
  /\ Goto(r, [op |-> "check", kind |-> "single", order |-> o, covers |-> {o}])
  /\ UNCHANGED <<cancelled, paid, tx, gateway, lost, skipped, manual>>

\* createGroupPayment sums the orders that are not cancelled; the first of them
\* lends the transaction its order_id.
CreateGroup(r, g) ==
  LET active == Members(g) \ cancelled IN
  /\ work[r] = NoWork
  /\ started < MaxStarted /\ started' = started + 1
  /\ active \cap paid = {}
  /\ \E first \in active :
       /\ Method[first] # "cod"
       /\ Goto(r, [op |-> "check", kind |-> "group", order |-> first, covers |-> active])
  /\ UNCHANGED <<cancelled, paid, tx, gateway, lost, skipped, manual>>

\* findPendingByOrderId or findPendingByGroupId: a hit ends in PAYMENT_002.
CheckPending(r) ==
  LET job == work[r]
      hit == IF job.kind = "single"
             THEN \E t \in Pending : tx[t].order = job.order
             ELSE \E t \in Pending : Group[tx[t].order] = Group[job.order]
  IN
  /\ job.op = "check"
  /\ IF hit THEN Goto(r, NoWork)
            ELSE Goto(r, [op |-> "insert", order |-> job.order, covers |-> job.covers])
  /\ UNCHANGED <<cancelled, paid, tx, gateway, started, lost, skipped, manual>>

InsertTx(r, t) ==
  /\ work[r].op = "insert"
  /\ tx[t] = NoTx
  /\ tx' = [tx EXCEPT ![t] = [order |-> work[r].order, covers |-> work[r].covers,
                              old |-> FALSE, status |-> "pending"]]
  /\ Goto(r, [op |-> "url", tx |-> t])
  /\ UNCHANGED <<cancelled, paid, gateway, started, lost, skipped, manual>>

\* buildPaymentUrl: VNPay's URL is computed here; MoMo is asked, and a MoMo
\* error fails the transaction.
BuildUrl(r) ==
  LET t == work[r].tx IN
  /\ work[r].op = "url"
  /\ \/ /\ gateway' = [gateway EXCEPT ![t] = "open"]
        /\ UNCHANGED tx
     \/ /\ Method[tx[t].order] = "momo"
        /\ SetStatus(t, "failed")
        /\ UNCHANGED gateway
  /\ Goto(r, NoWork)
  /\ UNCHANGED <<cancelled, paid, started, lost, skipped, manual>>

-----------------------------------------------------------------------------
(* The gateway: the customer pays or gives up, whenever he likes.            *)

GatewayDecides(t) ==
  /\ gateway[t] = "open"
  /\ \E v \in {"paid", "refused"} : gateway' = [gateway EXCEPT ![t] = v]
  /\ UNCHANGED <<cancelled, paid, tx, work, started, lost, skipped, manual>>

-----------------------------------------------------------------------------
(* handleVnpayIpn and handleMomoIpn. *)

\* Mutant: the response code is not looked at.
IpnReadUnread(r, t) ==
  /\ work[r] = NoWork
  /\ started < MaxStarted /\ started' = started + 1
  /\ gateway[t] \in {"paid", "refused"}
  /\ t \in Pending
  /\ Goto(r, [op |-> "ipn", tx |-> t, to |-> "completed"])
  /\ UNCHANGED <<cancelled, paid, tx, gateway, lost, skipped, manual>>

\* The callback of a decided transaction; one that is no longer pending is
\* acknowledged and ignored.
IpnRead(r, t) ==
  /\ work[r] = NoWork
  /\ started < MaxStarted /\ started' = started + 1
  /\ gateway[t] \in {"paid", "refused"}
  /\ t \in Pending
  /\ Goto(r, [op |-> "ipn", tx |-> t,
              to |-> IF gateway[t] = "paid" THEN "completed" ELSE "failed"])
  /\ UNCHANGED <<cancelled, paid, tx, gateway, lost, skipped, manual>>

\* Mutant: payment.completed is emitted for a failed payment too.
IpnWriteEmittingAlways(r) ==
  LET t == work[r].tx IN
  /\ work[r].op = "ipn"
  /\ SetStatus(t, work[r].to)
  /\ Goto(r, [op |-> "read", group |-> Group[tx[t].order]])
  /\ UNCHANGED <<cancelled, paid, gateway, started, lost, skipped, manual>>

\* updateStatus, and for a success payment.completed: the listener runs in the
\* same process, so it is the rest of this handler.
IpnWrite(r) ==
  LET t == work[r].tx IN
  /\ work[r].op = "ipn"
  /\ SetStatus(t, work[r].to)
  /\ IF work[r].to = "completed"
     THEN Goto(r, [op |-> "read", group |-> Group[tx[t].order]])
     ELSE Goto(r, NoWork)
  /\ UNCHANGED <<cancelled, paid, gateway, started, lost, skipped, manual>>

\* Mutant: one order of the group is marked instead of all of them.
MarkReadFirst(r) ==
  LET g == work[r].group
      alive == Members(g) \ cancelled
  IN
  /\ work[r].op = "read"
  /\ IF alive = {} THEN Goto(r, NoWork)
     ELSE Goto(r, [op |-> "mark", group |-> g, os |-> {CHOOSE o \in alive : TRUE}])
  /\ skipped' = skipped \cup (Members(g) \cap cancelled)
  /\ UNCHANGED <<cancelled, paid, tx, gateway, started, lost, manual>>

\* markOrderGroupAsPaid reads the group and commits its updates of the orders
\* it saw alive; every order has an order_group_id, so markOrderAsPaid is unused.
MarkRead(r) ==
  LET g == work[r].group IN
  /\ work[r].op = "read"
  /\ Goto(r, [op |-> "mark", group |-> g, os |-> Members(g) \ cancelled])
  /\ skipped' = skipped \cup (Members(g) \cap cancelled)
  /\ UNCHANGED <<cancelled, paid, tx, gateway, started, lost, manual>>

MarkWrite(r) ==
  /\ work[r].op = "mark"
  /\ paid' = paid \cup work[r].os
  /\ skipped' = skipped \ work[r].os
  /\ manual' = manual \ work[r].os
  /\ Goto(r, NoWork)
  /\ UNCHANGED <<cancelled, tx, gateway, started, lost>>

-----------------------------------------------------------------------------
(* handlePaymentTimeout, every five minutes. *)

\* Mutant: the cutoff comparison is turned round.
SweepReadRecent ==
  LET expired == {t \in Pending : ~tx[t].old} IN
  /\ work[Cron] = NoWork
  /\ expired # {}
  /\ Goto(Cron, [op |-> "sweep", txs |-> expired])
  /\ UNCHANGED <<cancelled, paid, tx, gateway, started, lost, skipped, manual>>

SweepRead ==
  LET expired == {t \in Pending : tx[t].old} IN
  /\ work[Cron] = NoWork
  /\ expired # {}
  /\ Goto(Cron, [op |-> "sweep", txs |-> expired])
  /\ UNCHANGED <<cancelled, paid, tx, gateway, started, lost, skipped, manual>>

\* One UPDATE per transaction found, whatever its status is by now.
SweepWrite ==
  /\ work[Cron].op = "sweep"
  /\ \E t \in work[Cron].txs :
       /\ SetStatus(t, "failed")
       /\ Goto(Cron, IF work[Cron].txs = {t} THEN NoWork
                     ELSE [work[Cron] EXCEPT !.txs = @ \ {t}])
  /\ UNCHANGED <<cancelled, paid, gateway, started, lost, skipped, manual>>

-----------------------------------------------------------------------------
(* The rest of the world. *)

\* Fifteen minutes pass.
Age(t) ==
  /\ t \in Pending
  /\ ~tx[t].old
  /\ tx' = [tx EXCEPT ![t].old = TRUE]
  /\ UNCHANGED <<cancelled, paid, gateway, work, started, lost, skipped, manual>>

\* The order feature cancels an order; it does not ask about payments.
CancelOrder(o) ==
  /\ o \notin cancelled
  /\ cancelled' = cancelled \cup {o}
  /\ UNCHANGED <<paid, tx, gateway, work, started, lost, skipped, manual>>

\* updateOrderStatus and updateSellerOrderStatus UPDATE by id what they checked some
\* time before: an order confirmed by a handler that read it as pending lives again.
\* Every order starts pending, so such a handler may be about at any time.
OverwriteCancellation(o) ==
  /\ started < MaxStarted /\ started' = started + 1
  /\ o \in cancelled
  /\ cancelled' = cancelled \ {o}
  /\ UNCHANGED <<paid, tx, gateway, work, lost, skipped, manual>>

\* updatePaymentStatus and updateSellerPaymentStatus: a person changes paid to unpaid
\* or back, by id too, on an order neither cancelled nor returned when he read it (he may
\* also write the value that is there).
SetPaymentStatus(o) ==
  /\ started < MaxStarted /\ started' = started + 1
  /\ paid' = IF o \in paid THEN paid \ {o} ELSE paid \cup {o}
  /\ manual' = manual \cup {o}
  /\ UNCHANGED <<cancelled, tx, gateway, work, lost, skipped>>

\* An await throws or the process dies: the handler's remaining steps are lost.
PaymentFail(r) ==
  /\ work[r] # NoWork
  /\ Goto(r, NoWork)
  /\ lost' = IF work[r].op \in {"read", "mark"} THEN lost \cup {work[r].group} ELSE lost
  /\ UNCHANGED <<cancelled, paid, tx, gateway, started, skipped, manual>>

-----------------------------------------------------------------------------
Create(r) ==
  \/ \E o \in Orders : CreateSingle(r, o)
  \/ \E g \in Groups : CreateGroup(r, g)
  \/ CheckPending(r)
  \/ \E t \in Txs : InsertTx(r, t)
  \/ BuildUrl(r)

Callback(r) ==
  \/ \E t \in Txs : IpnRead(r, t)
  \/ IpnWrite(r) \/ MarkRead(r) \/ MarkWrite(r)

PaymentNext ==
  \/ \E r \in Callers : Create(r) \/ Callback(r)
  \/ SweepRead \/ SweepWrite
  \/ \E t \in Txs : GatewayDecides(t) \/ Age(t)
  \/ \E o \in Orders : CancelOrder(o) \/ OverwriteCancellation(o) \/ SetPaymentStatus(o)
  \/ \E r \in Workers : PaymentFail(r)

PaymentSpec == PaymentInit /\ [][PaymentNext]_paymentVars

\* Time passes, the cron fires every five minutes, and a database that keeps
\* being asked eventually takes its UPDATE.
PaymentFairness ==
  /\ \A t \in Txs : WF_paymentVars(Age(t))
  /\ WF_paymentVars(SweepRead)
  /\ \A t \in Txs : SF_paymentVars(SweepWrite /\ t \notin Pending')

PaymentFairSpec == PaymentSpec /\ PaymentFairness

-----------------------------------------------------------------------------
(* Safety. *)

\* A transaction is only recorded as completed when the customer paid it, however
\* callbacks, retries and the cron overlap.
CompletedIsCollected ==
  \A t \in Txs : tx[t].status = "completed" => gateway[t] = "paid"

\* An order is paid only when a payment of its group was collected, unless a seller or
\* an admin was the last to change that.
PaidIsCollected ==
  \A o \in paid \ manual : \E t \in Txs : gateway[t] = "paid" /\ Group[tx[t].order] = Group[o]

\* When nothing failed, a completed payment leaves no order of its group unpaid but
\* those a listener found cancelled (and leaves unpaid though a stale status write makes
\* them live again) and those a person has set to unpaid: orders cancelled or reopened
\* between the listener's read and its updates are settled.
CompletedIsSettled ==
  \A t \in Txs :
    LET g == Group[tx[t].order]
        settling == \E r \in Callers : work[r].op \in {"read", "mark"} /\ work[r].group = g
    IN tx[t].status = "completed" /\ g \notin lost /\ ~settling
         => Members(g) \subseteq paid \cup skipped \cup manual

(* Liveness. *)

\* No payment blocks a retry for ever: a pending transaction is decided by a
\* callback or by the cron.
PendingEnds == \A t \in Txs : []<>(t \notin Pending)

-----------------------------------------------------------------------------
(* What the docs say of payments, and the code does not keep. *)

\* API_SPEC.md:146 "Active payment already pending for this order" (PAYMENT_002).
OnePendingPerOrder ==
  \A t, u \in Pending : tx[t].covers \cap tx[u].covers # {} => t = u

\* API_SPEC.md:453 "transactions pending for 15+ minutes are marked as `failed`":
\* a completed one is not.
CompletedIsFinal ==
  [][\A t \in Txs : tx[t].status = "completed" => tx'[t].status = "completed"]_paymentVars

\* API_SPEC.md:447 "`order_id` pays for a single order".
PaidIsCovered ==
  \A o \in paid \ manual : \E t \in Txs : tx[t] # NoTx /\ o \in tx[t].covers

=============================================================================
