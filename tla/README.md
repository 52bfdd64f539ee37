# A TLA+ model of the marketplace

The repository is a multi-shop marketplace: a NestJS backend over PostgreSQL
(`src/backend-nestjs`) and a React frontend (`src/frontend-react`). The hard part of it is not a
page or a query: it is what happens to orders, money, Xu (cashback coins), coupons, quotas, stock,
carts, sessions and roles when requests, cron jobs, gateway callbacks and failures interleave. The
backend takes almost no row locks. A handler typically reads a row, checks it, `await`s, and writes it
back by id, and the effects that follow (give stock back, refund coins, charge commission) are
separate awaits, each of which lets every other handler run. These modules model that, `await` by
`await`.

Paths below are relative to `src/backend-nestjs/src/features/` unless they start with `src/`.

## 1. The system

### Components with the state and protocols that matter

| Component | State it keeps | Operations | What makes it correct |
|---|---|---|---|
| orders (`order/`) | `orders.status`, `payment_status`, `shipper_id`, `delivered_at` | cancel, confirm receipt, request return, admin/seller status, shipper accept/deliver, payment status, payment listener, auto-complete cron | delivery before money; each final status has its effects; one shipper; delivered orders end |
| seller finance (`seller-finance/`) | wallets, wallet ledger, commission ledger, withdrawals | charge, reverse, request/approve/reject a withdrawal, rate change | balance = ledger; no overdraft by withdrawals; ledgers agree; holds booked |
| payment (`payment/`) | `payment_transactions`, orders' paid flag | create (single, group), VNPay/MoMo callback, timeout cron, `payment.completed` | only collected money pays; a payment settles its group; pending ends |
| coins (`coin/`) | batches (lots) and a ledger | award, refund, reverse, redeem at checkout, expiry cron | no double spending; closed batches are empty; every batch is booked; expired Xu are swept |
| coupons (`coupon/`) | `current_uses`, `coupon_usages` | validate, record (in checkout), reverse on cancellation, change of limit | the count covers the uses; the limit holds; reversal only for cancelled checkouts |
| checkout discounts (`order/utils/coupon-distribution.util.ts`) | none (pure) | split a platform coupon and Xu over sub-orders | nothing lost, no negative total, fair, terminates |
| checkout (`order/order.service.ts:105`) | orders, flash quotas, cart in one transaction; stock after it | checkout, cancellation | all or nothing; quota and stock agree with the live orders |
| stock (`product/`) | `product_variants.stock_quantity` | deduct on `order.created`, restore on `order.cancelled` | no stock out of nothing |
| cart (`cart/`) | carts of guests and users | add, update, remove, merge at login, clear at checkout | what was put in is in it or ordered, once |
| flash sales (`flash-sale/`) | campaigns, items with `flash_quantity`/`sold_quantity` | create, update, delete, register, edit, approve, reject, withdraw, consume, reverse, cron activate/end | sold within quota; what is on sale is what was approved; one price per variant at a time |
| sessions (`auth/`, `src/frontend-react/src/core/api/axios-instance.ts`) | refresh tokens; the client's tokens and the queue behind a refresh | login, refresh (rotation), logout, revoke all | one live token per login; browser and server agree; queued calls are answered |
| roles, seller applications, shops (`auth/`, `seller-application/`, `shop/`, `src/backend-nestjs/src/common/guards`) | roles, permissions, a cache; applications, shops | edit permissions, check; apply, approve, reject; open a shop; change a role | a check sees the current permissions; a decision agrees with shop and role |
| chat (`chat/`) | messages, unread counters, sockets' presence maps | send, mark read, connect, join, leave, disconnect | presence, counters and receipts are true |
| products, notifications, tracking, reviews, wishlist, recently viewed, recommendations, addresses, dashboards, homepage, AI chat, settings, upload, mail, logging, migrations, the React pages | rows nothing else depends on, or none | CRUD, queries, I/O, rendering | not modelled: see section 7 |

### How they interact

* **Checkout** reads the cart, stock and flash prices, asks coupons (`validateCoupon`) and coins
  (`validateRedemption`) *before* its transaction; inside it, it creates one order per shop, records
  coupon uses, consumes flash quota, redeems coins and clears the cart; after the commit it emits
  `order.created` (stock is deducted by a listener) and `order.placed` (tracking, notifications).
* **Cancellation** is an UPDATE of the order followed by separate awaits: coupon reversal, flash
  quota, coin refund and reversal, commission reversal, then `order.cancelled` (stock).
* **Completion** (customer, admin or cron) is an UPDATE followed by `awardForOrder` (coins) and
  `chargeForOrder` (commission and seller earning), both best effort.
* **A payment callback** sets the transaction's status and emits `payment.completed`; the listener in
  `order/` marks the whole order group as paid.
* **A 401** makes the client refresh its tokens: one call per tab does, the others wait in a queue; the
  server revokes the old refresh token and stores the next in separate awaits. Tabs share
  `localStorage` and nothing else.
* **A guarded request** reads the role in its access token and that role's permissions, through a cache
  in the process that edits invalidate.
* **Crons**: auto-complete (hourly), payment timeout (5 min), coin expiry (daily), flash campaigns
  (every minute), recommendations (daily). Most select rows and then write them by id.

### What is hard

Check-then-act over an `await` (nearly every handler); two users acting on one order; crons writing
rows selected earlier; best-effort effects after a committed write; callbacks that come late, twice
or never; a failure between two writes of which the second is the idempotency guard of both;
shared counters at their limit; a cache filled after its invalidation; answers that arrive when the
page that asked is gone; splitting money with rounding and caps. `PROJECT.json` lists each hazard at its
line with the properties that watch it.

## 2. Modules

| Module | Models | State ↔ code | Composition |
|---|---|---|---|
| `OrderLifecycle` | order.service.ts after checkout, order.scheduler.ts, order-payment.listener.ts | the four columns as functions of the order; `req` = handlers in flight; `calls` = effects invoked | calls into the others are counted per effect |
| `WalletLedger` | abstract: a balance per user that moves only with an appended entry | `balance`, `entries` | refined by `SellerFinance` |
| `SellerFinance` | commission.service.ts, withdrawal.service.ts, wallet repositories | wallets, both ledgers, withdrawals, config, `req` | `Book == INSTANCE WalletLedger WITH balance <- wallet, entries <- ledger` |
| `OrderGroups` | the orders as checkout created them | the constants `Orders`, `Group`, `Method` and what is assumed of them | EXTENDed by `OrderLifecycle` and `Payments` |
| `Payments` | payment.service.ts, its repository, the listener's marking of a group | transactions, the gateway's verdict, cancelled and paid orders, `work` | the order feature appears as `CancelOrder`, `OverwriteCancellation` and `SetPaymentStatus` |
| `Coins` | coin.service.ts, its repositories and cron, for one customer | batches in FIFO order, the ledger as a bag (`entries`), `work` | checkouts and order handlers appear as calls |
| `Coupons` | validateCoupon, recordUsage, both reversals, updateCoupon, for one coupon | `current_uses`, usage rows, `cancelled`, `task` | checkouts and cancellations appear as requests, a stale status write as `OverwriteCancellation` |
| `DiscountAllocation` | coupon-distribution.util.ts and allocateCoinDiscount | one step per round of `allocateWithCaps` | used twice in a behaviour, as the checkout does |
| `Carts` | cart.service.ts for one customer: his cart, his guest cart, the merge | rows of `carts` and `cart_items`, `stock`, `req` | extended by `Checkout` |
| `Checkout` | `checkout` and `cancelOrder` with the cart, the flash quota and the stock listeners; stale status writes over a cancellation | `order`, `sold`, `open` (items on sale); `cleared` = lines an open transaction has deleted | EXTENDS `Carts`: cart requests and checkouts are handlers of one `req` |
| `Purchases` | abstract: a checkout's orders and flash units appear together or not at all, within the quota | `items`, `sold` | refined by `Checkout`: `Bought == INSTANCE Purchases WITH items <- ...` |
| `FlashSales` | flash-sale.service.ts, its repositories, its scheduler | campaigns with two windows, registrations, the clock, `cron` between its two UPDATEs, `req` | checkouts appear as `Consume` and `Reverse` |
| `Sessions` | refresh tokens in auth.service.ts; axios-instance.ts, auth.store.ts, login and logout hooks | `token`, `stale` (server); `stored`, `memory`, `refreshing`, `call` (browser); `req` between them | client and server in one module, joined by requests and answers that may be lost |
| `Access` | seller-application.service.ts, shop creation and status, role permissions, permissions.guard.ts | `role`, `token`, `shop`, `app`, `grants`, `cache`, `req` | an approval writes what the guard then reads |
| `Chat` | chat.service.ts, chat.gateway.ts, useChatRoom.ts, for one conversation | presence maps, sockets, the client's buffer, messages, counters, `req` | client, gateway and service in one module |
| `CheckoutProofs` | the proofs about `Checkout` (with `Carts` and `Purchases`) and `DiscountAllocation` | | |
| `OrdersProofs` | the proofs about `OrderLifecycle` and `Payments` | | |
| `LedgersProofs` | the proofs about `Coupons`, `SellerFinance` (with `WalletLedger`) and `Coins` | | |
| `FlashSalesProofs`, `SessionsProofs`, `ChatProofs`, `AccessProofs` | the proofs about the module they name | | |
| `Sums` | lemmas on sums over finite sets, for any function and set | | used by `CheckoutProofs` and `LedgersProofs` |
| `MC...` | the small instances TLC checks | | |

**Steps.** A step is what happens between two awaits. A handler is a record `req[r]`
(`work[r]` in `Payments` and `Coins`, `task[r]` in `Coupons`) that remembers what it read; `Begin...`, `...Read` or `Validate...` reads and checks, the next action writes. A
database transaction whose reads do not matter afterwards is one step, taken at its commit (its row
locks make it so); the checkout's, whose UPDATEs others can meet half way, is modelled statement by
statement with a commit and a rollback. A single UPDATE with its condition in the WHERE clause is one
step. `Fail` is an exception at an await or the death of the process: the handler's remaining steps never
happen. Since no handler is resumed after a restart, a crash is every handler failing and needs no
action of its own.

**Data.** Money is in small integers (minor units); timestamps are the two or three classes the code
distinguishes (`deliveredAt`, `old`, `due`) or, in `FlashSales`, a small clock; ids are model values.
`history` variables (`abandoned`, `lost`, `torn`, `raced`, `contested`, `disturbed`, `overwritten`,
`skipped`, `reopened`, `unheard`, ...) record which row met which race, failure or hand of a person (`manual`,
`granted`, `activated`), so that a property can say exactly what the code does not prevent and
hold everything else to account. Each is set where that race happens and nowhere else, and the mutants
show that the properties still notice a bug that needs no such race.

## 3. Runs

* `order_race`: one order, two handlers at once, six requests, two shippers, the cron and failures.
  `MoneyNeedsDelivery` survives arbitrary stale writes: nobody is paid for an order that was never
  delivered. `ShipperKept` shows what the one conditional UPDATE buys.
* `order_group`: two orders (one online, one COD) from the moment they are delivered.
  `SettledAtRest`: whichever racing handler wrote last, the effects its status requires were invoked.
  `DeliveredEnds`: the cron ends every delivery.
* `finance`: charge, reverse, withdraw, approve and reject race; a rate changes in between; one order
  is worth nothing. Only reversals make debt (`DebtNeedsReversal`), holds are booked
  (`HoldsAreBooked`), the two ledgers agree order by order (`BooksAgree`), and the feature implements
  `WalletLedger` (`ImplementsLedger`).
* `payments`: two attempts to pay a group of two, callbacks repeated or missing, the timeout cron,
  cancellations, stale confirmations over them, payment statuses set by people: only collected money
  completes a transaction (`CompletedIsCollected`) or pays an order no person has marked
  (`PaidIsCollected`), a completed payment leaves no order of its group unpaid but those the listener found
  cancelled and those a person has marked (`CompletedIsSettled`), and pending transactions end although
  runs of the cron may fail (`PendingEnds`).
* `coins`: awards, refunds, reversals, redemptions and expiry: `SpentWithinIssued`, `ClosedIsEmpty`,
  `BatchesAreBooked`, and, under fairness of the cron, `ExpiredIsSwept`.
* `coupons`: a shop coupon and a platform coupon, one of them in a behaviour; three checkouts, a limit
  that moves between 1 and 2, double cancellations, a stale confirmation over one, failures: a shop coupon's
  count is exact (`CountIsExact`) and within its limit (`LiveWithinLimit`), no use leaks (`NoUseLeaked`), and no
  discount is reversed before the cancellations that cost it (`ReversedIsCancelled`).
* `discount_allocation`: every checkout of three shops with amounts in small ranges: no cent is lost
  (`NothingLost`), no sub-order becomes negative (`NoNegativeTotal`), a shop with room gets its
  proportional part (`FairShare`).
* `checkout`: two variants of two shops, one of them with a flash quota of one, the carts as earlier
  requests may have left them (two rows of a cart, twin lines), two requests at once and three in all out
  of additions, edits, removals, merges, checkouts and cancellations; every await may fail, a
  stale confirmation may overwrite a cancellation, and the sale may end, at any time. `SoldIsLive`: the quota's counter is what live orders took, whatever rolls back.
  `StockIsExact`: stock plus live orders is constant. `CartIsKept`: what was put into a cart is in it or
  ordered, once. `BuysAllOrNothing`: orders and quotas move as `Purchases` says.
* `flash_sales`: two campaigns whose deals follow one another, two registrations of a variant, admins
  who move windows and switch campaigns, sellers who edit, the scheduler and purchases.
  `SoldWithinQuota`, `ApprovedAsReviewed`, `OnePricePerVariant`.
* `sessions`: two tabs, calls that expire together, refreshes, logouts, reloads, answers that are lost.
  `OneLivePerLogin`: rotation leaves one live token per login. `KeptTokenIsLive`: the browser never keeps
  a token that was rotated away. `LiveIsKept`: no live token is forgotten without a named reason.
  `QueuedIsAwaited`: a queued call always has a refresh to wait for.
* `chat`: two tabs on a breaking connection; the gateway learns of a disconnect late; packets wait in the
  client's buffer; messages arrive while others are marked read. `RoomIsExact`: the count of a room is that of
  its sockets, and behind a tab's socket in it the tab shows the thread. `UnreadIsExact`. `ReadWasSeen`: a read
  message was on the screen of one of the recipient's tabs when it came, or was marked read.
* `access`: a customer, two applications and two requests at once out of guarded calls, edits of the
  customers' permissions (who may then open a shop while an application is under review), applications and
  reviews, while admins give roles and make shops active or suspend them. `CacheIsFresh`, `ApprovedIsSeller`,
  `RejectedIsNoSeller`.

Each property has a mutant in `PROJECT.json`: one mapped definition changed as a plausible bug would
change it (a guard dropped, a wrong order, a reset forgotten), under which the property's run fails.

## 4. What the code does not keep

Most of the following have one root: a status is read, checked and then written without the condition
in the WHERE clause. The properties above name the rows such a race touched and hold for all others. What
the documents promise and the race breaks is stated as definitions, under a heading that says so, in the
modules; no run checks them. To see a counterexample, give the definition as INVARIANT or PROPERTY to a
cfg of its module.

| Module | Definition | What goes wrong | What a document says |
|---|---|---|---|
| `OrderLifecycle` | `CancelledOnce` | two handlers cancel an order and give its effects back twice | order.service.ts:1568: "a given order only transitions into `cancelled` once" |
| | `CompletedIsTerminal` | a stale return request reopens a completed order | order/context.md:13: "completed (terminal)" |
| | `ReturnIsDecidedByAdmin` | the cron completes an order whose return was requested | order/context.md:14-16 |
| | `PaidWhenDelivered` | a seller delivers an online order that is not paid (`updateSellerOrderStatus` lacks the check its siblings have) | `src/share-docs/API_SPEC.md:767`: "Payment guard on deliver" |
| | `PaymentOnlyMovesToPaid` | paid goes back to unpaid | `src/share-docs/API_SPEC.md:683`: "unpaid -> paid" |
| `SellerFinance` | `ChargedOnce` | two completions of an order charge it twice | `src/share-docs/DATABASE.md:780`: "One `charge` per completed order" |
| | `HoldSettledOnce` | one admin pays a withdrawal another refunds | `src/share-docs/API_SPEC.md:642`: "Only a `pending` withdrawal can be reviewed" |
| `Payments` | `OnePendingPerOrder` | an order has two pending payments | `src/share-docs/API_SPEC.md:146` |
| | `CompletedIsFinal` | the cron fails a payment that a callback has completed | `src/share-docs/API_SPEC.md:453` |
| | `PaidIsCovered` | the payment of a single order pays its group | `src/share-docs/API_SPEC.md:447`: "`order_id` pays for a single order" |
| `Coins` | `AwardedOnce`, `RefundedOnce` | Xu are awarded or refunded twice | coin/coin.service.ts:180 and :261: "Idempotent per order" |
| | `ExpiredIsNotSpent` | Xu are spent after they expired | coin/entities/coin-batch.entity.ts:13: "oldest still-valid batch first" |
| `Coupons` | `PerUserLimit` | a customer uses a coupon more often than `max_uses_per_user` (`MaxPerUser = 1`) | `src/share-docs/API_SPEC.md:111` |
| | `CountCoversLive` | a platform coupon's use is counted down twice | coupon/coupon.service.ts:379: "decremented once per coupon" |

In the later modules the same kind of race appears as an excuse of a property that is checked:

* A cancelled order lives again: an admin or seller who read it as pending confirms it by id
  (order.service.ts:859-886 and 1026-1042, order/repositories/order.repository.ts:235) after, before or
  between the reversals of its cancellation, and nothing takes them again. No failure is needed. In `Checkout`
  the order then holds stock and flash units that were given back and may be sold again, beyond the
  quota (`overwritten`); in `Coupons` it has the discount whose use was counted down, so the limit holds for
  the discounts counted, not for such an order (`reopened`); in `Payments` it is unpaid in a group whose payment
  is completed, because the listener had skipped it (`skipped`).
* `Payments`: a seller or an admin sets the payment status of an order either way (`manual`).
* `Checkout`: two cancellations of one order (`overwritten` too); two checkouts that pass the stock check before
  either deducts (`crossed`, in `SoldFromStock`); a deduction that misses and is only logged (`short`); a
  second cart or line, as no unique index forbids one (`twin`); a merge that stops half way and is
  repeated (`torn`).
* `FlashSales`: a seller's edit that was read as pending and is written over an approval (`contested`);
  approvals that do not see one another (`crossed`); a window moved after the approvals it was checked
  for (`moved`).
* `Sessions`: two tabs that present one token at once (`raced`); a logout from a tab whose store holds the
  token of its page load, which every refresh rotates in `localStorage` only: the server revokes the
  old one again and the live one stays usable (`abandoned`), although `src/share-docs/API_SPEC.md:19` says
  "Logout → revoke refresh token".
* `Chat`: a join that is counted after its socket has left (`disturbed`); chat.gateway.ts:49 says the
  count is the "number of that user's sockets in the room". A connection that broke stays in the room until
  the gateway hears of it; the user may have closed the thread since, and a message that comes now is
  born read though no tab shows it (`unheard`, set when none of the sockets counted is any tab's). The count is
  right then, the receipt is not.
* `Access`: a guard that caches what it read before an edit (`stale`); an approval and a rejection of one
  application (`raced`). The approval of an applicant who has a shop already
  takes it as it is (seller-application.service.ts:108): one who opened a shop while his application
  was under review keeps it pending. And a rejected applicant may hold a pending shop an admin then
  makes active (`activated`; shop/shop.service.ts:264 asks nothing of its owner).

## 5. Bounds and fairness

Every race in the code is between two handlers that hold something they read, or a handler and a
cron, so two requests (three for coupons, where a third checkout competes for the use that two
cancellations free) plus the cron are enough to form each; one or two orders because handlers of
different orders meet only in a group, a wallet, a batch, a coupon, a quota or a cart. Bounds on counters
are constants named for it: `MaxRequests`, `MaxCalls`, `MaxStarted`, `MaxCoinCalls`, `MaxBatches`,
`MaxJoins`, `MaxRoom`, `MaxTime`, `MaxQuantity`, `MaxOverwrites`, and the sets of rows (`Txs`, `Withdrawals`, `CartIds`, `Lines`, `Orders`,
`Items`, `Pairs`, `Messages`, `Applications`).

* `checkout`: two carts and three lines are what a merge and a twin need; a quota of one and a stock of
  two and one let checkouts compete for the last unit; three requests (one may finish before the third
  starts) give two checkouts and a cancellation.
* `payments`: `MaxStarted` counts the calls for a payment, the callbacks that find one pending, and the status
  writes of people; cancellations need no bound, as only such a write undoes one.
* `coupons`: one overwritten cancellation is enough to take an order out of the hands of two reversals.
* `flash_sales`: two registrations of one variant in two campaigns, times 0 to 3 so that each deal
  begins and ends, and windows of which one update moves one edge into the other deal.
* `sessions`: a login and two rotations (three pairs); two tabs, each with a call.
* `chat`: one participant with two tabs. What the other one receives has counters of its own that never
  meet his, so he stands for both; two awaited joins per socket show a join that came twice.
* `access`: one permission (its absence and presence are what a check sees), the customers' role edited,
  two of the four shop statuses set (active, and one that is not), an application and the one that follows a rejection.

Symmetry is used for interchangeable requests and rows in runs without liveness only (so not in
`order_group`, `payments` and `coins`); the carts of `discount_allocation` are bounded by the ranges of
their amounts and need none. Deadlock is not checked (`CHECK_DEADLOCK FALSE`) because a bounded system
stops when its calls are used up and, like the real one, has nothing to do when nobody asks and no cron
finds a row; that no client call waits for ever is the invariant `QueuedIsAwaited`.

Fairness is only assumed of time, of the crons and of the database: time passes (`Expire`, `Age`), the
scheduler fires again and again and finds what is due (weak fairness of the reads), and a statement that
is tried in run after run succeeds some time (strong fairness of the write). A cron run may still fail
any number of times. Nothing is assumed of users, gateways or other requests.

## 6. Proofs

Every safety invariant and action property the runs check is a theorem, for every value of the constants
that satisfies the named assumptions beside them. TLC evaluates these assumptions in the runs. They say what
the constants are (functions, naturals, a cron that is no caller) and no more, except that some proofs,
those that count or sum, take the rows that are counted to be finitely many. The bounds on counters are
constants too, so the theorems hold for every bound. Nothing is taken on trust: every leaf is checked by
tlapm.

**Orders** (`OrdersProofs`, under `OrderAssumption`): `TypeCorrect`, `DeliveryIsDated`, `NoMoneyBeforeDelivery`,
`ShipperIsKept` and `SettledRest`. `DeliveredIsDated` is not
inductive: a handler that has checked `delivered` may write much later. The inductive invariant adds
what a handler in flight knows: one that is about to write `completed` or `return_requested`, or is settling
`completed`, names only orders with a delivery date; and a date, once set, is never unset. This is what
makes stale writes harmless for these properties and harmful for those of section 4. `SettledRest` rests on a
second invariant: a handler has invoked the effects before the one it is at (`EffectsInOrder`), and
what an order's status requires was invoked, is still owed by a handler that wrote that status, or
was given up with a handler that failed (`OwedOrDone`); a later write of another status makes its own
handler the one that owes.

**Payments** (`OrdersProofs`, under `PaymentAssumption`): `PaymentTypeCorrect`, `CompletedCollected`,
`PaidCollected` and `CompletedSettled`. The
invariant ties a verified callback, and the listener's call that follows it, to a transaction the
gateway collected; and says of a completed payment that each order of its group is paid, was skipped as
cancelled, was marked by a person, or is in the hands of a listener: which is what lets cancellations and
confirmations come and go between the listener's read and its UPDATE.

**Seller finance** (`LedgersProofs`, under `FinanceAssumption`): `TypeCorrect` (in particular no net or
commission is ever negative, from `0 <= rate <= 100`), `DebtIsReversal`, `ReversalIsCharged`,
`HoldsBooked`, `BooksAlwaysAgree`, `BalancesAreLedgers` and `LedgerImplemented` (each step of the feature is
one `Post` of the ledger or leaves it alone). The invariant records what each job carries: a reversal's row
repeats a charge that is in the ledger, and a review in flight names a withdrawal whose hold is booked.
The sums over a ledger change by the entry an action appends (`SumAdd`), which is all `BooksAlwaysAgree` and
`BalancesAreLedgers` need.

**Coins** (`LedgersProofs`, under `CoinAssumption`): `CoinTypeCorrect`, `NeverOverspent`,
`ClosedStaysEmpty` and `BatchesBooked`. A credit writes its batch and its entry in two awaits, and an entry
names its batch. The invariant (`CoinInv`) says that a credit still in flight is the only one of its batch
and carries what the batch was issued for (`InFlight`), that the same holds of one in the ledger, which is there
once (`InLedger`), and that every batch not in `torn` has one or the other (`Backed`). A redemption reads
the batches in order and takes from each what is left to take; the model states this as the one
function that satisfies the loop's recurrence, so it is proved first that there is such a function
(`LeftIsDefined`), that each part is within its batch (`Taking`), and that the parts add up to the amount
entered (`PartsAddUp`). Then what was redeemed and what is left never exceed what was issued.

**Coupons** (`LedgersProofs`, under `CouponAssumption`): `CouponTypeCorrect`, `ReversedCancelled`, `CountExact`,
`NoLeak` and `WithinLimit`. `current_uses` is bounded from both sides. From above (`NotMore`) by
the checkouts no reversal has touched and the reversals that have flipped a row and not decremented
yet: a second cancellation that flips another row of a platform coupon touches a checkout already
touched, which is why it leaks nothing. From below (`NotLess`), for a shop's coupon only, by the
checkouts with an applied use: there is one row in each (`OneRow`), so a reversal that flips it ends that
checkout's use. The bounds meet, and that is the exact count. None of
them speaks of the orders' status: that a use is reversed only for what was cancelled is an invariant of its
own, which holds of `cancelled` as it was when a stale write took an order out of it (`reopened`).

**Checkout** (`CheckoutProofs`, under `CartAssumption` and `CheckoutAssumption`, which takes orders and
requests to be finite sets): `CheckoutTypeCorrect`, `SoldIsAlwaysLive`,
`StockIsAlwaysExact`, `QuotaAlwaysHolds`, `CartIsAlwaysKept` and `CheckoutImplementsPurchases`. Four invariants,
each resting on those before it:

* `SInv`: types, and what a job in flight names (`JobsSound`): rows of the variants it works on, units that
  belong to an order.
* `LInv`: an open transaction holds the row lock of each flash item it has taken from, so no other has taken
  from it (`OneLock`), and what it took is within the quota together with what is sold (`WithinQuota`).
* `SalesInv`: for a variant nothing excuses (`overwritten` and `leaked` among it), the quota's counter is what live orders took plus what cancellations
  have still to give back (`SoldAgrees`), and never less than that whatever fails (`Covers`); stock, live
  orders and what is still to be restored make the starting stock and what is still to be deducted
  (`StockAgrees`). These are sums over orders and over requests, and each action moves one term from one sum to
  another.
* `KInv`: a variant is worked on by one request unless it is in `raced` (`OneAtWork`), an owner has one cart
  unless it is `twin` (`OneCart`), and then what a job has read of the lines of a variant is still so
  (`Knows`): the quantity of the line it will overwrite, the units of the cart it copies or orders. At rest
  the lines hold what was put in and not ordered (`Balanced`).

The refinement maps a commit to `Buy`, the UPDATE that gives an item's units back to `GiveBack`, and every
other step to a stutter.

**Discounts** (`CheckoutProofs`, under `AllocationAssumption`: finitely many shops, and a coupon applies to no
more than a shop's subtotal): `AllocationTypeCorrect`, `TotalsNotNegative`, `DiscountsPouredOut`,
`RoundsAreBounded` and `SharesAreFair`. The invariant says that no shop is given more than its room nor all of
them more than was asked (`WithinCaps`, `WithinTarget`), that the rooms are the ones of the pass at work
(`Rooms`), and that every round but the last closes a shop (`RoundsLeft`). The last makes the termination of
`allocateWithCaps` a safety property: `RoundsAreBounded` bounds its rounds by the number of shops. The parts
of a round, rounded to the largest remainders, add up to what is left, so a round that closes no shop leaves
nothing.

**Sums.** The library's induction theorems take an operator as a parameter, which the provers cannot
instantiate. `Sums` states induction over subsets of a finite set for a *set* of subsets instead, which
serves as well and needs no operator; from it follow the facts the proofs above use: how a sum
changes with one element (`SumRemove`, `SumAdd`, `SumChange`), when two sums are equal or ordered (`SumSame`,
`SumMonotone`), and sums of sums, of ones and over images (`SumPlus`, `SumCount`, `SumImage`).

**Flash sales** (`FlashSalesProofs`): `TypeCorrect`, `WithinQuota`, `AsReviewed`, `OnePrice` and `WindowsValid`. A
registration's row is safe by itself; what endangers it is a handler that read the row and has not written
yet. So the invariant says what each job's reading is still good for (`Sound`: a seller's job still finds the
row unapproved and its new quantity enough for what was sold, an admin's still finds the quantity it
read), and that a seller's and an admin's job at one registration are never there together unless the
registration is `contested` (`Apart`). One price per variant needs the same of an approval's check: what it
read of the registration and its campaign is still there (`Named`), what it found clear still is (`Checked`),
and another approval of the variant is in `crossed` (`Crossing`). That the check lasts is
`Stays`: a campaign that has an approved registration, or one being approved, keeps its window and does not
come back to life without being in `moved`. `WindowsValid` states `WindowIsValid`, which no run checks by name: an update in
flight leaves a valid window (`Checks`) because a second one is in `patched` (`Single`).

**Roles and applications** (`AccessProofs`): `TypeCorrect`, `CacheFresh`, `ApprovedSells` and `RejectedSellsNot` from three
invariants: a cached entry agrees with the table unless an edit of its role is in flight (`Fresh`), and a
guard no write has overtaken carries what the table holds (`Clean`); behind an application marked approved stand the shop and the role because each write of an
approval finds the earlier ones in place (`InOrder`); and a customer has one open application (`Alone`,
`Open`), so that whoever has the role or a vetted shop has it from an application that is approved, is
about to be, or was raced for (`Vetted`), or from an admin (`granted`, `activated`), never
from a rejected one.

**Sessions** (`SessionsProofs`): `TypeCorrect`, `QueueAwaited`, `LiveKept`, `OneLive` and `KeptLive`. The types
need that every token anything holds was issued before (`Issued`). A queue has its refresh
(`Awaited`) because a tab never has two (`OneRefresh`). A live token is kept since a token that was
revoked or rotated never becomes live again (`Spent`). One live token per login rests on who may still
write one: the refresh that presented a token and is between its revocation and the insert
(`OneJob`, `Rotating`) inherits the login (`Inherits`), and what the browser stored is what it holds
(`StoredIsHeld`); a browser's token that is not live has its successor on its way (`OnItsWay`) or has lost
the tab that asked (`Orphaned`).

**Chat** (`ChatProofs`): `TypeCorrect`, `RoomExact`, `UnreadExact` and `ReadSeen` for finitely many sockets,
messages and requests. Presence is counted exactly because a tab's connection is always one the server
holds for that user (`Linked`). The unread counter plus the sends that have yet to count (`Owing`) is the
number of unread messages (`Tally`); this survives a `markRead` because one that meets no message finds
nothing unread when it resets the counter (`ResetsAreLast`), and a message that is owed is still
unread (`OwedIsUnread`). A receipt is true when it is decided (`Receipted`): the room counts
its sockets (`RoomCounts`), and behind each is a tab that shows the thread (`Shown`) or a connection the
gateway has not heard is gone.

**Model-checked only**: liveness (`DeliveredEnds`, `PendingEnds`, `ExpiredIsSwept`). It depends on fairness and
ENABLED, which are beyond the prover.

## 7. Not modelled

* Formatting, DTO validation, pagination, permissions of endpoints, mail, uploads, dashboards,
  homepage, the React pages: no protocol of their own. They are most of the repository's lines.
* Products, categories, reviews, wishlist, recently viewed, addresses, settings: rows that one request
  writes and nothing else depends on. Two requests of one user may leave two default addresses
  (user-profile/user-profile.service.ts:116); only the address the checkout page preselects reads the flag.
* AI chat answers and recommendations' scores: the behaviour is a language model's or a query's.
* Notifications and tracking rows: written last, read by people only; an effect `notify` stands for them.
* Registration, verification codes, password reset and OAuth: the steps of one user in a row, decided by
  hashing, mail and external providers.
* Gateway signatures and amounts: a callback that fails them changes nothing. MoMo and VNPay
  themselves are external: a gateway decides once and reports late, repeatedly or never.
* Coupons and Xu inside the checkout's transaction: `Checkout` treats them as one more reason to fail;
  their own concurrency is in `Coupons` and `Coins`.
* Isolation is PostgreSQL's READ COMMITTED: an UPDATE with a WHERE clause re-evaluates it on the
  current row. Several backend processes behave like more handlers, except that each has a permission
  cache and presence maps of its own; one process is modelled.

## 8. Plan

Done, in this order: `OrderLifecycle` with its proofs; `WalletLedger` and `SellerFinance` with the
refinement and its proofs; `Payments` and its proofs; `Coins`; `Coupons`; `DiscountAllocation`; `Carts`
and `Checkout` with its refinement of `Purchases`; `FlashSales` and its proofs; `Sessions`; `Chat`; `Access`; the
proofs of the last three and of `Coupons`; sums, and with them the proofs of `Checkout` and its refinement,
`DiscountAllocation`, `Coins` and the sums of `SellerFinance`.

Left: addresses (one default per user), verification codes (attempts and expiry under concurrent guesses)
and reviews (one per order item): small check-then-act protocols of one table each.
