------------------------------- MODULE Coins --------------------------------
(***************************************************************************)
(* The Xu cashback of one customer: coin.service.ts over coin_batches (the *)
(* lots, spent oldest first) and coin_transactions (the ledger).            *)
(*                                                                         *)
(* Redemption runs inside the checkout transaction: it reads the batches   *)
(* and debits them with guarded UPDATEs whose row locks are held until the *)
(* commit, so the debits are one step taken at the commit.  Everything     *)
(* else - award, refund, reversal and the expiry cron - awaits one         *)
(* statement after the other without a transaction.                        *)
(***************************************************************************)
EXTENDS Integers, Sequences, FiniteSets, Functions, Bags

CONSTANTS
  CoinOrders,
  Earn,        \* [CoinOrders -> Nat]  Xu awarded on completion (computeEarnAmount)
  Discount,    \* [CoinOrders -> Nat]  orders.coin_discount, refunded on cancellation
  Wants,       \* Xu a customer asks to redeem, at most the checkout's cap
  Callers,    \* order handlers and checkouts in flight
  Cron,        \* expireCoinBatches
  MaxBatches,  \* bound: rows of coin_batches
  MaxCoinCalls     \* bound: calls accepted

ASSUME CoinAssumption ==
  /\ Earn \in [CoinOrders -> Nat]
  /\ Discount \in [CoinOrders -> Nat]
  /\ Wants \subseteq Nat \ {0}
  /\ Cron \notin Callers
  /\ MaxBatches \in Nat /\ MaxCoinCalls \in Nat

VARIABLES
  batch,   \* Seq(Batch)         coin_batches, by id and by expires_at
  entries,  \* bag of CoinEntry      coin_transactions, the ledger
  work,     \* [CoinHandlers -> CoinJob]
  accepted,  \* calls accepted so far
  torn     \* history: batches whose ledger entry a failure prevented

coinVars == <<batch, entries, work, accepted, torn>>

NoOrder == "none"
NoBatch == 0
BatchIds == 1 .. MaxBatches

\* due: expires_at has passed.  expiry_days is taken as fixed, so batches expire
\* in the order of their ids.
Batch == [source : CoinOrders \cup {NoOrder}, earned : Nat, remaining : Nat, due : BOOLEAN,
          status : {"active", "depleted", "expired", "reversed"}]

CoinEntry == [type : {"earn", "redeem", "expire", "reverse_earn", "refund"},
          order : CoinOrders \cup {NoOrder}, batch : BatchIds \cup {NoBatch}, amount : Nat]

\* The entries that an order causes name the batch they are about.
OrderEntry == {e \in CoinEntry : e.type \in {"earn", "refund", "reverse_earn"} /\ e.batch \in BatchIds}

CoinHandlers == Callers \cup {Cron}

AtRest == [op |-> "idle"]

Held == [id : BatchIds, amount : Nat]  \* a batch as it was read

CoinJob ==
  {AtRest}
  \cup [op : {"create"}, type : {"earn", "refund"}, order : CoinOrders]
  \cup [op : {"lookup"}, order : CoinOrders]
  \cup [op : {"reverse"}, order : CoinOrders, held : Held]
  \cup [op : {"enter"}, entry : OrderEntry]
  \cup [op : {"find"}, amount : Nat]
  \cup [op : {"consume"}, amount : Nat, found : [BatchIds -> Nat]]
  \cup [op : {"sweep"}, todo : SUBSET Held]
  \cup [op : {"log"}, held : Held, todo : SUBSET Held]

CoinTypeOK ==
  /\ batch \in Seq(Batch) /\ Len(batch) <= MaxBatches
  /\ IsABag(entries) /\ BagToSet(entries) \subseteq CoinEntry
  /\ work \in [CoinHandlers -> CoinJob]
  /\ accepted \in Nat
  /\ torn \subseteq BatchIds

CoinInit ==
  /\ batch = <<>>
  /\ entries = EmptyBag
  /\ work = [r \in CoinHandlers |-> AtRest]
  /\ accepted = 0
  /\ torn = {}

-----------------------------------------------------------------------------
CoinEntryExists(o, type) ==
  \E e \in BagToSet(entries) : e.order = o /\ e.type = type

Spendable(i) == batch[i].status = "active" /\ batch[i].remaining > 0 /\ ~batch[i].due

Remaining == [i \in DOMAIN batch |-> batch[i].remaining]

getActiveBalance == SumFunctionOnSet(Remaining, {i \in DOMAIN batch : Spendable(i)})

AsRead(i) == [id |-> i, amount |-> batch[i].remaining]

AcceptCall(r) == work[r] = AtRest /\ accepted < MaxCoinCalls /\ accepted' = accepted + 1

Do(r, job) == work' = [work EXCEPT ![r] = job]

Enter(e) == entries' = entries (+) SetToBag({e})

-----------------------------------------------------------------------------
(* awardForOrder and refundRedemptionForOrder: guard, batch, ledger entry.    *)

Credited(type, o) == IF type = "earn" THEN Earn[o] ELSE Discount[o]

\* The guard looks for the ledger entry, which is written last.
BeginCredit(r, type, o) ==
  /\ AcceptCall(r)
  /\ ~CoinEntryExists(o, type)
  /\ Credited(type, o) > 0
  /\ Do(r, [op |-> "create", type |-> type, order |-> o])
  /\ UNCHANGED <<batch, entries, torn>>

\* Mutant: the ledger entry records the batch of an earlier credit.
CreateBatchOffByOne(r) ==
  LET job == work[r]
      n   == Credited(job.type, job.order)
  IN
  /\ job.op = "create"
  /\ Len(batch) < MaxBatches
  /\ batch' = Append(batch,
       [source |-> IF job.type = "earn" THEN job.order ELSE NoOrder,
        earned |-> n, remaining |-> n, due |-> FALSE, status |-> "active"])
  /\ Do(r, [op |-> "enter", entry |-> [type |-> job.type, order |-> job.order,
                                         batch |-> Len(batch), amount |-> n]])
  /\ UNCHANGED <<entries, accepted, torn>>

\* A refund's batch has no source order, so it is never taken for an earn batch.
CreateBatch(r) ==
  LET job == work[r]
      n   == Credited(job.type, job.order)
  IN
  /\ job.op = "create"
  /\ Len(batch) < MaxBatches
  /\ batch' = Append(batch,
       [source |-> IF job.type = "earn" THEN job.order ELSE NoOrder,
        earned |-> n, remaining |-> n, due |-> FALSE, status |-> "active"])
  /\ Do(r, [op |-> "enter", entry |-> [type |-> job.type, order |-> job.order,
                                         batch |-> Len(batch) + 1, amount |-> n]])
  /\ UNCHANGED <<entries, accepted, torn>>

\* The ledger insert that ends an award, a refund or a reversal.
EnterLedger(r) ==
  /\ work[r].op = "enter"
  /\ Enter(work[r].entry)
  /\ Do(r, AtRest)
  /\ UNCHANGED <<batch, accepted, torn>>

-----------------------------------------------------------------------------
(* reverseEarnForOrder. *)

BeginReverse(r, o) ==
  /\ AcceptCall(r)
  /\ ~CoinEntryExists(o, "reverse_earn")
  /\ Do(r, [op |-> "lookup", order |-> o])
  /\ UNCHANGED <<batch, entries, torn>>

\* findEarnBatchByOrderId returns one batch of the order; reverseEarnBatch reads
\* it and stops when it is reversed already.
Lookup(r) ==
  LET found == {i \in DOMAIN batch : batch[i].source = work[r].order} IN
  /\ work[r].op = "lookup"
  /\ \/ found = {} /\ Do(r, AtRest)
     \/ \E i \in found :
          Do(r, IF batch[i].status = "reversed" THEN AtRest
                  ELSE [op |-> "reverse", order |-> work[r].order, held |-> AsRead(i)])
  /\ UNCHANGED <<batch, entries, accepted, torn>>

\* Mutant: the UPDATE leaves amount_remaining.
ReverseKeepingRemainder(r) ==
  LET i == work[r].held.id
      n == work[r].held.amount
  IN
  /\ work[r].op = "reverse"
  /\ batch' = [batch EXCEPT ![i].status = "reversed"]
  /\ Do(r, IF n = 0 THEN AtRest
             ELSE [op |-> "enter", entry |-> [type |-> "reverse_earn", order |-> work[r].order,
                                              batch |-> i, amount |-> n]])
  /\ UNCHANGED <<entries, accepted, torn>>

\* The UPDATE zeroes the batch; the entry claims the remainder read before.
Reverse(r) ==
  LET i == work[r].held.id
      n == work[r].held.amount
  IN
  /\ work[r].op = "reverse"
  /\ batch' = [batch EXCEPT ![i].status = "reversed", ![i].remaining = 0]
  /\ Do(r, IF n = 0 THEN AtRest
             ELSE [op |-> "enter", entry |-> [type |-> "reverse_earn", order |-> work[r].order,
                                              batch |-> i, amount |-> n]])
  /\ UNCHANGED <<entries, accepted, torn>>

-----------------------------------------------------------------------------
(* Redemption at checkout. *)

Least(m, n) == IF m <= n THEN m ELSE n

\* validateRedemption clamps the request to the balance, before the transaction.
ValidateRedemption(r, want) ==
  /\ AcceptCall(r)
  /\ Least(want, getActiveBalance) > 0
  /\ Do(r, [op |-> "find", amount |-> Least(want, getActiveBalance)])
  /\ UNCHANGED <<batch, entries, torn>>

\* findConsumableBatches: what each batch holds, 0 for those the query leaves out.
FindBatches(r) ==
  /\ work[r].op = "find"
  /\ Do(r, [op |-> "consume", amount |-> work[r].amount,
            found |-> [i \in BatchIds |-> IF i \in DOMAIN batch /\ Spendable(i)
                                          THEN batch[i].remaining ELSE 0]])
  /\ UNCHANGED <<batch, entries, accepted, torn>>

\* What remains to be taken after each batch, oldest first: consume's guard compares
\* the amount wanted of the batch as it was read with the batch as it is now.
LeftAfter(amount, found) ==
  LET left[i \in 0 .. Len(batch)] ==
        IF i = 0 THEN amount
        ELSE LET take == Least(left[i - 1], found[i]) IN
             IF batch[i].remaining >= take THEN left[i - 1] - take ELSE left[i - 1]
  IN left

\* Mutant: the debit writes what was read minus what is taken.
RedeemFromSnapshot(r) ==
  LET found    == work[r].found
      left     == LeftAfter(work[r].amount, found)
      Taken(i) == left[i - 1] - left[i]
  IN
  /\ work[r].op = "consume"
  /\ IF left[Len(batch)] > 0
     THEN UNCHANGED <<batch, entries>>
     ELSE /\ batch' = [i \in DOMAIN batch |->
               IF Taken(i) = 0 THEN batch[i]
               ELSE [batch[i] EXCEPT !.remaining = found[i] - Taken(i),
                                     !.status = IF found[i] = Taken(i) THEN "depleted" ELSE @]]
          /\ Enter([type |-> "redeem", order |-> NoOrder, batch |-> NoBatch,
                    amount |-> work[r].amount])
  /\ Do(r, AtRest)
  /\ UNCHANGED <<accepted, torn>>

\* redeemForCheckout from its first debit to the commit of the checkout; when
\* something remains the checkout is rolled back (COIN_001).
Redeem(r) ==
  LET left     == LeftAfter(work[r].amount, work[r].found)
      Taken(i) == left[i - 1] - left[i]
  IN
  /\ work[r].op = "consume"
  /\ IF left[Len(batch)] > 0
     THEN UNCHANGED <<batch, entries>>
     ELSE /\ batch' = [i \in DOMAIN batch |->
               IF Taken(i) = 0 THEN batch[i]
               ELSE [batch[i] EXCEPT !.remaining = @ - Taken(i),
                                     !.status = IF batch[i].remaining = Taken(i)
                                                THEN "depleted" ELSE @]]
          /\ Enter([type |-> "redeem", order |-> NoOrder, batch |-> NoBatch,
                    amount |-> work[r].amount])
  /\ Do(r, AtRest)
  /\ UNCHANGED <<accepted, torn>>

-----------------------------------------------------------------------------
(* The daily expiry cron. *)

\* Mutant: the cron looks for batches that are not due yet.
SweepReadNotDue ==
  LET found == {i \in DOMAIN batch : Spendable(i)} IN
  /\ work[Cron] = AtRest
  /\ found # {}
  /\ Do(Cron, [op |-> "sweep", todo |-> {AsRead(i) : i \in found}])
  /\ UNCHANGED <<batch, entries, accepted, torn>>

\* findExpiredActiveBatches.
SweepRead ==
  LET found == {i \in DOMAIN batch :
                  batch[i].status = "active" /\ batch[i].due /\ batch[i].remaining > 0}
  IN
  /\ work[Cron] = AtRest
  /\ found # {}
  /\ Do(Cron, [op |-> "sweep", todo |-> {AsRead(i) : i \in found}])
  /\ UNCHANGED <<batch, entries, accepted, torn>>

\* markExpired, whatever became of the batch since.
MarkExpired ==
  /\ work[Cron].op = "sweep"
  /\ \E h \in work[Cron].todo :
       /\ batch' = [batch EXCEPT ![h.id].status = "expired"]
       /\ Do(Cron, [op |-> "log", held |-> h, todo |-> work[Cron].todo \ {h}])
  /\ UNCHANGED <<entries, accepted, torn>>

LogExpired ==
  /\ work[Cron].op = "log"
  /\ Enter([type |-> "expire", order |-> NoOrder, batch |-> work[Cron].held.id,
            amount |-> work[Cron].held.amount])
  /\ Do(Cron, IF work[Cron].todo = {} THEN AtRest
                ELSE [op |-> "sweep", todo |-> work[Cron].todo])
  /\ UNCHANGED <<batch, accepted, torn>>

-----------------------------------------------------------------------------
\* The expiry date of the oldest batch that has not expired yet passes.
Expire(i) ==
  /\ i \in DOMAIN batch
  /\ ~batch[i].due
  /\ \A j \in 1 .. i - 1 : batch[j].due
  /\ batch' = [batch EXCEPT ![i].due = TRUE]
  /\ UNCHANGED <<entries, work, accepted, torn>>

\* A statement throws, a checkout rolls back or the process dies.
CoinFail(r) ==
  /\ work[r] # AtRest
  /\ Do(r, AtRest)
  /\ torn' = IF work[r].op = "enter" THEN torn \cup {work[r].entry.batch} ELSE torn
  /\ UNCHANGED <<batch, entries, accepted>>

CoinHandler(r) ==
  \/ \E o \in CoinOrders : \E t \in {"earn", "refund"} : BeginCredit(r, t, o)
  \/ \E o \in CoinOrders : BeginReverse(r, o)
  \/ \E want \in Wants : ValidateRedemption(r, want)
  \/ CreateBatch(r) \/ EnterLedger(r)
  \/ Lookup(r) \/ Reverse(r)
  \/ FindBatches(r) \/ Redeem(r)

CoinNext ==
  \/ \E r \in Callers : CoinHandler(r)
  \/ SweepRead \/ MarkExpired \/ LogExpired
  \/ \E i \in BatchIds : Expire(i)
  \/ \E r \in CoinHandlers : CoinFail(r)

CoinSpec == CoinInit /\ [][CoinNext]_coinVars

StillActive(i) == i \in DOMAIN batch /\ batch[i].status = "active"

\* The cron fires every day and goes on unless it fails, and an UPDATE that is
\* tried again and again succeeds some time.
CoinFairness ==
  /\ WF_coinVars(SweepRead)
  /\ \A i \in BatchIds : SF_coinVars(MarkExpired /\ StillActive(i) /\ ~StillActive(i)')
  /\ WF_coinVars(MarkExpired)
  /\ WF_coinVars(LogExpired)

FairCoinSpec == CoinSpec /\ CoinFairness

-----------------------------------------------------------------------------
(* Safety. *)

Booked(type) == {e \in BagToSet(entries) : e.type = type}

Worth == [e \in BagToSet(entries) |-> e.amount * entries[e]]

Earned == [i \in DOMAIN batch |-> batch[i].earned]

\* Xu are never spent twice: what checkouts redeemed and what is left in the
\* batches never exceeds what was issued, whichever checkouts, reversals and
\* expiries overlap ("Atomic per-batch guards prevent over-consumption under
\* concurrency").
SpentWithinIssued ==
  SumFunctionOnSet(Worth, Booked("redeem")) + SumFunctionOnSet(Remaining, DOMAIN batch)
    <= SumFunctionOnSet(Earned, DOMAIN batch)

\* A batch that is used up or taken back holds nothing any late debit could take.
ClosedIsEmpty ==
  \A i \in DOMAIN batch : batch[i].status \in {"depleted", "reversed"} => batch[i].remaining = 0

Credits(e, i) == e.type \in {"earn", "refund"} /\ e.batch = i

\* Unless a failure came between the two inserts, every batch has the one ledger
\* entry that credits it, for its full amount, or is about to get it.
BatchesAreBooked ==
  \A i \in DOMAIN batch \ torn :
    \/ \E r \in Callers : work[r].op = "enter" /\ Credits(work[r].entry, i)
    \/ /\ Cardinality({e \in BagToSet(entries) : Credits(e, i)}) = 1
       /\ \A e \in BagToSet(entries) : Credits(e, i) =>
            e.amount = batch[i].earned /\ entries[e] = 1

(* Liveness. *)

\* Xu that have expired leave the books: the cron ends every batch past its date.
ExpiredIsSwept ==
  \A i \in BatchIds : (StillActive(i) /\ batch[i].due) ~> ~StillActive(i)

-----------------------------------------------------------------------------
(* What the comments say of Xu, and the code does not keep. *)

CreditsOf(o, type) ==
  LET those == {e \in Booked(type) : e.order = o} IN
  SumFunctionOnSet([e \in those |-> entries[e]], those)

\* coin.service.ts:180 "Idempotent per order (guarded by an existing `earn` txn)".
AwardedOnce == \A o \in CoinOrders : CreditsOf(o, "earn") <= 1

\* coin.service.ts:261 a refund is "Idempotent per order".
RefundedOnce == \A o \in CoinOrders : CreditsOf(o, "refund") <= 1

\* coin-batch.entity.ts: consumed "oldest still-valid batch first": a batch the
\* cron has expired is not spent.
ExpiredIsNotSpent ==
  [][\A i \in DOMAIN batch :
       batch[i].status = "expired" => batch'[i].remaining \in {0, batch[i].remaining}]_coinVars

=============================================================================
