--------------------------- MODULE SellerFinance ----------------------------
(***************************************************************************)
(* The seller-finance feature: commission.service.ts, withdrawal.service.ts*)
(* and their repositories, called by the order feature (charge on          *)
(* completion, reverse on cancellation), by sellers and by admins.         *)
(*                                                                         *)
(* Each database transaction is one step, taken when it commits.  What is  *)
(* read before a transaction - the idempotency guard of the commission     *)
(* ledger, the pending check of a review - is a step of its own, and the   *)
(* handler `req[r]` remembers what it will write.                          *)
(***************************************************************************)
EXTENDS Integers, Sequences, FiniteSets

CONSTANTS
  Sellers,
  Orders,       \* orders the order feature completes or cancels
  SellerOf,     \* [Orders -> Sellers]
  Gross,        \* [Orders -> Int]  commissionBase: total_amount - shipping_fee
  Withdrawals,  \* rows withdrawal_requests may get; bounds their number
  Amounts,      \* amounts sellers ask for
  Rates,        \* values commission.rate_percent takes
  Requests,     \* handlers in flight
  MaxCalls      \* bound: charge and reverse calls, and config updates, accepted

ASSUME FinanceAssumption ==
  /\ SellerOf \in [Orders -> Sellers]
  /\ Gross \in [Orders -> Int]
  /\ Amounts \subseteq Nat \ {0}
  /\ Rates \subseteq 0 .. 100
  /\ Rates # {}
  /\ MaxCalls \in Nat

VARIABLES
  config,       \* app_settings commission.enabled and commission.rate_percent
  wallet,       \* [Sellers -> Int]                seller_wallets.balance
  ledger,       \* Seq(WalletRow)                  wallet_transactions
  commissions,  \* Seq(CommissionRow)              commission_transactions
  withdrawal,   \* [Withdrawals -> WithdrawalRow]  withdrawal_requests
  req,          \* [Requests -> Job]
  called        \* calls accepted so far

vars == <<config, wallet, ledger, commissions, withdrawal, req, called>>

Book == INSTANCE WalletLedger WITH
          Users <- Sellers, Refs <- Orders \cup Withdrawals,
          balance <- wallet, entries <- ledger

CommissionRow == [order : Orders, type : {"charge", "reverse"}, base : Nat, commission : Nat]

WithdrawalRow == [user : Sellers, amount : Amounts, status : {"pending", "approved", "rejected"}]
NoRow == [status |-> "none"]

Idle == [op |-> "idle"]

\* What a handler still has to do: find the charge it reverses, write a
\* commission row with its wallet movement, or settle a review.
Job ==
  {Idle}
  \cup [op : {"find"}, order : Orders]
  \cup [op : {"book"}, row : CommissionRow]
  \cup [op : {"approve", "reject"}, wd : Withdrawals]

TypeOK ==
  /\ config \in [enabled : BOOLEAN, rate : Rates]
  /\ wallet \in [Sellers -> Int]
  /\ ledger \in Seq(Book!Entry)
  /\ commissions \in Seq(CommissionRow)
  /\ withdrawal \in [Withdrawals -> WithdrawalRow \cup {NoRow}]
  /\ req \in [Requests -> Job]
  /\ called \in Nat

Init ==
  /\ config \in [enabled : BOOLEAN, rate : Rates]
  /\ wallet = [s \in Sellers |-> 0]
  /\ ledger = <<>>
  /\ commissions = <<>>
  /\ withdrawal = [w \in Withdrawals |-> NoRow]
  /\ req = [r \in Requests |-> Idle]
  /\ called = 0

-----------------------------------------------------------------------------
RowsOf(o, type) == {i \in DOMAIN commissions : commissions[i].order = o /\ commissions[i].type = type}

existsByOrderAndType(o, type) == RowsOf(o, type) # {}

\* flatCommission: whole dong, rounded down.
flatCommission(base, rate) == (base * rate) \div 100

Net(row) == row.base - row.commission

Call == called < MaxCalls /\ called' = called + 1

Entry(user, type, amount, ref) ==
  [user |-> user, type |-> type, amount |-> amount, ref |-> ref]

Done(r) == req' = [req EXCEPT ![r] = Idle]

-----------------------------------------------------------------------------
(* Settings. *)

\* updateCommissionConfig upserts one key at a time.
UpdateCommissionConfig ==
  /\ Call
  /\ \/ \E b \in BOOLEAN : config' = [config EXCEPT !.enabled = b]
     \/ \E p \in Rates : config' = [config EXCEPT !.rate = p]
  /\ UNCHANGED <<wallet, ledger, commissions, withdrawal, req>>

-----------------------------------------------------------------------------
(* Commission: the order feature calls chargeForOrder and reverseForOrder as *)
(* often as its own races let it, so no call is ruled out here.              *)

\* The reads of the configuration and of the guard are one step: charges only
\* accumulate, so a guard that passes later would have passed with the config.
ChargeForOrder(r, o) ==
  /\ req[r] = Idle
  /\ Call
  /\ config.enabled
  /\ ~existsByOrderAndType(o, "charge")
  /\ Gross[o] > 0
  /\ req' = [req EXCEPT ![r] =
       [op |-> "book",
        row |-> [order |-> o, type |-> "charge", base |-> Gross[o],
                 commission |-> flatCommission(Gross[o], config.rate)]]]
  /\ UNCHANGED <<config, wallet, ledger, commissions, withdrawal>>

ReverseForOrder(r, o) ==
  /\ req[r] = Idle
  /\ Call
  /\ ~existsByOrderAndType(o, "reverse")
  /\ req' = [req EXCEPT ![r] = [op |-> "find", order |-> o]]
  /\ UNCHANGED <<config, wallet, ledger, commissions, withdrawal>>

\* findByOrderAndType: any charge of the order; without one nothing is reversed.
FindCharge(r) ==
  /\ req[r].op = "find"
  /\ LET charges == RowsOf(req[r].order, "charge") IN
       \/ charges = {} /\ Done(r)
       \/ \E i \in charges :
            req' = [req EXCEPT ![r] =
              [op |-> "book", row |-> [commissions[i] EXCEPT !.type = "reverse"]]]
  /\ UNCHANGED <<config, wallet, ledger, commissions, withdrawal, called>>

\* Mutant: the wallet row of a reversal carries the type of a payout.
BookCommissionMistyped(r) ==
  LET row == req[r].row
      s   == SellerOf[row.order]
      net == Net(row)
  IN
  /\ req[r].op = "book"
  /\ commissions' = Append(commissions, row)
  /\ \/ /\ row.type = "charge"
        /\ wallet' = [wallet EXCEPT ![s] = @ + net]
        /\ ledger' = Append(ledger, Entry(s, "sale_earning", net, row.order))
     \/ /\ row.type = "reverse"
        /\ wallet' = [wallet EXCEPT ![s] = @ - net]
        /\ ledger' = Append(ledger, Entry(s, "withdrawal", net, row.order))
  /\ Done(r)
  /\ UNCHANGED <<config, withdrawal, called>>

\* The transaction of either: the commission row, the wallet movement and the
\* wallet row commit together.  A reversal debits without looking at the balance.
BookCommission(r) ==
  LET row == req[r].row
      s   == SellerOf[row.order]
      net == Net(row)
  IN
  /\ req[r].op = "book"
  /\ commissions' = Append(commissions, row)
  /\ \/ /\ row.type = "charge"
        /\ wallet' = [wallet EXCEPT ![s] = @ + net]
        /\ ledger' = Append(ledger, Entry(s, "sale_earning", net, row.order))
     \/ /\ row.type = "reverse"
        /\ wallet' = [wallet EXCEPT ![s] = @ - net]
        /\ ledger' = Append(ledger, Entry(s, "reversal", net, row.order))
  /\ Done(r)
  /\ UNCHANGED <<config, withdrawal, called>>

-----------------------------------------------------------------------------
(* Withdrawals. *)

\* Mutant: the debit does not check the balance.
RequestWithdrawalUnchecked(s, w, a) ==
  /\ withdrawal[w] = NoRow
  /\ wallet' = [wallet EXCEPT ![s] = @ - a]
  /\ withdrawal' = [withdrawal EXCEPT ![w] = [user |-> s, amount |-> a, status |-> "pending"]]
  /\ ledger' = Append(ledger, Entry(s, "withdrawal", a, w))
  /\ UNCHANGED <<config, commissions, req, called>>

\* The hold: debitIfSufficient checks and debits in one UPDATE, and the request
\* and the ledger row are written in the same transaction.
RequestWithdrawal(s, w, a) ==
  /\ withdrawal[w] = NoRow
  /\ wallet[s] >= a
  /\ wallet' = [wallet EXCEPT ![s] = @ - a]
  /\ withdrawal' = [withdrawal EXCEPT ![w] = [user |-> s, amount |-> a, status |-> "pending"]]
  /\ ledger' = Append(ledger, Entry(s, "withdrawal", a, w))
  /\ UNCHANGED <<config, commissions, req, called>>

\* getPending, with the decision that follows it.
Review(r, w, decision) ==
  /\ req[r] = Idle
  /\ withdrawal[w].status = "pending"
  /\ req' = [req EXCEPT ![r] = [op |-> decision, wd |-> w]]
  /\ UNCHANGED <<config, wallet, ledger, commissions, withdrawal, called>>

Approve(r) ==
  /\ req[r].op = "approve"
  /\ withdrawal' = [withdrawal EXCEPT ![req[r].wd].status = "approved"]
  /\ Done(r)
  /\ UNCHANGED <<config, wallet, ledger, commissions, called>>

\* Mutant: the hold is deleted from the ledger instead of being refunded.
RejectErasingHold(r) ==
  LET w == req[r].wd
      s == withdrawal[w].user
      a == withdrawal[w].amount
  IN
  /\ req[r].op = "reject"
  /\ wallet' = [wallet EXCEPT ![s] = @ + a]
  /\ ledger' = SelectSeq(ledger, LAMBDA e : e.ref # w)
  /\ withdrawal' = [withdrawal EXCEPT ![w].status = "rejected"]
  /\ Done(r)
  /\ UNCHANGED <<config, commissions, called>>

\* Mutant: the transaction forgets the new status.
RejectLeftPending(r) ==
  LET w == req[r].wd
      s == withdrawal[w].user
      a == withdrawal[w].amount
  IN
  /\ req[r].op = "reject"
  /\ wallet' = [wallet EXCEPT ![s] = @ + a]
  /\ ledger' = Append(ledger, Entry(s, "withdrawal_refund", a, w))
  /\ withdrawal' = withdrawal
  /\ Done(r)
  /\ UNCHANGED <<config, commissions, called>>

\* The refund and the new status commit together, whatever the status is by now.
Reject(r) ==
  LET w == req[r].wd
      s == withdrawal[w].user
      a == withdrawal[w].amount
  IN
  /\ req[r].op = "reject"
  /\ wallet' = [wallet EXCEPT ![s] = @ + a]
  /\ ledger' = Append(ledger, Entry(s, "withdrawal_refund", a, w))
  /\ withdrawal' = [withdrawal EXCEPT ![w].status = "rejected"]
  /\ Done(r)
  /\ UNCHANGED <<config, commissions, called>>

\* A read or a transaction that fails (two first credits racing to create the
\* wallet are one cause): the transaction rolls back and the caller logs it.
Fail(r) ==
  /\ req[r] # Idle
  /\ Done(r)
  /\ UNCHANGED <<config, wallet, ledger, commissions, withdrawal, called>>

-----------------------------------------------------------------------------
Handler(r) ==
  \/ \E o \in Orders : ChargeForOrder(r, o) \/ ReverseForOrder(r, o)
  \/ \E w \in Withdrawals : \E d \in {"approve", "reject"} : Review(r, w, d)
  \/ FindCharge(r) \/ BookCommission(r) \/ Approve(r) \/ Reject(r) \/ Fail(r)

Next ==
  \/ UpdateCommissionConfig
  \/ \E s \in Sellers, w \in Withdrawals, a \in Amounts : RequestWithdrawal(s, w, a)
  \/ \E r \in Requests : Handler(r)

Spec == Init /\ [][Next]_vars

-----------------------------------------------------------------------------
(* Safety. *)

\* The wallet feature implements the abstract ledger: every transaction that
\* moves a balance appends the one row that explains it, and rows never change.
ImplementsLedger == Book!Spec

\* A wallet holds what its ledger adds up to, across partial failures of the
\* transactions that write both.
BalanceIsLedger == Book!BalanceIsLedger

\* Only a reversal puts a seller into debt: withdrawals that race each other
\* never take more than the balance (debitIfSufficient).
DebtNeedsReversal ==
  \A s \in Sellers : wallet[s] < 0 =>
    \E i \in DOMAIN ledger : ledger[i].user = s /\ ledger[i].type = "reversal"

\* A reversal takes back an amount that was charged for the same order, whatever
\* the rate has become since.
ReverseHasCharge ==
  \A i \in DOMAIN commissions : commissions[i].type = "reverse" =>
    \E j \in DOMAIN commissions : commissions[j] = [commissions[i] EXCEPT !.type = "charge"]

EntriesOf(ref, type) == {i \in DOMAIN ledger : ledger[i].ref = ref /\ ledger[i].type = type}

\* The hold of a withdrawal is in the ledger once; a pending one is not refunded
\* yet and a rejected one is, however many admins review it at a time.
HoldsAreBooked ==
  \A w \in Withdrawals : withdrawal[w] # NoRow =>
    /\ Cardinality(EntriesOf(w, "withdrawal")) = 1
    /\ withdrawal[w].status = "pending" => EntriesOf(w, "withdrawal_refund") = {}
    /\ withdrawal[w].status = "rejected" => EntriesOf(w, "withdrawal_refund") # {}

\* The platform's books and the sellers' agree order by order: a charge has its
\* earning and a reversal its wallet row, with the same net, as often as booked.
BooksAgree ==
  \A o \in Orders : \A t \in {<<"charge", "sale_earning">>, <<"reverse", "reversal">>} :
    \A n \in 0 .. Gross[o] :
      Cardinality({i \in RowsOf(o, t[1]) : Net(commissions[i]) = n})
        = Cardinality({i \in EntriesOf(o, t[2]) : ledger[i].amount = n})

-----------------------------------------------------------------------------
(* What the comments and docs say, and the code does not keep. *)

\* commission.service.ts:31 "Idempotent per order", DATABASE.md:780 "One `charge`
\* per completed order (idempotent `(order_id, type)`)".
ChargedOnce == \A o \in Orders : Cardinality(RowsOf(o, "charge")) <= 1

\* withdrawal.service.ts:114 "Only pending withdrawals can be reviewed": a hold is
\* settled once, either paid out or given back.
HoldSettledOnce ==
  \A w \in Withdrawals :
    /\ Cardinality(EntriesOf(w, "withdrawal_refund")) <= 1
    /\ withdrawal[w].status = "approved" => EntriesOf(w, "withdrawal_refund") = {}

=============================================================================
