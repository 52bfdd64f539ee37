---------------------------- MODULE WalletLedger ----------------------------
(***************************************************************************)
(* What the seller wallet promises, without saying who moves the money: a  *)
(* balance per user, an append-only ledger of signed entries, and no       *)
(* balance that moves without its entry (seller-wallet.entity.ts calls the *)
(* balance the source of truth, wallet-transaction.entity.ts the ledger    *)
(* immutable).                                                             *)
(***************************************************************************)
EXTENDS Integers, Sequences, Functions

CONSTANTS
  Users,   \* wallet owners
  Refs     \* orders and withdrawals an entry may refer to

VARIABLES
  balance,  \* [Users -> Int]
  entries   \* Seq(Entry)

vars == <<balance, entries>>

Credits == {"sale_earning", "withdrawal_refund"}
Debits  == {"withdrawal", "reversal"}

\* Amounts are positive magnitudes; the direction is implied by the type.
Entry == [user : Users, type : Credits \cup Debits, amount : Nat, ref : Refs]

Signed(e) == IF e.type \in Credits THEN e.amount ELSE -e.amount

Init ==
  /\ balance = [u \in Users |-> 0]
  /\ entries = <<>>

\* One entry is appended and its owner's balance moves by exactly its amount.
Post(e) ==
  /\ entries' = Append(entries, e)
  /\ balance' = [balance EXCEPT ![e.user] = @ + Signed(e)]

Next ==
  /\ entries' # <<>>
  /\ entries'[Len(entries')] \in Entry
  /\ Post(entries'[Len(entries')])

Spec == Init /\ [][Next]_vars

-----------------------------------------------------------------------------
Entries(u) == {i \in DOMAIN entries : entries[i].user = u}

\* A wallet holds what its ledger adds up to.
BalanceIsLedger ==
  \A u \in Users :
    balance[u] = SumFunctionOnSet([i \in DOMAIN entries |-> Signed(entries[i])], Entries(u))

=============================================================================
