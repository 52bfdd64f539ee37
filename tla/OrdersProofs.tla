---------------------------- MODULE OrdersProofs ----------------------------
(***************************************************************************)
(* Orders and the payments that settle them, for any number of orders,     *)
(* groups, shippers, transactions and handlers in flight: first            *)
(* OrderLifecycle, then Payments.                                          *)
(***************************************************************************)
EXTENDS OrderLifecycle, Payments, TLAPS

\* What EffectsOf gives for a value a handler can write.
LEMMA EffectsOfIsSeq ==
  ASSUME NEW to \in Statuses \cup Payments
  PROVE  /\ EffectsOf(to) \in Seq(Effects)
         /\ Len(EffectsOf(to)) \in Nat
         /\ \A n \in 1..Len(EffectsOf(to)) :
              /\ EffectsOf(to)[n] \in Effects
              /\ EffectsOf(to)[n] \in {"award", "charge"} => to = "completed"
  <1>1. CASE to = "cancelled"
    <2>1. EffectsOf(to) = CancelEffects
      BY <1>1 DEF EffectsOf, Payments
    <2> QED
      BY <2>1 DEF CancelEffects, Effects
  <1>2. CASE to = "completed"
    <2>1. EffectsOf(to) = CompleteEffects
      BY <1>2 DEF EffectsOf, Payments
    <2> QED
      BY <2>1, <1>2 DEF CompleteEffects, Effects
  <1>3. CASE to \in Payments
    <2>1. EffectsOf(to) = <<>>
      BY <1>3 DEF EffectsOf, Payments
    <2> QED
      BY <2>1
  <1>4. CASE to \notin {"cancelled", "completed"} \cup Payments
    <2>1. EffectsOf(to) = <<"notify">>
      BY <1>4 DEF EffectsOf
    <2> QED
      BY <2>1 DEF Effects
  <1> QED
    BY <1>1, <1>2, <1>3, <1>4

\* The transition tables name statuses; `completed` is reached from `delivered` or
\* `return_requested` only, and no table leads to `return_requested`.
LEMMA TransitionFacts ==
  ASSUME NEW s \in Statuses, NEW to,
         to \in ADMIN_STATUS_TRANSITIONS[s] \cup SELLER_STATUS_TRANSITIONS[s]
  PROVE  /\ to \in Statuses \ {"return_requested"}
         /\ to = "completed" => s \in {"delivered", "return_requested"}
  BY DEF ADMIN_STATUS_TRANSITIONS, SELLER_STATUS_TRANSITIONS, Statuses

-----------------------------------------------------------------------------
(* The inductive invariant. *)

\* Values that only a delivered order is given.
AfterDelivery == {"completed", "return_requested"}

\* A handler about to write such a value read a delivered order, and delivered_at
\* is never cleared; a settling handler is at one of its effects, for one of its
\* orders.
JobsDated ==
  \A r \in Handlers :
    /\ req[r].pc # "idle" /\ req[r].to \in AfterDelivery
         => \A o \in req[r].os : deliveredAt[o] # "null"
    /\ req[r].pc = "write" => req[r].k = 1
    /\ req[r].pc = "settle"
         => req[r].cur \in req[r].os /\ req[r].k \in 1..Len(EffectsOf(req[r].to))

IInv == TypeOK /\ DeliveredIsDated /\ MoneyNeedsDelivery /\ JobsDated

-----------------------------------------------------------------------------
(* Reading steps. *)

\* A Begin keeps the invariant when a write of AfterDelivery is begun for dated
\* orders only.
LEMMA BeginInv ==
  ASSUME IInv, NEW r \in Handlers, NEW os \in SUBSET Orders, os # {},
         NEW to \in Statuses \cup Payments, Begin(r, os, to),
         to \in AfterDelivery => \A o \in os : deliveredAt[o] # "null"
  PROVE  IInv'
  <1>1. (CHOOSE o \in os : TRUE) \in Orders
    OBVIOUS
  <1>2. accepted' \in Nat
    BY DEF IInv, TypeOK, Begin, Accept
  <1>3. TypeOK'
    BY <1>1, <1>2 DEF IInv, TypeOK, Begin, rows, Job
  <1>4. DeliveredIsDated'
    BY DEF IInv, DeliveredIsDated, Begin, rows
  <1>5. MoneyNeedsDelivery'
    BY DEF IInv, MoneyNeedsDelivery, Begin, rows
  <1>6. JobsDated'
    BY DEF IInv, TypeOK, JobsDated, Begin, rows
  <1> QED
    BY <1>3, <1>4, <1>5, <1>6 DEF IInv

LEMMA BeginAnyInv ==
  ASSUME IInv, NEW r \in Requests, BeginAny(r),
         \A s \in Shippers, o \in Orders : ~AcceptOrder(r, s, o)
  PROVE  IInv'
  <1> USE DEF Statuses, Payments, AfterDelivery
  <1>1. r \in Handlers
    BY DEF Handlers
  <1>2. PICK o \in Orders :
          \/ BeginCancel(r, o)
          \/ BeginConfirmReceipt(r, o)
          \/ BeginRequestReturn(r, o)
          \/ \E to \in Statuses : BeginAdminStatus(r, o, to) \/ BeginSellerStatus(r, o, to)
          \/ \E s \in Shippers : BeginMarkDelivered(r, s, o)
          \/ \E to \in Payments : BeginPaymentStatus(r, o, to)
          \/ BeginMarkGroupPaid(r, Group[o])
    BY DEF BeginAny
  <1>3. {o} \in SUBSET Orders /\ {o} # {}
    OBVIOUS
  <1>4. status[o] \in AfterDelivery \cup {"delivered"} => deliveredAt[o] # "null"
    BY DEF IInv, DeliveredIsDated
  <1>5. CASE BeginCancel(r, o)
    BY <1>1, <1>3, <1>5, BeginInv DEF BeginCancel
  <1>6. CASE BeginConfirmReceipt(r, o)
    BY <1>1, <1>3, <1>4, <1>6, BeginInv DEF BeginConfirmReceipt
  <1>7. CASE BeginRequestReturn(r, o)
    BY <1>1, <1>3, <1>4, <1>7, BeginInv DEF BeginRequestReturn
  <1>8. CASE \E to \in Statuses : BeginAdminStatus(r, o, to) \/ BeginSellerStatus(r, o, to)
    <2>1. PICK to \in Statuses : BeginAdminStatus(r, o, to) \/ BeginSellerStatus(r, o, to)
      BY <1>8
    <2>2. to \in ADMIN_STATUS_TRANSITIONS[status[o]] \cup SELLER_STATUS_TRANSITIONS[status[o]]
          /\ Begin(r, {o}, to)
      BY <2>1 DEF BeginAdminStatus, BeginSellerStatus
    <2>3. status[o] \in Statuses
      BY DEF IInv, TypeOK
    <2>4. to \in AfterDelivery => deliveredAt[o] # "null"
      BY <2>2, <2>3, <1>4, TransitionFacts
    <2> QED
      BY <1>1, <1>3, <2>2, <2>4, BeginInv
  <1>9. CASE \E s \in Shippers : BeginMarkDelivered(r, s, o)
    BY <1>1, <1>3, <1>9, BeginInv DEF BeginMarkDelivered
  <1>10. CASE \E to \in Payments : BeginPaymentStatus(r, o, to)
    BY <1>1, <1>3, <1>10, BeginInv DEF BeginPaymentStatus
  <1>11. CASE BeginMarkGroupPaid(r, Group[o])
    <2> DEFINE alive == {p \in Orders : Group[p] = Group[o] /\ status[p] # "cancelled"}
    <2>1. alive \in SUBSET Orders /\ alive # {} /\ Begin(r, alive, "paid")
      BY <1>11 DEF BeginMarkGroupPaid
    <2> HIDE DEF alive
    <2> QED
      BY <1>1, <2>1, BeginInv
  <1> QED
    BY <1>2, <1>5, <1>6, <1>7, <1>8, <1>9, <1>10, <1>11

LEMMA BeginAutoCompleteInv ==
  ASSUME IInv, BeginAutoComplete
  PROVE  IInv'
  <1> DEFINE due == {o \in Orders : status[o] = "delivered" /\ deliveredAt[o] = "expired"}
  <1>1. due \in SUBSET Orders /\ due # {} /\ Begin(Scheduler, due, "completed")
    BY DEF BeginAutoComplete
  <1>2. \A o \in due : deliveredAt[o] # "null"
    OBVIOUS
  <1>3. Scheduler \in Handlers /\ "completed" \in Statuses \cup Payments
    BY DEF Handlers, Statuses
  <1> HIDE DEF due
  <1> QED
    BY <1>1, <1>2, <1>3, BeginInv

-----------------------------------------------------------------------------
(* Writing and settling steps. *)

\* What follows an UPDATE is a well-formed job that keeps the handler's order set
\* and value, or an idle one.
LEMMA WrittenFacts ==
  ASSUME NEW job \in Job, NEW o \in job.os
  PROVE  /\ Written(job, o) \in Job
         /\ Written(job, o).pc # "idle" => Written(job, o).os = job.os
                                           /\ Written(job, o).to = job.to
         /\ Written(job, o).pc = "settle" => Written(job, o).cur = o
                                             /\ EffectsOf(job.to) # <<>>
                                             /\ Written(job, o).k = job.k
         /\ Written(job, o).pc \in {"idle", "settle"}
  <1>1. Idle \in Job /\ Idle.pc = "idle"
    BY OrderAssumption DEF Idle, Job, Statuses
  <1>2. o \in Orders
    BY DEF Job
  <1>3. CASE EffectsOf(job.to) = <<>>
    BY <1>1, <1>3 DEF Written
  <1>4. CASE EffectsOf(job.to) # <<>>
    <2>1. Written(job, o) = [job EXCEPT !.pc = "settle", !.cur = o]
      BY <1>4 DEF Written
    <2> QED
      BY <1>2, <1>4, <2>1 DEF Job
  <1> QED
    BY <1>3, <1>4

\* Replacing one handler's job keeps the others' part of JobsDated.
LEMMA JobsDatedStep ==
  ASSUME TypeOK, JobsDated, NEW r \in Handlers, NEW j \in Job,
         req' = [req EXCEPT ![r] = j],
         \A p \in Orders : deliveredAt[p] # "null" => deliveredAt'[p] # "null",
         j.pc # "idle" /\ j.to \in AfterDelivery
           => \A o \in j.os : deliveredAt'[o] # "null",
         j.pc = "write" => j.k = 1,
         j.pc = "settle" => j.cur \in j.os /\ j.k \in 1..Len(EffectsOf(j.to))
  PROVE  JobsDated'
  <1> SUFFICES ASSUME NEW q \in Handlers
               PROVE  JobsDated!(q)'
    BY DEF JobsDated
  <1>1. CASE q # r
    <2>1. req'[q] = req[q] /\ req[q] \in Job
      BY <1>1 DEF TypeOK
    <2> QED
      BY <2>1 DEF JobsDated, Job
  <1>2. CASE q = r
    <2>1. req'[q] = j
      BY <1>2 DEF TypeOK
    <2> QED
      BY <2>1
  <1> QED
    BY <1>1, <1>2

\* A non-empty effect list has a first effect.
LEMMA WrittenLen ==
  ASSUME NEW to \in Statuses \cup Payments, EffectsOf(to) # <<>>
  PROVE  1 \in 1..Len(EffectsOf(to))
  BY EffectsOfIsSeq

LEMMA WriteStatusInv ==
  ASSUME IInv, NEW r \in Handlers, WriteStatus(r)
  PROVE  IInv'
  <1> USE DEF IInv, WriteStatus
  <1>1. req[r] \in Job
    BY DEF TypeOK
  <1>2. PICK o \in req[r].os : req' = [req EXCEPT ![r] = Written(req[r], o)]
    OBVIOUS
  <1>3. TypeOK'
    <2>1. status' \in [Orders -> Statuses] /\ deliveredAt' \in [Orders -> DeliveredAts]
      BY DEF TypeOK, DeliveredAts
    <2>2. req' \in [Handlers -> Job]
      BY <1>1, <1>2, WrittenFacts DEF TypeOK
    <2> QED
      BY <2>1, <2>2 DEF TypeOK
  <1>4. \A p \in Orders : deliveredAt[p] # "null" => deliveredAt'[p] # "null"
    OBVIOUS
  <1>5. DeliveredIsDated'
    BY DEF DeliveredIsDated, JobsDated, AfterDelivery
  <1>6. MoneyNeedsDelivery'
    BY <1>4 DEF MoneyNeedsDelivery
  <1>7. JobsDated'
    <2> DEFINE j == Written(req[r], o)
    <2>1. /\ j \in Job
          /\ j.pc # "idle" => j.os = req[r].os /\ j.to = req[r].to
          /\ j.pc = "settle" => j.cur = o /\ j.k = req[r].k /\ EffectsOf(j.to) # <<>>
          /\ j.pc \in {"idle", "settle"}
      BY <1>1, <1>2, WrittenFacts
    <2>2. req[r].k = 1 /\ req[r].to \in Statuses \cup Payments
      BY <1>1 DEF JobsDated, Job
    <2>3. j.pc # "idle" /\ j.to \in AfterDelivery
            => \A p \in j.os : deliveredAt'[p] # "null"
      BY <1>1, <1>4, <2>1 DEF JobsDated, Job
    <2>4. j.pc = "settle" => j.cur \in j.os /\ j.k \in 1..Len(EffectsOf(j.to))
      BY <1>2, <2>1, <2>2, WrittenLen
    <2> HIDE DEF j
    <2> QED
      BY <1>2, <1>4, <2>1, <2>3, <2>4, JobsDatedStep DEF j
  <1> QED
    BY <1>3, <1>5, <1>6, <1>7

LEMMA WritePaymentInv ==
  ASSUME IInv, NEW r \in Handlers, WritePayment(r)
  PROVE  IInv'
  <1> USE DEF IInv, WritePayment
  <1>1. req[r] \in Job
    BY DEF TypeOK
  <1>2. PICK o \in req[r].os : req' = [req EXCEPT ![r] = Written(req[r], o)]
    OBVIOUS
  <1>3. TypeOK'
    <2>1. req' \in [Handlers -> Job]
      BY <1>1, <1>2, WrittenFacts DEF TypeOK
    <2> QED
      BY <2>1 DEF TypeOK
  <1>4. \A p \in Orders : deliveredAt[p] # "null" => deliveredAt'[p] # "null"
    OBVIOUS
  <1>5. DeliveredIsDated' /\ MoneyNeedsDelivery'
    BY DEF DeliveredIsDated, MoneyNeedsDelivery
  <1>6. JobsDated'
    <2> DEFINE j == Written(req[r], o)
    <2>1. /\ j \in Job
          /\ j.pc # "idle" => j.os = req[r].os /\ j.to = req[r].to
          /\ j.pc = "settle" => j.cur = o /\ j.k = req[r].k /\ EffectsOf(j.to) # <<>>
          /\ j.pc \in {"idle", "settle"}
      BY <1>1, <1>2, WrittenFacts
    <2>2. req[r].k = 1 /\ req[r].to \in Statuses \cup Payments
      BY <1>1 DEF JobsDated, Job
    <2>3. j.pc # "idle" /\ j.to \in AfterDelivery
            => \A p \in j.os : deliveredAt'[p] # "null"
      BY <1>1, <1>4, <2>1 DEF JobsDated, Job
    <2>4. j.pc = "settle" => j.cur \in j.os /\ j.k \in 1..Len(EffectsOf(j.to))
      BY <1>2, <2>1, <2>2, WrittenLen
    <2> HIDE DEF j
    <2> QED
      BY <1>2, <1>4, <2>1, <2>3, <2>4, JobsDatedStep DEF j
  <1> QED
    BY <1>3, <1>5, <1>6

LEMMA AcceptOrderInv ==
  ASSUME IInv, NEW r \in Requests, NEW s \in Shippers, NEW o \in Orders,
         AcceptOrder(r, s, o)
  PROVE  IInv'
  <1> USE DEF IInv, AcceptOrder
  <1>1. r \in Handlers /\ accepted' \in Nat
    BY DEF Handlers, Accept, TypeOK
  <1>2. Len(EffectsOf("shipping")) = 1
    BY DEF EffectsOf, Payments
  <1>3. TypeOK'
    BY <1>1 DEF TypeOK, Job, Statuses
  <1>4. DeliveredIsDated' /\ MoneyNeedsDelivery'
    BY DEF DeliveredIsDated, MoneyNeedsDelivery, TypeOK
  <1>5. JobsDated'
    <2> DEFINE j == [pc |-> "settle", os |-> {o}, to |-> "shipping", cur |-> o, k |-> 1]
    <2>1. j \in Job
      BY DEF Job, Statuses
    <2>2. /\ j.to \notin AfterDelivery
          /\ j.pc = "settle" /\ j.cur \in j.os /\ j.k \in 1..Len(EffectsOf(j.to))
      BY <1>2 DEF AfterDelivery
    <2>3. req' = [req EXCEPT ![r] = j] /\ deliveredAt' = deliveredAt
      OBVIOUS
    <2> HIDE DEF j, AcceptOrder
    <2> QED
      BY <1>1, <2>1, <2>2, <2>3, JobsDatedStep
  <1> QED
    BY <1>3, <1>4, <1>5

\* An award or a charge is only invoked by a handler that wrote `completed`, and
\* such a handler settles dated orders.
LEMMA SettleInv ==
  ASSUME IInv, NEW r \in Handlers, Settle(r)
  PROVE  IInv'
  <1> USE DEF IInv
  <1> DEFINE job == req[r]
             fx  == EffectsOf(job.to)
  <1>1. /\ job \in Job /\ job.pc = "settle"
        /\ job.cur \in job.os
        /\ job.k \in 1..Len(fx)
        /\ job.to \in AfterDelivery => \A o \in job.os : deliveredAt[o] # "null"
    BY DEF TypeOK, JobsDated, Settle
  <1>2. /\ Len(fx) \in Nat
        /\ fx[job.k] \in Effects
        /\ fx[job.k] \in {"award", "charge"} => job.to = "completed"
    BY <1>1, EffectsOfIsSeq DEF Job
  <1>3. /\ job.cur \in Orders
        /\ calls' = [calls EXCEPT ![job.cur][fx[job.k]] = @ + 1]
        /\ UNCHANGED <<status, payment, shipper, deliveredAt, accepted, abandoned>>
    BY <1>1 DEF Settle, rows, Job
  <1>4. \/ job.k < Len(fx) /\ req' = [req EXCEPT ![r] = [job EXCEPT !.k = @ + 1]]
        \/ req' = [req EXCEPT ![r] = Idle]
        \/ \E o \in job.os \ {job.cur} :
             req' = [req EXCEPT ![r] = [job EXCEPT !.os = job.os \ {job.cur}, !.cur = o, !.k = 1]]
    BY DEF Settle
  <1>5. Idle \in Job /\ Idle.pc = "idle"
    BY OrderAssumption DEF Idle, Job, Statuses
  <1> HIDE DEF fx
  <1>6. PICK j \in Job :
          /\ req' = [req EXCEPT ![r] = j]
          /\ j.pc # "idle" => j.os \subseteq job.os /\ j.to = job.to /\ j.pc = "settle"
          /\ j.pc = "settle" => j.cur \in j.os /\ j.k \in 1..Len(fx)
    <2>1. CASE job.k < Len(fx) /\ req' = [req EXCEPT ![r] = [job EXCEPT !.k = @ + 1]]
      <3> DEFINE n == [job EXCEPT !.k = job.k + 1]
      <3>1. n \in Job /\ n.os = job.os /\ n.to = job.to /\ n.pc = "settle"
            /\ n.cur = job.cur /\ n.k = job.k + 1
        BY <1>1 DEF Job
      <3>2. req' = [req EXCEPT ![r] = n]
        BY <2>1
      <3>3. n.k \in 1..Len(fx)
        BY <1>1, <1>2, <2>1, <3>1
      <3> HIDE DEF n, job
      <3> QED
        BY <1>1, <3>1, <3>2, <3>3
    <2>2. CASE req' = [req EXCEPT ![r] = Idle]
      BY <1>5, <2>2
    <2>3. CASE \E o \in job.os \ {job.cur} :
             req' = [req EXCEPT ![r] = [job EXCEPT !.os = job.os \ {job.cur}, !.cur = o, !.k = 1]]
      <3>1. PICK o \in job.os \ {job.cur} :
             req' = [req EXCEPT ![r] = [job EXCEPT !.os = job.os \ {job.cur}, !.cur = o, !.k = 1]]
        BY <2>3
      <3> DEFINE n == [job EXCEPT !.os = job.os \ {job.cur}, !.cur = o, !.k = 1]
      <3>2. n \in Job /\ n.os = job.os \ {job.cur} /\ n.to = job.to /\ n.pc = "settle"
            /\ n.cur = o /\ n.k = 1
        BY <1>1, <3>1 DEF Job
      <3>3. req' = [req EXCEPT ![r] = n]
        BY <3>1
      <3>4. o \in job.os \ {job.cur} /\ 1 \in 1..Len(fx)
        BY <1>1, <1>2, <3>1
      <3> HIDE DEF n, job
      <3> QED
        BY <3>2, <3>3, <3>4
    <2> QED
      BY <1>4, <2>1, <2>2, <2>3
  <1>7. TypeOK'
    <2>1. calls' \in [Orders -> [Effects -> Nat]]
      BY <1>2, <1>3 DEF TypeOK
    <2>2. req' \in [Handlers -> Job]
      BY <1>6 DEF TypeOK
    <2> QED
      BY <1>3, <2>1, <2>2 DEF TypeOK
  <1>8. DeliveredIsDated'
    BY <1>3 DEF DeliveredIsDated
  <1>9. MoneyNeedsDelivery'
    <2> SUFFICES ASSUME NEW o \in Orders,
                        calls'[o]["award"] + calls'[o]["charge"] > 0
                 PROVE  deliveredAt[o] # "null"
      BY <1>3 DEF MoneyNeedsDelivery
    <2>1. CASE o = job.cur /\ fx[job.k] \in {"award", "charge"}
      BY <1>1, <1>2, <2>1 DEF AfterDelivery
    <2>2. CASE ~(o = job.cur /\ fx[job.k] \in {"award", "charge"})
      <3>1. calls'[o]["award"] = calls[o]["award"] /\ calls'[o]["charge"] = calls[o]["charge"]
        BY <1>2, <1>3, <2>2 DEF TypeOK, Effects
      <3> QED
        BY <3>1 DEF MoneyNeedsDelivery
    <2> QED
      BY <2>1, <2>2
  <1>10. JobsDated'
    <2>1. j.pc # "idle" /\ j.to \in AfterDelivery
            => \A o \in j.os : deliveredAt'[o] # "null"
      BY <1>1, <1>3, <1>6
    <2> QED
      BY <1>3, <1>6, <2>1, JobsDatedStep DEF fx
  <1> QED
    BY <1>7, <1>8, <1>9, <1>10

LEMMA FailInv ==
  ASSUME IInv, NEW r \in Handlers, Fail(r)
  PROVE  IInv'
  <1> USE DEF IInv, Fail, rows
  <1>1. Idle \in Job /\ Idle.pc = "idle"
    BY OrderAssumption DEF Idle, Job, Statuses
  <1>2. TypeOK'
    BY <1>1 DEF TypeOK, Job
  <1>3. DeliveredIsDated' /\ MoneyNeedsDelivery'
    BY DEF DeliveredIsDated, MoneyNeedsDelivery
  <1>4. JobsDated'
    <2> HIDE DEF Fail
    <2>1. req' = [req EXCEPT ![r] = Idle] /\ deliveredAt' = deliveredAt
      BY DEF Fail
    <2> QED
      BY <1>1, <2>1, JobsDatedStep
  <1> QED
    BY <1>2, <1>3, <1>4

LEMMA ExpireInv ==
  ASSUME IInv, NEW o \in Orders, Expire(o)
  PROVE  IInv'
  <1> USE DEF IInv, Expire
  <1>1. TypeOK'
    BY DEF TypeOK, DeliveredAts
  <1>2. \A p \in Orders : deliveredAt[p] # "null" => deliveredAt'[p] # "null"
    BY DEF TypeOK
  <1>3. DeliveredIsDated' /\ MoneyNeedsDelivery'
    BY <1>2 DEF DeliveredIsDated, MoneyNeedsDelivery
  <1>4. JobsDated'
    BY <1>2 DEF JobsDated, TypeOK, Job
  <1> QED
    BY <1>1, <1>3, <1>4

-----------------------------------------------------------------------------
(* The theorems. *)

LEMMA InitInv == Init => IInv
  <1> SUFFICES ASSUME Init PROVE IInv
    OBVIOUS
  <1>1. TypeOK
    BY OrderAssumption DEF Init, TypeOK, Idle, Job, Statuses, Payments, DeliveredAts
  <1>2. DeliveredIsDated
    BY DEF Init, DeliveredIsDated
  <1>3. MoneyNeedsDelivery
    BY DEF Init, MoneyNeedsDelivery, Effects
  <1>4. JobsDated
    BY DEF Init, JobsDated, Idle
  <1> QED
    BY <1>1, <1>2, <1>3, <1>4 DEF IInv

LEMMA NextInv == IInv /\ [Next]_vars => IInv'
  <1> SUFFICES ASSUME IInv, [Next]_vars PROVE IInv'
    OBVIOUS
  <1>1. CASE \E r \in Requests : BeginAny(r)
    <2>1. PICK r \in Requests : BeginAny(r)
      BY <1>1
    <2>2. CASE \E s \in Shippers, o \in Orders : AcceptOrder(r, s, o)
      BY <2>2, AcceptOrderInv
    <2>3. CASE \A s \in Shippers, o \in Orders : ~AcceptOrder(r, s, o)
      BY <2>1, <2>3, BeginAnyInv
    <2> QED
      BY <2>2, <2>3
  <1>2. CASE BeginAutoComplete
    BY <1>2, BeginAutoCompleteInv
  <1>3. CASE \E r \in Handlers : Advance(r)
    BY <1>3, WriteStatusInv, WritePaymentInv, SettleInv, FailInv DEF Advance
  <1>4. CASE \E o \in Orders : Expire(o)
    BY <1>4, ExpireInv
  <1>5. CASE UNCHANGED vars
    BY <1>5 DEF vars, IInv, TypeOK, DeliveredIsDated, MoneyNeedsDelivery, JobsDated
  <1> QED
    BY <1>1, <1>2, <1>3, <1>4, <1>5 DEF Next

\* The inductive invariant holds of every behaviour.
THEOREM Invariance == Spec => []IInv
  BY InitInv, NextInv, PTL DEF Spec

\* Every variable keeps its type, for any number of orders and handlers.
THEOREM TypeCorrect == Spec => []TypeOK
  <1>1. IInv => TypeOK
    BY DEF IInv
  <1> QED
    BY <1>1, Invariance, PTL

\* Whatever the interleaving of handlers, an order that is delivered, being
\* returned or completed has a delivery date.
THEOREM DeliveryIsDated == Spec => []DeliveredIsDated
  <1>1. IInv => DeliveredIsDated
    BY DEF IInv
  <1> QED
    BY <1>1, Invariance, PTL

\* No coins and no seller's net are ever paid for an order that was not delivered.
THEOREM NoMoneyBeforeDelivery == Spec => []MoneyNeedsDelivery
  <1>1. IInv => MoneyNeedsDelivery
    BY DEF IInv
  <1> QED
    BY <1>1, Invariance, PTL

\* An order never changes its shipper once it has one.
THEOREM ShipperIsKept == Spec => ShipperKept
  <1> DEFINE A == \A o \in Orders : shipper[o] # NoShipper => shipper'[o] = shipper[o]
  <1>1. TypeOK /\ [Next]_vars => [A]_vars
    <2> SUFFICES ASSUME TypeOK, Next PROVE A
      OBVIOUS
    <2>1. CASE UNCHANGED shipper
      BY <2>1
    <2>2. CASE \E r \in Requests, s \in Shippers, o \in Orders : AcceptOrder(r, s, o)
      BY <2>2 DEF AcceptOrder, TypeOK
    <2>3. (\E r \in Requests, s \in Shippers, o \in Orders : AcceptOrder(r, s, o))
            \/ UNCHANGED shipper
      <3>1. \A r, os, to : Begin(r, os, to) => UNCHANGED shipper
        BY DEF Begin, rows
      <3>2. CASE \E r \in Requests : BeginAny(r)
        BY <3>1, <3>2 DEF BeginAny, BeginCancel, BeginConfirmReceipt, BeginRequestReturn,
             BeginAdminStatus, BeginSellerStatus, BeginMarkDelivered,
             BeginPaymentStatus, BeginMarkGroupPaid
      <3>3. CASE BeginAutoComplete
        BY <3>1, <3>3 DEF BeginAutoComplete
      <3>4. CASE \E r \in Handlers : Advance(r)
        BY <3>4 DEF Advance, WriteStatus, WritePayment, Settle, Fail, rows
      <3>5. CASE \E o \in Orders : Expire(o)
        BY <3>5 DEF Expire
      <3> QED
        BY <3>2, <3>3, <3>4, <3>5 DEF Next
    <2> QED
      BY <2>1, <2>2, <2>3
  <1>2. Spec => []TypeOK
    BY TypeCorrect
  <1>3. Spec => [][A]_vars
    BY <1>1, <1>2, PTL DEF Spec
  <1> QED
    BY <1>3 DEF ShipperKept

-----------------------------------------------------------------------------
(* SettledAtRest: what each handler in flight still owes. *)

\* Every effect a status requires has been invoked for the order.
Done(o, st) == \A e \in Required(st) : calls[o][e] > 0

\* A handler that wrote the order's present status and has not settled it yet.
Owes(r, o) == req[r].pc = "settle" /\ o \in req[r].os /\ req[r].to = status[o]

\* The effects before the one a handler is at were invoked for its order.
EffectsInOrder ==
  \A r \in Handlers :
    req[r].pc = "settle"
      => \A n \in 1..(req[r].k - 1) : calls[req[r].cur][EffectsOf(req[r].to)[n]] > 0

\* What a status requires was invoked, is owed by its writer or was given up.
OwedOrDone ==
  \A o \in Orders :
    o \in abandoned \/ Done(o, status[o]) \/ \E r \in Handlers : Owes(r, o)

RestInv == EffectsInOrder /\ OwedOrDone

\* What a status requires is among the effects its writer invokes.
LEMMA RequiredIsInvoked ==
  ASSUME NEW st \in Statuses
  PROVE  /\ EffectsOf(st) # <<>>
         /\ \A e \in Required(st) :
              e \in Effects /\ \E n \in 1..Len(EffectsOf(st)) : EffectsOf(st)[n] = e
  <1>1. CASE st = "cancelled"
    <2>1. EffectsOf(st) = CancelEffects
          /\ Required(st) = {"coupons", "flash", "coins", "commission", "stock"}
      BY <1>1 DEF EffectsOf, Payments, Required
    <2>2. /\ Len(CancelEffects) = 6
          /\ CancelEffects[1] = "coupons" /\ CancelEffects[2] = "flash"
          /\ CancelEffects[3] = "coins" /\ CancelEffects[4] = "commission"
          /\ CancelEffects[5] = "stock"
          /\ CancelEffects # <<>>
      BY DEF CancelEffects
    <2> QED
      BY <2>1, <2>2 DEF Effects
  <1>2. CASE st = "completed"
    <2>1. EffectsOf(st) = CompleteEffects /\ Required(st) = {"award", "charge"}
      BY <1>2 DEF EffectsOf, Payments, Required
    <2>2. /\ Len(CompleteEffects) = 3
          /\ CompleteEffects[1] = "award" /\ CompleteEffects[2] = "charge"
          /\ CompleteEffects # <<>>
      BY DEF CompleteEffects
    <2> QED
      BY <2>1, <2>2 DEF Effects
  <1>3. CASE st \notin {"cancelled", "completed"}
    <2>1. EffectsOf(st) = <<"notify">> /\ Required(st) = {}
      BY <1>3 DEF EffectsOf, Payments, Required, Statuses
    <2>2. <<"notify">> # <<>>
      OBVIOUS
    <2> QED
      BY <2>1, <2>2
  <1> QED
    BY <1>1, <1>2, <1>3

\* Replacing the job of a handler that settles nothing, without touching calls.
LEMMA RestKept ==
  ASSUME TypeOK, RestInv, NEW r \in Handlers, req[r].pc # "settle", NEW j,
         req' = [req EXCEPT ![r] = j],
         j.pc = "settle" => j.k = 1,
         calls' = calls, abandoned' = abandoned,
         \A o \in Orders : \/ status'[o] = status[o]
                           \/ j.pc = "settle" /\ o \in j.os /\ j.to = status'[o]
  PROVE  RestInv'
  <1>1. req'[r] = j /\ \A q \in Handlers : q # r => req'[q] = req[q]
    BY DEF TypeOK
  <1>2. EffectsInOrder'
    <2> SUFFICES ASSUME NEW q \in Handlers, req'[q].pc = "settle"
                 PROVE  \A n \in 1..(req'[q].k - 1) :
                          calls[req'[q].cur][EffectsOf(req'[q].to)[n]] > 0
      BY DEF EffectsInOrder
    <2>1. CASE q = r
      <3>1. req'[q].k = 1
        BY <1>1, <2>1
      <3> QED
        BY <3>1
    <2>2. CASE q # r
      BY <1>1, <2>2 DEF RestInv, EffectsInOrder
    <2> QED
      BY <2>1, <2>2
  <1>3. OwedOrDone'
    <2> SUFFICES ASSUME NEW o \in Orders, o \notin abandoned, ~Done(o, status[o])'
                 PROVE  \E q \in Handlers : Owes(q, o)'
      BY DEF OwedOrDone
    <2>1. CASE j.pc = "settle" /\ o \in j.os /\ j.to = status'[o]
      BY <1>1, <2>1 DEF Owes
    <2>2. CASE status'[o] = status[o]
      <3>1. ~Done(o, status[o])
        BY <2>2 DEF Done
      <3>2. PICK q \in Handlers : Owes(q, o)
        BY <3>1 DEF RestInv, OwedOrDone
      <3>3. q # r
        BY <3>2 DEF Owes
      <3>4. Owes(q, o)'
        BY <1>1, <2>2, <3>2, <3>3 DEF Owes
      <3> QED
        BY <3>4
    <2> QED
      BY <2>1, <2>2
  <1> QED
    BY <1>2, <1>3 DEF RestInv

LEMMA BeginRest ==
  ASSUME TypeOK, RestInv, NEW r \in Handlers, NEW os, NEW to, Begin(r, os, to)
  PROVE  RestInv'
  <1> DEFINE j == [pc |-> "write", os |-> os, to |-> to, cur |-> CHOOSE o \in os : TRUE, k |-> 1]
  <1>1. /\ req[r].pc # "settle"
        /\ req' = [req EXCEPT ![r] = j]
        /\ calls' = calls /\ abandoned' = abandoned /\ status' = status
        /\ j.pc # "settle"
    BY DEF Begin, Accept, rows
  <1> HIDE DEF j
  <1> QED
    BY <1>1, RestKept

LEMMA AcceptOrderRest ==
  ASSUME TypeOK, RestInv, NEW r \in Requests, NEW s \in Shippers, NEW o \in Orders,
         AcceptOrder(r, s, o)
  PROVE  RestInv'
  <1> DEFINE j == [pc |-> "settle", os |-> {o}, to |-> "shipping", cur |-> o, k |-> 1]
  <1>1. /\ r \in Handlers
        /\ req[r].pc # "settle"
        /\ req' = [req EXCEPT ![r] = j]
        /\ calls' = calls /\ abandoned' = abandoned
        /\ j.pc = "settle" /\ j.k = 1 /\ o \in j.os /\ j.to = "shipping"
    BY DEF AcceptOrder, Accept, Handlers
  <1>2. \A p \in Orders : status'[p] = status[p] \/ (p = o /\ status'[p] = "shipping")
    BY DEF AcceptOrder, TypeOK
  <1> HIDE DEF j
  <1> QED
    BY <1>1, <1>2, RestKept

LEMMA WriteStatusRest ==
  ASSUME IInv, RestInv, NEW r \in Handlers, WriteStatus(r)
  PROVE  RestInv'
  <1>1. PICK o \in req[r].os : req' = [req EXCEPT ![r] = Written(req[r], o)]
    BY DEF WriteStatus
  <1> DEFINE j == Written(req[r], o)
  <1>2. /\ req[r] \in Job /\ req[r].k = 1 /\ req[r].pc = "write" /\ req[r].to \in Statuses
        /\ calls' = calls /\ abandoned' = abandoned
        /\ status' = [p \in Orders |-> IF p \in req[r].os THEN req[r].to ELSE status[p]]
    BY DEF IInv, TypeOK, JobsDated, WriteStatus
  <1>3. j.pc = "settle" /\ j.os = req[r].os /\ j.to = req[r].to /\ j.k = 1
    BY <1>2, RequiredIsInvoked DEF Written, Job
  <1>4. req' = [req EXCEPT ![r] = j]
    BY <1>1
  <1> HIDE DEF j
  <1>5. \A p \in Orders : \/ status'[p] = status[p]
                          \/ j.pc = "settle" /\ p \in j.os /\ j.to = status'[p]
    BY <1>2, <1>3
  <1> QED
    BY <1>2, <1>3, <1>4, <1>5, RestKept DEF IInv

LEMMA WritePaymentRest ==
  ASSUME IInv, RestInv, NEW r \in Handlers, WritePayment(r)
  PROVE  RestInv'
  <1>1. PICK o \in req[r].os : req' = [req EXCEPT ![r] = Written(req[r], o)]
    BY DEF WritePayment
  <1>2. /\ req[r].pc = "write" /\ req[r].to \in Payments
        /\ calls' = calls /\ abandoned' = abandoned /\ status' = status
    BY DEF WritePayment
  <1>3. EffectsOf(req[r].to) = <<>>
    BY <1>2 DEF EffectsOf, Payments
  <1>4. req' = [req EXCEPT ![r] = Idle] /\ Idle.pc # "settle"
    BY <1>1, <1>3 DEF Written, Idle
  <1> QED
    BY <1>2, <1>4, RestKept DEF IInv

\* One effect is invoked: no count falls.
LEMMA SettleCounts ==
  ASSUME IInv, NEW r \in Handlers, Settle(r)
  PROVE  LET fx == EffectsOf(req[r].to)
         IN  /\ req[r].cur \in Orders /\ req[r].k \in 1..Len(fx) /\ Len(fx) \in Nat
             /\ calls'[req[r].cur][fx[req[r].k]] > 0
             /\ \A o \in Orders, e \in Effects : calls[o][e] > 0 => calls'[o][e] > 0
             /\ \A n \in 1..Len(fx) : fx[n] \in Effects
  <1> DEFINE fx == EffectsOf(req[r].to)
             e0 == fx[req[r].k]
             c  == req[r].cur
  <1>1. req[r] \in Job /\ req[r].k \in 1..Len(fx) /\ c \in Orders
    BY DEF IInv, TypeOK, JobsDated, Settle, Job
  <1>2. Len(fx) \in Nat /\ \A n \in 1..Len(fx) : fx[n] \in Effects
    BY <1>1, EffectsOfIsSeq DEF Job
  <1>3. calls' = [calls EXCEPT ![c][e0] = calls[c][e0] + 1]
    BY DEF Settle
  <1>4. e0 \in Effects
    BY <1>1, <1>2
  <1> HIDE DEF e0, c
  <1>5. /\ calls'[c][e0] > 0
        /\ \A o \in Orders, e \in Effects : calls[o][e] > 0 => calls'[o][e] > 0
    BY <1>1, <1>3, <1>4 DEF IInv, TypeOK
  <1> QED
    BY <1>1, <1>2, <1>5 DEF e0, c

LEMMA SettleRest ==
  ASSUME IInv, RestInv, NEW r \in Handlers, Settle(r)
  PROVE  RestInv'
  <1> DEFINE job == req[r]
             fx  == EffectsOf(job.to)
  <1>1. /\ job \in Job /\ job.pc = "settle" /\ job.cur \in job.os
        /\ abandoned' = abandoned /\ status' = status
    BY DEF IInv, TypeOK, JobsDated, Settle, rows
  <1>2. /\ job.cur \in Orders /\ job.k \in 1..Len(fx) /\ Len(fx) \in Nat
        /\ calls'[job.cur][fx[job.k]] > 0
        /\ \A o \in Orders, e \in Effects : calls[o][e] > 0 => calls'[o][e] > 0
        /\ \A n \in 1..Len(fx) : fx[n] \in Effects
    BY SettleCounts
  <1>3. \A n \in 1..job.k : calls'[job.cur][fx[n]] > 0
    <2> TAKE n \in 1..job.k
    <2>1. CASE n = job.k
      BY <1>2, <2>1
    <2>2. CASE n # job.k
      <3>1. n \in 1..(job.k - 1) /\ n \in 1..Len(fx)
        BY <1>2, <2>2
      <3>2. calls[job.cur][fx[n]] > 0
        BY <1>1, <3>1 DEF RestInv, EffectsInOrder
      <3> QED
        BY <1>2, <3>1, <3>2
    <2> QED
      BY <2>1, <2>2
  <1>4. \/ /\ job.k < Len(fx)
           /\ req' = [req EXCEPT ![r] = [job EXCEPT !.k = job.k + 1]]
        \/ /\ job.k = Len(fx)
           /\ job.os = {job.cur}
           /\ req' = [req EXCEPT ![r] = Idle]
        \/ /\ job.k = Len(fx)
           /\ \E o \in job.os \ {job.cur} :
                req' = [req EXCEPT ![r] = [job EXCEPT !.os = job.os \ {job.cur}, !.cur = o, !.k = 1]]
    BY <1>1 DEF Settle
  <1> HIDE DEF fx
  <1>5. PICK j :
          /\ req' = [req EXCEPT ![r] = j]
          /\ j.pc = "settle"
               => j.k = 1 \/ (j.k = job.k + 1 /\ j.cur = job.cur /\ j.to = job.to)
          /\ \A o \in job.os : \/ j.pc = "settle" /\ o \in j.os /\ j.to = job.to
                               \/ o = job.cur /\ job.k = Len(fx)
    <2>1. CASE job.k < Len(fx) /\ req' = [req EXCEPT ![r] = [job EXCEPT !.k = job.k + 1]]
      <3> DEFINE n == [job EXCEPT !.k = job.k + 1]
      <3>1. /\ n.pc = "settle" /\ n.os = job.os /\ n.to = job.to /\ n.cur = job.cur
            /\ n.k = job.k + 1
        BY <1>1 DEF Job
      <3>2. req' = [req EXCEPT ![r] = n]
        BY <2>1
      <3> HIDE DEF n, job
      <3> QED
        BY <3>1, <3>2
    <2>2. CASE job.k = Len(fx) /\ job.os = {job.cur} /\ req' = [req EXCEPT ![r] = Idle]
      <3>1. Idle.pc # "settle"
        BY DEF Idle
      <3> HIDE DEF job
      <3> QED
        BY <2>2, <3>1
    <2>3. CASE job.k = Len(fx) /\ \E o \in job.os \ {job.cur} :
             req' = [req EXCEPT ![r] = [job EXCEPT !.os = job.os \ {job.cur}, !.cur = o, !.k = 1]]
      <3>1. PICK o \in job.os \ {job.cur} :
             req' = [req EXCEPT ![r] = [job EXCEPT !.os = job.os \ {job.cur}, !.cur = o, !.k = 1]]
        BY <2>3
      <3> DEFINE n == [job EXCEPT !.os = job.os \ {job.cur}, !.cur = o, !.k = 1]
      <3>2. n.pc = "settle" /\ n.os = job.os \ {job.cur} /\ n.to = job.to /\ n.k = 1
        BY <1>1 DEF Job
      <3>3. req' = [req EXCEPT ![r] = n] /\ job.k = Len(fx)
        BY <2>3, <3>1
      <3> HIDE DEF n, job
      <3> QED
        BY <3>2, <3>3
    <2> QED
      BY <1>4, <2>1, <2>2, <2>3
  <1>6. req'[r] = j /\ \A q \in Handlers : q # r => req'[q] = req[q]
    BY <1>5 DEF IInv, TypeOK
  <1>7. EffectsInOrder'
    <2> SUFFICES ASSUME NEW q \in Handlers, req'[q].pc = "settle",
                        NEW n \in 1..(req'[q].k - 1)
                 PROVE  calls'[req'[q].cur][EffectsOf(req'[q].to)[n]] > 0
      BY DEF EffectsInOrder
    <2>1. CASE q = r
      <3>1. j.pc = "settle" /\ n \in 1..(j.k - 1)
        BY <1>6, <2>1
      <3>2. j.k = job.k + 1 /\ j.cur = job.cur /\ j.to = job.to
        BY <1>5, <3>1
      <3>3. n \in 1..job.k
        BY <1>2, <3>1, <3>2
      <3> QED
        BY <1>3, <1>6, <2>1, <3>2, <3>3 DEF fx
    <2>2. CASE q # r
      <3>1. req'[q] = req[q] /\ req[q].pc = "settle" /\ n \in 1..(req[q].k - 1)
        BY <1>6, <2>2
      <3>2. req[q] \in Job /\ req[q].cur \in Orders
            /\ req[q].k \in 1..Len(EffectsOf(req[q].to))
        BY <3>1 DEF IInv, TypeOK, JobsDated, Job
      <3>3. Len(EffectsOf(req[q].to)) \in Nat
            /\ \A i \in 1..Len(EffectsOf(req[q].to)) : EffectsOf(req[q].to)[i] \in Effects
        BY <3>2, EffectsOfIsSeq DEF Job
      <3>4. EffectsOf(req[q].to)[n] \in Effects
        BY <3>1, <3>2, <3>3
      <3>5. calls[req[q].cur][EffectsOf(req[q].to)[n]] > 0
        BY <3>1 DEF RestInv, EffectsInOrder
      <3> QED
        BY <1>2, <3>1, <3>2, <3>4, <3>5
    <2> QED
      BY <2>1, <2>2
  <1>8. OwedOrDone'
    <2> SUFFICES ASSUME NEW o \in Orders, o \notin abandoned, ~Done(o, status[o])'
                 PROVE  \E q \in Handlers : Owes(q, o)'
      BY <1>1 DEF OwedOrDone
    <2>1. status[o] \in Statuses
      BY DEF IInv, TypeOK
    <2>2. ~Done(o, status[o])
      BY <1>1, <1>2, <2>1, RequiredIsInvoked DEF Done
    <2>3. PICK q \in Handlers : Owes(q, o)
      BY <2>2 DEF RestInv, OwedOrDone
    <2>4. CASE q # r
      <3>1. Owes(q, o)'
        BY <1>1, <1>6, <2>3, <2>4 DEF Owes
      <3> QED
        BY <3>1
    <2>5. CASE q = r
      <3>1. o \in job.os /\ job.to = status[o]
        BY <2>3, <2>5 DEF Owes
      <3>2. CASE j.pc = "settle" /\ o \in j.os /\ j.to = job.to
        <4>1. Owes(r, o)'
          BY <1>1, <1>6, <3>1, <3>2 DEF Owes
        <4> QED
          BY <4>1
      <3>3. CASE o = job.cur /\ job.k = Len(fx)
        <4>1. \A e \in Required(status[o]) : calls'[o][e] > 0
          <5> TAKE e \in Required(status[o])
          <5>1. PICK n \in 1..Len(fx) : fx[n] = e
            BY <2>1, <3>1, RequiredIsInvoked DEF fx
          <5> QED
            BY <1>3, <3>3, <5>1
        <4>2. Done(o, status[o])'
          BY <1>1, <4>1 DEF Done
        <4> QED
          BY <4>2
      <3> QED
        BY <1>5, <3>1, <3>2, <3>3
    <2> QED
      BY <2>4, <2>5
  <1> QED
    BY <1>7, <1>8 DEF RestInv

LEMMA FailRest ==
  ASSUME TypeOK, RestInv, NEW r \in Handlers, Fail(r)
  PROVE  RestInv'
  <1>1. /\ req'[r] = Idle /\ Idle.pc # "settle"
        /\ \A q \in Handlers : q # r => req'[q] = req[q]
        /\ calls' = calls /\ status' = status
        /\ abandoned \subseteq abandoned'
        /\ req[r].pc = "settle" => req[r].os \subseteq abandoned'
    BY DEF Fail, TypeOK, Idle, rows
  <1>2. EffectsInOrder'
    BY <1>1 DEF RestInv, EffectsInOrder
  <1>3. OwedOrDone'
    <2> SUFFICES ASSUME NEW o \in Orders, o \notin abandoned', ~Done(o, status[o])'
                 PROVE  \E q \in Handlers : Owes(q, o)'
      BY DEF OwedOrDone
    <2>1. o \notin abandoned /\ ~Done(o, status[o])
      BY <1>1 DEF Done
    <2>2. PICK q \in Handlers : Owes(q, o)
      BY <2>1 DEF RestInv, OwedOrDone
    <2>3. q # r
      BY <1>1, <2>2 DEF Owes
    <2>4. Owes(q, o)'
      BY <1>1, <2>2, <2>3 DEF Owes
    <2> QED
      BY <2>4
  <1> QED
    BY <1>2, <1>3 DEF RestInv

LEMMA SameRest ==
  ASSUME RestInv, UNCHANGED <<status, req, calls, abandoned>>
  PROVE  RestInv'
  BY DEF RestInv, EffectsInOrder, OwedOrDone, Done, Owes

LEMMA InitRest == Init => RestInv
  <1> SUFFICES ASSUME Init PROVE RestInv
    OBVIOUS
  <1>1. EffectsInOrder
    BY DEF Init, EffectsInOrder, Idle
  <1>2. OwedOrDone
    BY DEF Init, OwedOrDone, Done, Required
  <1> QED
    BY <1>1, <1>2 DEF RestInv

LEMMA NextRest == IInv /\ RestInv /\ [Next]_vars => RestInv'
  <1> SUFFICES ASSUME IInv, RestInv, [Next]_vars PROVE RestInv'
    OBVIOUS
  <1>0. TypeOK
    BY DEF IInv
  <1>1. CASE \E r \in Requests : BeginAny(r)
    <2>1. PICK r \in Requests : BeginAny(r)
      BY <1>1
    <2>2. r \in Handlers
      BY DEF Handlers
    <2>3. \/ \E os, to : Begin(r, os, to)
          \/ \E s \in Shippers, o \in Orders : AcceptOrder(r, s, o)
      BY <2>1 DEF BeginAny, BeginCancel, BeginConfirmReceipt, BeginRequestReturn,
           BeginAdminStatus, BeginSellerStatus, BeginMarkDelivered,
           BeginPaymentStatus, BeginMarkGroupPaid
    <2> QED
      BY <1>0, <2>2, <2>3, BeginRest, AcceptOrderRest
  <1>2. CASE BeginAutoComplete
    BY <1>0, <1>2, BeginRest DEF BeginAutoComplete, Handlers
  <1>3. CASE \E r \in Handlers : Advance(r)
    BY <1>0, <1>3, WriteStatusRest, WritePaymentRest, SettleRest, FailRest DEF Advance
  <1>4. CASE \E o \in Orders : Expire(o)
    BY <1>4, SameRest DEF Expire
  <1>5. CASE UNCHANGED vars
    BY <1>5, SameRest DEF vars
  <1> QED
    BY <1>1, <1>2, <1>3, <1>4, <1>5 DEF Next

\* Whichever of several racing handlers wrote an order's status last, once none is
\* settling the order and none failed there, everything that status requires was
\* invoked.
THEOREM SettledRest == Spec => []SettledAtRest
  <1>1. RestInv => SettledAtRest
    BY DEF RestInv, OwedOrDone, Done, Owes, SettledAtRest
  <1> QED
    BY <1>1, Invariance, InitRest, NextRest, PTL DEF Spec

-----------------------------------------------------------------------------
(* Payments: what is stored, and what the handlers know of it. *)

Stored(t) == tx[t] \in Row

\* The customer has paid some transaction of the group.
Collected(g) == \E t \in Txs : gateway[t] = "paid" /\ Stored(t) /\ Group[tx[t].order] = g

\* Orders of which a listener has disposed, or a person.  None ever leaves this set.
Accounted == paid \cup skipped \cup manual

\* What a handler read before its next await, as far as it still holds then.
Sound(job) ==
  /\ job.op = "url" => Stored(job.tx) /\ gateway[job.tx] = "none"
  /\ job.op = "ipn" => Stored(job.tx) /\ (job.to = "completed" => gateway[job.tx] = "paid")
  /\ job.op \in {"read", "mark"} => Collected(job.group)
  /\ job.op = "mark" => /\ job.os \subseteq Members(job.group)
                        /\ Members(job.group) \subseteq job.os \cup Accounted
  /\ job.op = "sweep" => \A t \in job.txs : Stored(t)

JobsSound == \A r \in Workers : Sound(work[r])

\* A transaction's URL is built once, by the handler that inserted it.
UrlsDiffer ==
  \A r, s \in Workers :
    work[r].op = "url" /\ work[s].op = "url" /\ work[r].tx = work[s].tx => r = s

\* The gateway has heard of stored transactions only; the cron's handler sweeps.
GatewayKnowsRows == \A t \in Txs : gateway[t] # "none" => Stored(t)
CronSweeps == work[Cron].op \in {"idle", "sweep"}

PaidIsBacked == \A o \in paid \ manual : Collected(Group[o])

PaymentInv ==
  /\ PaymentTypeOK /\ JobsSound /\ UrlsDiffer /\ GatewayKnowsRows /\ CronSweeps
  /\ CompletedIsCollected /\ PaidIsBacked /\ CompletedIsSettled

-----------------------------------------------------------------------------
(* Rows. *)

LEMMA NoTxIsNoRow == NoTx \notin Row
  BY DEF NoTx, Row

\* A write of a status keeps a stored row a row of the same order.
LEMMA StatusKeepsRow ==
  ASSUME NEW row \in Row, NEW st \in {"pending", "completed", "failed"}
  PROVE  /\ [row EXCEPT !.status = st] \in Row
         /\ [row EXCEPT !.status = st].order = row.order
         /\ [row EXCEPT !.status = st].status = st
  BY DEF Row

LEMMA AgeKeepsRow ==
  ASSUME NEW row \in Row
  PROVE  /\ [row EXCEPT !.old = TRUE] \in Row
         /\ [row EXCEPT !.old = TRUE].order = row.order
         /\ [row EXCEPT !.old = TRUE].status = row.status
  BY DEF Row

-----------------------------------------------------------------------------
(* Jobs. *)

\* A step that stores rows and keeps their orders, takes back no payment, opens no
\* URL that is still to be built and leaves no fewer orders accounted for keeps a job
\* sound.
LEMMA SoundStays ==
  ASSUME NEW job \in PaymentJob, Sound(job),
         \A t \in Txs : Stored(t) => Stored(t)' /\ tx'[t].order = tx[t].order,
         \A t \in Txs : gateway[t] = "paid" => gateway'[t] = "paid",
         job.op = "url" => gateway'[job.tx] = "none",
         Accounted \subseteq Accounted'
  PROVE  Sound(job)'
  <1>1. \A g : Collected(g) => Collected(g)'
    BY DEF Collected
  <1>2. job.op = "url" => job.tx \in Txs
    BY DEF PaymentJob, NoWork
  <1>3. job.op = "ipn" => job.tx \in Txs
    BY DEF PaymentJob, NoWork
  <1>4. job.op = "sweep" => job.txs \subseteq Txs
    BY DEF PaymentJob, NoWork
  <1>5. (job.op = "url" => Stored(job.tx)' /\ gateway'[job.tx] = "none")
    BY <1>2 DEF Sound
  <1>6. (job.op = "ipn" => Stored(job.tx)' /\ (job.to = "completed" => gateway'[job.tx] = "paid"))
    BY <1>3 DEF Sound
  <1>7. job.op \in {"read", "mark"} => Collected(job.group)'
    BY <1>1 DEF Sound
  <1>8. job.op = "mark" => /\ job.os \subseteq Members(job.group)
                           /\ Members(job.group) \subseteq job.os \cup Accounted'
    BY DEF Sound
  <1>9. job.op = "sweep" => \A t \in job.txs : Stored(t)'
    BY <1>4 DEF Sound
  <1> QED
    BY <1>5, <1>6, <1>7, <1>8, <1>9 DEF Sound, Members

\* A handler that only moves on to a sound job, settling no less than before.
LEMMA ReadInv ==
  ASSUME PaymentInv, NEW r \in Workers, NEW job \in PaymentJob, Goto(r, job), Sound(job)',
         job.op # "url", r = Cron => job.op \in {"idle", "sweep"},
         UNCHANGED <<cancelled, paid, tx, gateway, manual>>,
         skipped' \in SUBSET Orders, skipped \subseteq skipped',
         started' \in 0 .. MaxStarted, lost' \in SUBSET Groups, lost \subseteq lost',
         work[r].op \in {"read", "mark"} =>
            \/ job.op \in {"read", "mark"} /\ job.group = work[r].group
            \/ work[r].group \in lost'
  PROVE  PaymentInv'
  <1> USE DEF PaymentInv
  <1>1. work' = [work EXCEPT ![r] = job]
    BY DEF Goto
  <1>2. \A s \in Workers : work'[s] = IF s = r THEN job ELSE work[s]
    BY <1>1 DEF PaymentTypeOK
  <1>3. PaymentTypeOK'
    BY <1>1 DEF PaymentTypeOK
  <1>4. JobsSound'
    <2> SUFFICES ASSUME NEW s \in Workers PROVE Sound(work[s])'
      BY DEF JobsSound
    <2>1. CASE s = r
      BY <2>1, <1>2 DEF Sound
    <2>2. CASE s # r
      <3>1. Sound(work[s]) /\ work'[s] = work[s]
        BY <2>2, <1>2 DEF JobsSound
      <3>2. Accounted \subseteq Accounted'
        BY DEF Accounted
      <3> QED
        BY <3>1, <3>2 DEF Sound, Stored, Collected, Members
    <2> QED
      BY <2>1, <2>2
  <1>5. UrlsDiffer'
    BY <1>2 DEF UrlsDiffer
  <1>6. GatewayKnowsRows' /\ CompletedIsCollected' /\ PaidIsBacked'
    BY DEF GatewayKnowsRows, CompletedIsCollected, PaidIsBacked, Stored, Collected
  <1>7. CronSweeps'
    BY <1>2 DEF CronSweeps, Workers
  <1>8. CompletedIsSettled'
    <2> SUFFICES ASSUME NEW t \in Txs, tx[t].status = "completed",
                        Group[tx[t].order] \notin lost',
                        ~\E s \in Callers : /\ work'[s].op \in {"read", "mark"}
                                            /\ work'[s].group = Group[tx[t].order]
                 PROVE  Members(Group[tx[t].order]) \subseteq Accounted'
      BY DEF CompletedIsSettled, Members, Accounted
    <2>1. \A s \in Callers : ~(work[s].op \in {"read", "mark"}
                                /\ work[s].group = Group[tx[t].order])
      BY <1>2 DEF Workers
    <2> QED
      BY <2>1 DEF CompletedIsSettled, Accounted
  <1> QED
    BY <1>3, <1>4, <1>5, <1>6, <1>7, <1>8

\* The same when no order is passed over: what held of the job still does.
LEMMA GotoInv ==
  ASSUME PaymentInv, NEW r \in Workers, NEW job \in PaymentJob, Goto(r, job), Sound(job),
         job.op # "url", r = Cron => job.op \in {"idle", "sweep"},
         UNCHANGED <<cancelled, paid, tx, gateway, skipped, manual>>,
         started' \in 0 .. MaxStarted, lost' \in SUBSET Groups, lost \subseteq lost',
         work[r].op \in {"read", "mark"} =>
            \/ job.op \in {"read", "mark"} /\ job.group = work[r].group
            \/ work[r].group \in lost'
  PROVE  PaymentInv'
  <1>1. Sound(job)'
    BY DEF Sound, Stored, Collected, Members, Accounted
  <1>2. skipped' \in SUBSET Orders /\ skipped \subseteq skipped'
    BY DEF PaymentInv, PaymentTypeOK
  <1> QED
    BY <1>1, <1>2, ReadInv

-----------------------------------------------------------------------------
(* Workers that read. *)

LEMMA CreateSingleInv ==
  ASSUME PaymentInv, NEW r \in Callers, NEW o \in Orders, CreateSingle(r, o)
  PROVE  PaymentInv'
  <1> DEFINE job == [op |-> "check", kind |-> "single", order |-> o, covers |-> {o}]
  <1>1. job \in PaymentJob /\ Sound(job) /\ job.op = "check"
    BY DEF PaymentJob, Sound
  <1>2. r \in Workers /\ r # Cron
    BY PaymentAssumption DEF Workers
  <1>3. Goto(r, job) /\ UNCHANGED <<cancelled, paid, tx, gateway, skipped, manual>> /\ lost' = lost
    BY DEF CreateSingle
  <1>4. work[r].op = "idle" /\ started' \in 0 .. MaxStarted /\ lost' \in SUBSET Groups
    BY PaymentAssumption DEF CreateSingle, NoWork, PaymentInv, PaymentTypeOK
  <1> HIDE DEF job
  <1> QED
    BY <1>1, <1>2, <1>3, <1>4, GotoInv

LEMMA CreateGroupInv ==
  ASSUME PaymentInv, NEW r \in Callers, NEW g \in Groups, CreateGroup(r, g)
  PROVE  PaymentInv'
  <1>0. PICK first \in Members(g) \ cancelled :
          Goto(r, [op |-> "check", kind |-> "group", order |-> first,
                   covers |-> Members(g) \ cancelled])
    BY DEF CreateGroup
  <1> DEFINE job == [op |-> "check", kind |-> "group", order |-> first,
                     covers |-> Members(g) \ cancelled]
  <1>1. job \in PaymentJob /\ Sound(job) /\ job.op = "check"
    BY DEF PaymentJob, Sound, Members
  <1>2. r \in Workers /\ r # Cron
    BY PaymentAssumption DEF Workers
  <1>3. Goto(r, job) /\ UNCHANGED <<cancelled, paid, tx, gateway, skipped, manual>> /\ lost' = lost
    BY <1>0 DEF CreateGroup
  <1>4. work[r].op = "idle" /\ started' \in 0 .. MaxStarted /\ lost' \in SUBSET Groups
    BY PaymentAssumption DEF CreateGroup, NoWork, PaymentInv, PaymentTypeOK
  <1> HIDE DEF job
  <1> QED
    BY <1>1, <1>2, <1>3, <1>4, GotoInv

\* A job that ends.
LEMMA DoneInv ==
  ASSUME PaymentInv, NEW r \in Workers, Goto(r, NoWork),
         UNCHANGED <<cancelled, paid, tx, gateway, started, skipped, manual>>,
         lost' \in SUBSET Groups, lost \subseteq lost',
         work[r].op \in {"read", "mark"} => work[r].group \in lost'
  PROVE  PaymentInv'
  <1>1. NoWork \in PaymentJob /\ Sound(NoWork) /\ NoWork.op = "idle"
    BY DEF NoWork, PaymentJob, Sound
  <1>2. started' \in 0 .. MaxStarted
    BY DEF PaymentInv, PaymentTypeOK
  <1> QED
    BY <1>1, <1>2, GotoInv

LEMMA CheckPendingInv ==
  ASSUME PaymentInv, NEW r \in Callers, CheckPending(r)
  PROVE  PaymentInv'
  <1> DEFINE job == [op |-> "insert", order |-> work[r].order, covers |-> work[r].covers]
  <1>1. r \in Workers /\ r # Cron /\ work[r] \in PaymentJob /\ work[r].op = "check"
    BY PaymentAssumption DEF Workers, CheckPending, PaymentInv, PaymentTypeOK
  <1>2. job \in PaymentJob /\ Sound(job) /\ job.op = "insert"
    BY <1>1 DEF PaymentJob, Sound, NoWork
  <1>3. /\ UNCHANGED <<cancelled, paid, tx, gateway, skipped, manual>>
        /\ lost' = lost /\ started' = started
        /\ lost \in SUBSET Groups /\ started \in 0 .. MaxStarted
    BY DEF CheckPending, PaymentInv, PaymentTypeOK
  <1>4. Goto(r, NoWork) \/ Goto(r, job)
    BY DEF CheckPending
  <1> HIDE DEF job
  <1>5. CASE Goto(r, NoWork)
    BY <1>1, <1>3, <1>5, DoneInv
  <1>6. CASE Goto(r, job)
    BY <1>1, <1>2, <1>3, <1>6, GotoInv
  <1> QED
    BY <1>4, <1>5, <1>6

LEMMA IpnReadInv ==
  ASSUME PaymentInv, NEW r \in Callers, NEW t \in Txs, IpnRead(r, t)
  PROVE  PaymentInv'
  <1> DEFINE to == IF gateway[t] = "paid" THEN "completed" ELSE "failed"
  <1> DEFINE job == [op |-> "ipn", tx |-> t, to |-> to]
  <1>1. Stored(t)
    BY DEF IpnRead, PaymentInv, GatewayKnowsRows
  <1>2. job \in PaymentJob /\ Sound(job) /\ job.op = "ipn"
    BY <1>1 DEF PaymentJob, Sound
  <1>3. r \in Workers /\ r # Cron
    BY PaymentAssumption DEF Workers
  <1>4. Goto(r, job) /\ UNCHANGED <<cancelled, paid, tx, gateway, skipped, manual>> /\ lost' = lost
    BY DEF IpnRead
  <1>5. work[r].op = "idle" /\ started' \in 0 .. MaxStarted /\ lost' \in SUBSET Groups
    BY PaymentAssumption DEF IpnRead, NoWork, PaymentInv, PaymentTypeOK
  <1> HIDE DEF job
  <1> QED
    BY <1>2, <1>3, <1>4, <1>5, GotoInv

LEMMA MarkReadInv ==
  ASSUME PaymentInv, NEW r \in Callers, MarkRead(r)
  PROVE  PaymentInv'
  <1>1. r \in Workers /\ r # Cron /\ work[r] \in PaymentJob /\ work[r].op = "read"
    BY PaymentAssumption DEF Workers, MarkRead, PaymentInv, PaymentTypeOK
  <1>2. PICK g \in Groups : g = work[r].group /\ Collected(g)
    BY <1>1 DEF PaymentJob, NoWork, PaymentInv, JobsSound, Sound
  <1>3. PICK os \in SUBSET Orders : os = Members(g) \ cancelled
    BY DEF Members
  <1>4. PICK job \in PaymentJob : job = [op |-> "mark", group |-> g, os |-> os]
    BY DEF PaymentJob
  <1>5. /\ Goto(r, job) /\ UNCHANGED <<cancelled, paid, tx, gateway, manual>>
        /\ lost' = lost /\ started' = started
        /\ skipped' = skipped \cup (Members(g) \cap cancelled)
    BY <1>2, <1>3, <1>4 DEF MarkRead
  <1>6. lost' \in SUBSET Groups /\ started' \in 0 .. MaxStarted
    BY <1>5 DEF PaymentInv, PaymentTypeOK
  <1>7. skipped' \in SUBSET Orders /\ skipped \subseteq skipped'
    BY <1>5 DEF PaymentInv, PaymentTypeOK, Members
  <1>8. Sound(job)'
    <2>1. os \subseteq Members(g) /\ Members(g) \subseteq os \cup Accounted'
      BY <1>3, <1>5 DEF Accounted
    <2>2. Collected(g)'
      BY <1>2, <1>5 DEF Collected, Stored
    <2> QED
      BY <1>4, <2>1, <2>2 DEF Sound, Members
  <1> QED
    BY <1>1, <1>2, <1>4, <1>5, <1>6, <1>7, <1>8, ReadInv

LEMMA SweepReadInv ==
  ASSUME PaymentInv, SweepRead
  PROVE  PaymentInv'
  <1> DEFINE job == [op |-> "sweep", txs |-> {t \in Pending : tx[t].old}]
  <1>1. \A t \in job.txs : t \in Txs /\ Stored(t)
    BY DEF Pending, PaymentInv, PaymentTypeOK, Stored, NoTx
  <1>2. job \in PaymentJob /\ Sound(job) /\ job.op = "sweep"
    BY <1>1 DEF PaymentJob, Sound
  <1>3. Cron \in Workers
    BY DEF Workers
  <1>4. /\ Goto(Cron, job) /\ UNCHANGED <<cancelled, paid, tx, gateway, skipped, manual>>
        /\ lost' = lost /\ started' = started
    BY DEF SweepRead
  <1>5. /\ work[Cron].op = "idle"
        /\ lost' \in SUBSET Groups /\ started' \in 0 .. MaxStarted
    BY <1>4 DEF SweepRead, NoWork, PaymentInv, PaymentTypeOK
  <1> HIDE DEF job
  <1> QED
    BY <1>2, <1>3, <1>4, <1>5, GotoInv

LEMMA PaymentFailInv ==
  ASSUME PaymentInv, NEW r \in Workers, PaymentFail(r)
  PROVE  PaymentInv'
  <1>1. work[r] \in PaymentJob
    BY DEF PaymentInv, PaymentTypeOK
  <1>2. work[r].op \in {"read", "mark"} => work[r].group \in Groups
    BY <1>1 DEF PaymentJob, NoWork
  <1>3. /\ lost' \in SUBSET Groups /\ lost \subseteq lost'
        /\ work[r].op \in {"read", "mark"} => work[r].group \in lost'
    BY <1>2 DEF PaymentFail, PaymentInv, PaymentTypeOK
  <1> QED
    BY <1>3, DoneInv DEF PaymentFail

-----------------------------------------------------------------------------
(* Steps that write. *)

\* What every write keeps: rows stay and keep their orders, payments stay, and a
\* job that is new is sound.
LEMMA WriteKeeps ==
  ASSUME PaymentInv, work' \in [Workers -> PaymentJob],
         \A t \in Txs : Stored(t) => Stored(t)' /\ tx'[t].order = tx[t].order,
         \A t \in Txs : gateway[t] = "paid" => gateway'[t] = "paid",
         \A s \in Workers : \/ /\ work'[s] = work[s]
                               /\ work[s].op = "url" => gateway'[work[s].tx] = "none"
                            \/ Sound(work[s])',
         Accounted \subseteq Accounted',
         \A o \in paid' \ manual' : o \in paid \ manual \/ Collected(Group[o])
  PROVE  JobsSound' /\ PaidIsBacked'
  <1>1. JobsSound'
    <2> SUFFICES ASSUME NEW s \in Workers PROVE Sound(work[s])'
      BY DEF JobsSound
    <2>1. CASE /\ work'[s] = work[s]
               /\ work[s].op = "url" => gateway'[work[s].tx] = "none"
      <3>1. PICK job \in PaymentJob : job = work[s] /\ Sound(job)
        BY DEF PaymentInv, PaymentTypeOK, JobsSound
      <3>2. Sound(job)'
        BY <3>1, <2>1, SoundStays
      <3>3. work'[s] = job
        BY <3>1, <2>1
      <3> QED
        BY <3>2, <3>3 DEF Sound
    <2> QED
      BY <2>1
  <1>2. \A g : Collected(g) => Collected(g)'
    BY DEF Collected
  <1>3. PaidIsBacked'
    BY <1>2 DEF PaidIsBacked, PaymentInv
  <1> QED
    BY <1>1, <1>3

\* A completed transaction whose orders and settling handlers a step leaves alone.
LEMMA SettledStays ==
  ASSUME PaymentInv, NEW t \in Txs, tx[t].status = "completed",
         tx'[t].order = tx[t].order, lost \subseteq lost',
         Accounted \subseteq Accounted',
         \A s \in Callers :
           work[s].op \in {"read", "mark"} /\ work[s].group = Group[tx[t].order]
             => work'[s] = work[s]
  PROVE  LET g == Group[tx'[t].order]
             settling == \E s \in Callers :
                           work'[s].op \in {"read", "mark"} /\ work'[s].group = g
         IN g \notin lost' /\ ~settling => Members(g) \subseteq Accounted'
  BY DEF PaymentInv, CompletedIsSettled, Accounted

LEMMA InsertTxInv ==
  ASSUME PaymentInv, NEW r \in Callers, NEW t \in Txs, InsertTx(r, t)
  PROVE  PaymentInv'
  <1> DEFINE row == [order |-> work[r].order, covers |-> work[r].covers,
                     old |-> FALSE, status |-> "pending"]
  <1> DEFINE job == [op |-> "url", tx |-> t]
  <1>1. r \in Workers /\ r # Cron /\ work[r] \in PaymentJob /\ work[r].op = "insert"
    BY PaymentAssumption DEF Workers, InsertTx, PaymentInv, PaymentTypeOK
  <1>2. row \in Row /\ row.status = "pending" /\ job \in PaymentJob /\ job.op = "url" /\ job.tx = t
    BY <1>1 DEF Row, PaymentJob, NoWork
  <1>3. tx' = [tx EXCEPT ![t] = row] /\ work' = [work EXCEPT ![r] = job]
    BY DEF InsertTx, Goto
  <1>4. UNCHANGED <<cancelled, paid, gateway, started, lost, skipped, manual>>
    BY DEF InsertTx
  <1>5. ~Stored(t) /\ gateway[t] = "none"
    BY NoTxIsNoRow DEF InsertTx, Stored, PaymentInv, GatewayKnowsRows
  <1>6. Sound(job)'
    BY <1>2, <1>3, <1>4, <1>5 DEF Sound, Stored, PaymentInv, PaymentTypeOK
  <1> HIDE DEF row, job
  <1>7. \A u \in Txs : tx'[u] = IF u = t THEN row ELSE tx[u]
    BY <1>3 DEF PaymentInv, PaymentTypeOK
  <1>8. \A s \in Workers : work'[s] = IF s = r THEN job ELSE work[s]
    BY <1>3 DEF PaymentInv, PaymentTypeOK
  <1>9. PaymentTypeOK'
    BY <1>2, <1>3, <1>4 DEF PaymentInv, PaymentTypeOK
  <1>10. JobsSound' /\ PaidIsBacked'
    <2>1. \A u \in Txs : Stored(u) => Stored(u)' /\ tx'[u].order = tx[u].order
      BY <1>5, <1>7 DEF Stored
    <2>2. \A s \in Workers : \/ /\ work'[s] = work[s]
                                /\ work[s].op = "url" => gateway'[work[s].tx] = "none"
                             \/ Sound(work[s])'
      <3> SUFFICES ASSUME NEW s \in Workers
                   PROVE  \/ /\ work'[s] = work[s]
                             /\ work[s].op = "url" => gateway'[work[s].tx] = "none"
                          \/ Sound(work[s])'
        OBVIOUS
      <3>1. CASE s = r
        <4>1. work'[s] = job
          BY <1>8, <3>1
        <4> QED
          BY <1>6, <4>1 DEF Sound
      <3>2. CASE s # r
        BY <1>8, <1>4, <3>2 DEF PaymentInv, JobsSound, Sound
      <3> QED
        BY <3>1, <3>2
    <2>3. work' \in [Workers -> PaymentJob]
      BY <1>9 DEF PaymentTypeOK
    <2> QED
      BY <2>1, <2>2, <2>3, <1>4, WriteKeeps DEF Accounted
  <1>11. UrlsDiffer'
    BY <1>2, <1>5, <1>8 DEF UrlsDiffer, PaymentInv, JobsSound, Sound
  <1>12. GatewayKnowsRows' /\ CompletedIsCollected' /\ CronSweeps'
    BY <1>1, <1>2, <1>4, <1>5, <1>7, <1>8
       DEF GatewayKnowsRows, CompletedIsCollected, CronSweeps, Stored, PaymentInv, Workers
  <1>13. CompletedIsSettled'
    <2> SUFFICES ASSUME NEW u \in Txs, tx'[u].status = "completed"
                 PROVE  LET g == Group[tx'[u].order]
                            settling == \E s \in Callers :
                              work'[s].op \in {"read", "mark"} /\ work'[s].group = g
                        IN g \notin lost' /\ ~settling => Members(g) \subseteq Accounted'
      BY DEF CompletedIsSettled, Members, Accounted
    <2>1. tx'[u] = tx[u]
      BY <1>2, <1>7
    <2>2. \A s \in Callers : work[s].op \in {"read", "mark"} => work'[s] = work[s]
      BY <1>1, <1>8 DEF Workers
    <2> QED
      BY <2>1, <2>2, <1>4, SettledStays DEF Accounted
  <1> QED
    BY <1>9, <1>10, <1>11, <1>12, <1>13 DEF PaymentInv

\* A step after which no new URL is to be built keeps what WriteKeeps leaves open.
LEMMA WriteInv ==
  ASSUME PaymentInv, PaymentTypeOK',
         \A t \in Txs : Stored(t) => Stored(t)' /\ tx'[t].order = tx[t].order,
         \A t \in Txs : gateway[t] = "paid" => gateway'[t] = "paid",
         \A s \in Workers : \/ /\ work'[s] = work[s]
                               /\ work[s].op = "url" => gateway'[work[s].tx] = "none"
                            \/ /\ Sound(work[s])'
                               /\ work'[s].op # "url"
                               /\ s = Cron => work'[s].op \in {"idle", "sweep"},
         Accounted \subseteq Accounted',
         \A o \in paid' \ manual' : o \in paid \ manual \/ Collected(Group[o]),
         GatewayKnowsRows', CompletedIsCollected', CompletedIsSettled'
  PROVE  PaymentInv'
  <1>1. JobsSound' /\ PaidIsBacked'
    <2>1. work' \in [Workers -> PaymentJob]
      BY DEF PaymentTypeOK
    <2> QED
      BY <2>1, WriteKeeps
  <1>2. UrlsDiffer'
    BY DEF UrlsDiffer, PaymentInv
  <1>3. CronSweeps'
    BY DEF CronSweeps, PaymentInv, Workers
  <1> QED
    BY <1>1, <1>2, <1>3 DEF PaymentInv

\* SettledStays for every transaction that a step has not completed.
LEMMA SettledInv ==
  ASSUME PaymentInv,
         \A t \in Txs : tx'[t].status = "completed" =>
           tx[t].status = "completed" /\ tx'[t].order = tx[t].order,
         lost \subseteq lost', Accounted \subseteq Accounted',
         \A s \in Callers : work[s].op \in {"read", "mark"} => work'[s] = work[s]
  PROVE  CompletedIsSettled'
  <1> SUFFICES ASSUME NEW u \in Txs, tx'[u].status = "completed"
               PROVE  LET g == Group[tx'[u].order]
                          settling == \E s \in Callers :
                            work'[s].op \in {"read", "mark"} /\ work'[s].group = g
                      IN g \notin lost' /\ ~settling => Members(g) \subseteq Accounted'
    BY DEF CompletedIsSettled, Members, Accounted
  <1> QED
    BY SettledStays

LEMMA BuildUrlInv ==
  ASSUME PaymentInv, NEW r \in Callers, BuildUrl(r)
  PROVE  PaymentInv'
  <1>0. PICK t \in Txs : t = work[r].tx
    BY DEF BuildUrl, PaymentInv, PaymentTypeOK, PaymentJob, NoWork, Workers
  <1>1. /\ r \in Workers /\ r # Cron /\ work[r].op = "url"
        /\ Stored(t) /\ gateway[t] = "none"
    BY <1>0, PaymentAssumption DEF Workers, BuildUrl, PaymentInv, JobsSound, Sound
  <1>2. /\ work' = [work EXCEPT ![r] = NoWork]
        /\ UNCHANGED <<cancelled, paid, started, lost, skipped, manual>>
    BY DEF BuildUrl, Goto
  <1>3. \A s \in Workers : work'[s] = IF s = r THEN NoWork ELSE work[s]
    BY <1>2 DEF PaymentInv, PaymentTypeOK
  <1>4. NoWork \in PaymentJob /\ NoWork.op = "idle"
    BY DEF NoWork, PaymentJob
  <1>5. \A s \in Workers : s # r /\ work[s].op = "url" => work[s].tx # t
    BY <1>0, <1>1 DEF PaymentInv, UrlsDiffer
  <1>6. \A s \in Workers : \/ s # r /\ work'[s] = work[s]
                           \/ /\ Sound(work[s])' /\ work'[s].op # "url"
                              /\ s = Cron => work'[s].op \in {"idle", "sweep"}
    BY <1>1, <1>3, <1>4 DEF Sound
  <1>7. \A s \in Callers : work[s].op \in {"read", "mark"} => work'[s] = work[s]
    BY <1>1, <1>3 DEF Workers
  <1>8. CASE gateway' = [gateway EXCEPT ![t] = "open"] /\ UNCHANGED tx
    <2>1. \A u \in Txs : gateway'[u] = IF u = t THEN "open" ELSE gateway[u]
      BY <1>8 DEF PaymentInv, PaymentTypeOK
    <2>2. PaymentTypeOK'
      BY <1>2, <1>4, <1>8 DEF PaymentInv, PaymentTypeOK, Verdicts
    <2>3. \A s \in Workers : s # r /\ work[s].op = "url" => gateway'[work[s].tx] = "none"
      <3>1. \A s \in Workers : work[s].op = "url" =>
              work[s].tx \in Txs /\ gateway[work[s].tx] = "none"
        BY DEF PaymentInv, PaymentTypeOK, PaymentJob, NoWork, JobsSound, Sound
      <3> QED
        BY <3>1, <2>1, <1>5
    <2>4. GatewayKnowsRows' /\ CompletedIsCollected'
      BY <1>1, <1>8, <2>1 DEF PaymentInv, GatewayKnowsRows, CompletedIsCollected, Stored
    <2>5. CompletedIsSettled'
      BY <1>2, <1>7, <1>8, SettledInv DEF Accounted
    <2>6. \A u \in Txs : /\ Stored(u) => Stored(u)' /\ tx'[u].order = tx[u].order
                         /\ gateway[u] = "paid" => gateway'[u] = "paid"
      BY <1>1, <1>8, <2>1 DEF Stored
    <2> QED
      BY <1>2, <1>6, <2>2, <2>3, <2>4, <2>5, <2>6, WriteInv DEF Accounted
  <1>9. CASE SetStatus(t, "failed") /\ UNCHANGED gateway
    <2>1. \A u \in Txs : tx'[u] = IF u = t THEN [tx[t] EXCEPT !.status = "failed"] ELSE tx[u]
      BY <1>9 DEF PaymentInv, PaymentTypeOK, SetStatus
    <2>2. PICK row \in Row : /\ row = [tx[t] EXCEPT !.status = "failed"]
                             /\ row.order = tx[t].order /\ row.status = "failed"
      BY <1>1, StatusKeepsRow DEF Stored
    <2>3. PaymentTypeOK'
      BY <1>2, <1>4, <1>9, <2>2 DEF PaymentInv, PaymentTypeOK, SetStatus
    <2>4. \A s \in Workers : work[s].op = "url" => gateway'[work[s].tx] = "none"
      BY <1>9 DEF PaymentInv, JobsSound, Sound
    <2>5. GatewayKnowsRows' /\ CompletedIsCollected'
      BY <1>9, <2>1, <2>2 DEF PaymentInv, GatewayKnowsRows, CompletedIsCollected, Stored
    <2>6. CompletedIsSettled'
      BY <1>2, <1>7, <2>1, <2>2, SettledInv DEF Accounted
    <2>7. \A u \in Txs : /\ Stored(u) => Stored(u)' /\ tx'[u].order = tx[u].order
                         /\ gateway[u] = "paid" => gateway'[u] = "paid"
      BY <1>9, <2>1, <2>2 DEF Stored
    <2> QED
      BY <1>2, <1>6, <2>3, <2>4, <2>5, <2>6, <2>7, WriteInv DEF Accounted
  <1> QED
    BY <1>0, <1>8, <1>9 DEF BuildUrl

\* updateStatus on a stored row.
LEMMA SetStatusKeeps ==
  ASSUME PaymentInv, NEW t \in Txs, Stored(t), NEW st \in {"completed", "failed"},
         SetStatus(t, st), gateway' = gateway,
         st = "completed" => gateway[t] = "paid"
  PROVE  /\ tx' \in [Txs -> Row \cup {NoTx}]
         /\ \A u \in Txs : u # t => tx'[u] = tx[u]
         /\ tx'[t].status = st
         /\ \A u \in Txs : Stored(u) => Stored(u)' /\ tx'[u].order = tx[u].order
         /\ \A u \in Txs : gateway[u] = "paid" => gateway'[u] = "paid"
         /\ GatewayKnowsRows' /\ CompletedIsCollected'
  <1>1. \A u \in Txs : tx'[u] = IF u = t THEN [tx[t] EXCEPT !.status = st] ELSE tx[u]
    BY DEF PaymentInv, PaymentTypeOK, SetStatus
  <1>2. PICK row \in Row : /\ row = [tx[t] EXCEPT !.status = st]
                           /\ row.order = tx[t].order /\ row.status = st
    <2>1. st \in {"pending", "completed", "failed"} /\ tx[t] \in Row
      BY DEF Stored
    <2>2. /\ [tx[t] EXCEPT !.status = st] \in Row
          /\ [tx[t] EXCEPT !.status = st].order = tx[t].order
          /\ [tx[t] EXCEPT !.status = st].status = st
      BY <2>1, StatusKeepsRow
    <2> QED
      BY <2>2
  <1>3. tx' \in [Txs -> Row \cup {NoTx}]
    BY <1>2 DEF PaymentInv, PaymentTypeOK, SetStatus
  <1>4. GatewayKnowsRows' /\ CompletedIsCollected'
    BY <1>1, <1>2 DEF PaymentInv, GatewayKnowsRows, CompletedIsCollected, Stored
  <1>5. \A u \in Txs : Stored(u) => Stored(u)' /\ tx'[u].order = tx[u].order
    BY <1>1, <1>2 DEF Stored
  <1> QED
    BY <1>1, <1>2, <1>3, <1>4, <1>5

LEMMA IpnWriteInv ==
  ASSUME PaymentInv, NEW r \in Callers, IpnWrite(r)
  PROVE  PaymentInv'
  <1>0. PICK t \in Txs, st \in {"completed", "failed"} : t = work[r].tx /\ st = work[r].to
    BY DEF IpnWrite, PaymentInv, PaymentTypeOK, PaymentJob, NoWork, Workers
  <1>1. /\ r \in Workers /\ r # Cron /\ work[r].op = "ipn"
        /\ Stored(t) /\ (st = "completed" => gateway[t] = "paid")
    BY <1>0, PaymentAssumption DEF Workers, IpnWrite, PaymentInv, JobsSound, Sound
  <1>2. SetStatus(t, st) /\ UNCHANGED <<cancelled, paid, gateway, started, lost, skipped, manual>>
    BY <1>0 DEF IpnWrite
  <1>3. PICK g \in Groups : g = Group[tx[t].order]
    BY <1>1 DEF Stored, Row, Groups
  <1>4. PICK job \in PaymentJob : /\ work' = [work EXCEPT ![r] = job]
                                  /\ \/ job = NoWork /\ st = "failed"
                                     \/ job = [op |-> "read", group |-> g] /\ st = "completed"
    <2>1. NoWork \in PaymentJob /\ [op |-> "read", group |-> g] \in PaymentJob
      BY DEF PaymentJob
    <2> QED
      BY <2>1, <1>0, <1>3 DEF IpnWrite, Goto
  <1>5. \A s \in Workers : work'[s] = IF s = r THEN job ELSE work[s]
    BY <1>4 DEF PaymentInv, PaymentTypeOK
  <1>6. /\ tx' \in [Txs -> Row \cup {NoTx}]
        /\ \A u \in Txs : u # t => tx'[u] = tx[u]
        /\ tx'[t].status = st
        /\ \A u \in Txs : Stored(u) => Stored(u)' /\ tx'[u].order = tx[u].order
        /\ \A u \in Txs : gateway[u] = "paid" => gateway'[u] = "paid"
        /\ GatewayKnowsRows' /\ CompletedIsCollected'
    BY <1>1, <1>2, SetStatusKeeps
  <1>7. PaymentTypeOK'
    BY <1>2, <1>4, <1>6 DEF PaymentInv, PaymentTypeOK
  <1>8. Sound(work[r])'
    <2>1. st = "completed" => Collected(g)'
      BY <1>1, <1>2, <1>3, <1>6 DEF Collected
    <2> QED
      BY <2>1, <1>1, <1>4, <1>5 DEF Sound, NoWork
  <1>9. \A s \in Workers : \/ /\ work'[s] = work[s]
                              /\ work[s].op = "url" => gateway'[work[s].tx] = "none"
                           \/ /\ Sound(work[s])'
                              /\ work'[s].op # "url"
                              /\ s = Cron => work'[s].op \in {"idle", "sweep"}
    <2>1. job.op # "url"
      BY <1>4 DEF NoWork
    <2>2. \A s \in Workers : work[s].op = "url" => gateway'[work[s].tx] = "none"
      BY <1>2 DEF PaymentInv, JobsSound, Sound
    <2> QED
      BY <2>1, <2>2, <1>1, <1>5, <1>8
  <1>10. CompletedIsSettled'
    <2> SUFFICES ASSUME NEW u \in Txs, tx'[u].status = "completed"
                 PROVE  LET h == Group[tx'[u].order]
                            settling == \E s \in Callers :
                              work'[s].op \in {"read", "mark"} /\ work'[s].group = h
                        IN h \notin lost' /\ ~settling => Members(h) \subseteq Accounted'
      BY DEF CompletedIsSettled, Members, Accounted
    <2>1. CASE u = t
      BY <2>1, <1>1, <1>3, <1>4, <1>5, <1>6
    <2>2. CASE u # t
      <3>1. \A s \in Callers : work[s].op \in {"read", "mark"} => work'[s] = work[s]
        BY <1>1, <1>5 DEF Workers
      <3> QED
        BY <2>2, <3>1, <1>2, <1>6, SettledStays DEF Accounted
    <2> QED
      BY <2>1, <2>2
  <1> QED
    BY <1>2, <1>6, <1>7, <1>9, <1>10, WriteInv DEF Accounted

LEMMA SweepWriteInv ==
  ASSUME PaymentInv, SweepWrite
  PROVE  PaymentInv'
  <1>0. work[Cron] \in PaymentJob /\ work[Cron].op = "sweep" /\ Cron \in Workers
    BY DEF SweepWrite, PaymentInv, PaymentTypeOK, Workers
  <1>1. PICK t \in work[Cron].txs :
          /\ SetStatus(t, "failed")
          /\ Goto(Cron, IF work[Cron].txs = {t} THEN NoWork
                        ELSE [work[Cron] EXCEPT !.txs = @ \ {t}])
    BY DEF SweepWrite
  <1>2. work[Cron].txs \subseteq Txs /\ \A u \in work[Cron].txs : Stored(u)
    BY <1>0 DEF PaymentJob, NoWork, PaymentInv, JobsSound, Sound
  <1>3. UNCHANGED <<cancelled, paid, gateway, started, lost, skipped, manual>>
    BY DEF SweepWrite
  <1>4. PICK job \in PaymentJob : /\ work' = [work EXCEPT ![Cron] = job]
                                  /\ \/ job.op = "idle"
                                     \/ job.op = "sweep" /\ job.txs \subseteq work[Cron].txs
    <2>1. NoWork \in PaymentJob /\ NoWork.op = "idle"
      BY DEF PaymentJob, NoWork
    <2>2. LET next == [work[Cron] EXCEPT !.txs = @ \ {t}]
          IN next \in PaymentJob /\ next.op = "sweep" /\ next.txs \subseteq work[Cron].txs
      BY <1>0 DEF PaymentJob, NoWork
    <2> QED
      BY <1>1, <2>1, <2>2 DEF Goto
  <1>5. \A s \in Workers : work'[s] = IF s = Cron THEN job ELSE work[s]
    BY <1>4 DEF PaymentInv, PaymentTypeOK
  <1>6. /\ tx' \in [Txs -> Row \cup {NoTx}]
        /\ \A u \in Txs : u # t => tx'[u] = tx[u]
        /\ tx'[t].status = "failed"
        /\ \A u \in Txs : Stored(u) => Stored(u)' /\ tx'[u].order = tx[u].order
        /\ \A u \in Txs : gateway[u] = "paid" => gateway'[u] = "paid"
        /\ GatewayKnowsRows' /\ CompletedIsCollected'
    BY <1>1, <1>2, <1>3, SetStatusKeeps
  <1>7. PaymentTypeOK'
    BY <1>3, <1>4, <1>6 DEF PaymentInv, PaymentTypeOK
  <1>8. Sound(work[Cron])'
    BY <1>2, <1>4, <1>5, <1>6, <1>0 DEF Sound
  <1>9. \A s \in Workers : \/ /\ work'[s] = work[s]
                              /\ work[s].op = "url" => gateway'[work[s].tx] = "none"
                           \/ /\ Sound(work[s])'
                              /\ work'[s].op # "url"
                              /\ s = Cron => work'[s].op \in {"idle", "sweep"}
    <2>1. \A s \in Workers : work[s].op = "url" => gateway'[work[s].tx] = "none"
      BY <1>3 DEF PaymentInv, JobsSound, Sound
    <2> QED
      BY <2>1, <1>4, <1>5, <1>8
  <1>10. CompletedIsSettled'
    <2>1. \A s \in Callers : work[s].op \in {"read", "mark"} => work'[s] = work[s]
      BY <1>5, PaymentAssumption DEF Workers
    <2>2. \A u \in Txs : tx'[u].status = "completed" =>
            tx[u].status = "completed" /\ tx'[u].order = tx[u].order
      BY <1>6
    <2> QED
      BY <2>1, <2>2, <1>3, SettledInv DEF Accounted
  <1> QED
    BY <1>3, <1>6, <1>7, <1>9, <1>10, WriteInv DEF Accounted

LEMMA MarkWriteInv ==
  ASSUME PaymentInv, NEW r \in Callers, MarkWrite(r)
  PROVE  PaymentInv'
  <1>0. /\ r \in Workers /\ r # Cron /\ work[r] \in PaymentJob /\ work[r].op = "mark"
    BY PaymentAssumption DEF Workers, MarkWrite, PaymentInv, PaymentTypeOK
  <1>1. PICK g \in Groups, os \in SUBSET Orders : g = work[r].group /\ os = work[r].os
    BY <1>0 DEF PaymentJob, NoWork
  <1>2. Collected(g) /\ os \subseteq Members(g) /\ Members(g) \subseteq os \cup Accounted
    BY <1>0, <1>1 DEF PaymentInv, JobsSound, Sound
  <1>3. /\ paid' = paid \cup os /\ skipped' = skipped \ os /\ manual' = manual \ os
        /\ work' = [work EXCEPT ![r] = NoWork]
        /\ UNCHANGED <<cancelled, tx, gateway, started, lost>>
    BY <1>1 DEF MarkWrite, Goto
  <1>4. NoWork \in PaymentJob /\ NoWork.op = "idle"
    BY DEF NoWork, PaymentJob
  <1>5. \A s \in Workers : work'[s] = IF s = r THEN NoWork ELSE work[s]
    BY <1>3 DEF PaymentInv, PaymentTypeOK
  <1>6. PaymentTypeOK'
    BY <1>3, <1>4 DEF PaymentInv, PaymentTypeOK
  <1>7. \A u \in Txs : Stored(u) => Stored(u)' /\ tx'[u].order = tx[u].order
    BY <1>3 DEF Stored
  <1>8. \A s \in Workers : \/ /\ work'[s] = work[s]
                              /\ work[s].op = "url" => gateway'[work[s].tx] = "none"
                           \/ /\ Sound(work[s])'
                              /\ work'[s].op # "url"
                              /\ s = Cron => work'[s].op \in {"idle", "sweep"}
    <2>1. \A s \in Workers : work[s].op = "url" => gateway'[work[s].tx] = "none"
      BY <1>3 DEF PaymentInv, JobsSound, Sound
    <2> QED
      BY <2>1, <1>0, <1>4, <1>5 DEF Sound
  <1>9. \A o \in paid' \ manual' : o \in paid \ manual \/ Collected(Group[o])
    BY <1>2, <1>3 DEF Members
  <1>10. GatewayKnowsRows' /\ CompletedIsCollected'
    BY <1>3 DEF GatewayKnowsRows, CompletedIsCollected, Stored, PaymentInv
  <1>11. CompletedIsSettled'
    <2> SUFFICES ASSUME NEW u \in Txs, tx[u].status = "completed"
                 PROVE  LET h == Group[tx'[u].order]
                            settling == \E s \in Callers :
                              work'[s].op \in {"read", "mark"} /\ work'[s].group = h
                        IN h \notin lost' /\ ~settling => Members(h) \subseteq Accounted'
      BY <1>3 DEF CompletedIsSettled, Members, Accounted
    <2>1. CASE Group[tx[u].order] = g
      BY <2>1, <1>2, <1>3 DEF Accounted
    <2>2. CASE Group[tx[u].order] # g
      <3>1. \A s \in Callers :
              work[s].op \in {"read", "mark"} /\ work[s].group = Group[tx[u].order]
                => work'[s] = work[s]
        BY <2>2, <1>1, <1>5 DEF Workers
      <3> QED
        BY <3>1, <1>3, SettledStays DEF Accounted
    <2> QED
      BY <2>1, <2>2
  <1> QED
    BY <1>3, <1>6, <1>7, <1>8, <1>9, <1>10, <1>11, WriteInv DEF Accounted

\* Steps of the world around the feature leave its handlers where they are.
LEMMA WorldInv ==
  ASSUME PaymentInv, PaymentTypeOK', UNCHANGED <<work, lost>>, Accounted \subseteq Accounted',
         paid' \ manual' \subseteq paid \ manual,
         \A t \in Txs : Stored(t) => Stored(t)' /\ tx'[t].order = tx[t].order,
         \A t \in Txs : tx'[t].status = tx[t].status,
         \A t \in Txs : tx'[t].status = "completed" => tx'[t].order = tx[t].order,
         \A t \in Txs : gateway'[t] = gateway[t] \/ gateway[t] = "open"
  PROVE  PaymentInv'
  <1>1. \A s \in Workers : /\ work'[s] = work[s]
                           /\ work[s].op = "url" => gateway'[work[s].tx] = "none"
    <2>1. \A s \in Workers : work[s].op = "url" =>
            work[s].tx \in Txs /\ gateway[work[s].tx] = "none"
      BY DEF PaymentInv, PaymentTypeOK, PaymentJob, NoWork, JobsSound, Sound
    <2> QED
      BY <2>1
  <1>2. GatewayKnowsRows' /\ CompletedIsCollected'
    BY DEF GatewayKnowsRows, CompletedIsCollected, PaymentInv
  <1>3. CompletedIsSettled'
    BY SettledInv
  <1> QED
    BY <1>1, <1>2, <1>3, WriteInv

LEMMA GatewayDecidesInv ==
  ASSUME PaymentInv, NEW t \in Txs, GatewayDecides(t)
  PROVE  PaymentInv'
  <1>1. PICK v \in {"paid", "refused"} : gateway' = [gateway EXCEPT ![t] = v]
    BY DEF GatewayDecides
  <1>2. gateway[t] = "open" /\ UNCHANGED <<cancelled, paid, tx, work, started, lost, skipped, manual>>
    BY DEF GatewayDecides
  <1>3. PaymentTypeOK'
    BY <1>1, <1>2 DEF PaymentInv, PaymentTypeOK, Verdicts
  <1>4. \A u \in Txs : gateway'[u] = gateway[u] \/ gateway[u] = "open"
    BY <1>1, <1>2 DEF PaymentInv, PaymentTypeOK
  <1> QED
    BY <1>2, <1>3, <1>4, WorldInv DEF Stored, Accounted

LEMMA AgeInv ==
  ASSUME PaymentInv, NEW t \in Txs, Age(t)
  PROVE  PaymentInv'
  <1>1. Stored(t) /\ UNCHANGED <<cancelled, paid, gateway, work, started, lost, skipped, manual>>
    BY DEF Age, Pending, PaymentInv, PaymentTypeOK, Stored, NoTx
  <1>2. PICK row \in Row : /\ row = [tx[t] EXCEPT !.old = TRUE]
                           /\ row.order = tx[t].order /\ row.status = tx[t].status
    BY <1>1, AgeKeepsRow DEF Stored
  <1>3. \A u \in Txs : tx'[u] = IF u = t THEN row ELSE tx[u]
    BY <1>2 DEF Age, PaymentInv, PaymentTypeOK
  <1>4. PaymentTypeOK'
    BY <1>1, <1>2 DEF Age, PaymentInv, PaymentTypeOK
  <1> QED
    BY <1>1, <1>2, <1>3, <1>4, WorldInv DEF Stored, Accounted

LEMMA CancelOrderInv ==
  ASSUME PaymentInv, NEW o \in Orders, CancelOrder(o) \/ OverwriteCancellation(o)
  PROVE  PaymentInv'
  <1>1. PaymentTypeOK' /\ UNCHANGED <<paid, tx, gateway, work, lost, skipped, manual>>
    BY PaymentAssumption DEF CancelOrder, OverwriteCancellation, PaymentInv, PaymentTypeOK
  <1> QED
    BY <1>1, WorldInv DEF Stored, Accounted

LEMMA SetPaymentStatusInv ==
  ASSUME PaymentInv, NEW o \in Orders, SetPaymentStatus(o)
  PROVE  PaymentInv'
  <1>1. PaymentTypeOK' /\ UNCHANGED <<tx, gateway, work, lost, skipped>>
    BY PaymentAssumption DEF SetPaymentStatus, PaymentInv, PaymentTypeOK
  <1>2. /\ Accounted \subseteq Accounted'
        /\ paid' \ manual' \subseteq paid \ manual
    BY DEF SetPaymentStatus, Accounted
  <1> QED
    BY <1>1, <1>2, WorldInv DEF Stored

LEMMA StutterInv ==
  ASSUME PaymentInv, UNCHANGED paymentVars
  PROVE  PaymentInv'
  BY WorldInv DEF Accounted, paymentVars, PaymentInv, PaymentTypeOK, Stored

-----------------------------------------------------------------------------
LEMMA PaymentInitInv == PaymentInit => PaymentInv
  <1> SUFFICES ASSUME PaymentInit PROVE PaymentInv
    OBVIOUS
  <1>1. Cron \in Workers /\ \A r \in Workers : work[r].op = "idle"
    BY DEF PaymentInit, Workers, NoWork
  <1>2. PaymentTypeOK
    BY PaymentAssumption DEF PaymentInit, PaymentTypeOK, PaymentJob, Verdicts
  <1>3. JobsSound /\ UrlsDiffer /\ CronSweeps
    BY <1>1 DEF JobsSound, Sound, UrlsDiffer, CronSweeps
  <1>4. GatewayKnowsRows /\ CompletedIsCollected /\ PaidIsBacked /\ CompletedIsSettled
    BY DEF PaymentInit, GatewayKnowsRows, CompletedIsCollected, PaidIsBacked, CompletedIsSettled, NoTx
  <1> QED
    BY <1>2, <1>3, <1>4 DEF PaymentInv

LEMMA PaymentNextInv == PaymentInv /\ [PaymentNext]_paymentVars => PaymentInv'
  <1> SUFFICES ASSUME PaymentInv, [PaymentNext]_paymentVars PROVE PaymentInv'
    OBVIOUS
  <1>1. CASE \E r \in Callers : Create(r)
    BY <1>1, CreateSingleInv, CreateGroupInv, CheckPendingInv, InsertTxInv, BuildUrlInv
       DEF Create
  <1>2. CASE \E r \in Callers : Callback(r)
    BY <1>2, IpnReadInv, IpnWriteInv, MarkReadInv, MarkWriteInv DEF Callback
  <1>3. CASE SweepRead \/ SweepWrite
    BY <1>3, SweepReadInv, SweepWriteInv
  <1>4. CASE \E t \in Txs : GatewayDecides(t) \/ Age(t)
    BY <1>4, GatewayDecidesInv, AgeInv
  <1>5. CASE \E o \in Orders : CancelOrder(o) \/ OverwriteCancellation(o) \/ SetPaymentStatus(o)
    BY <1>5, CancelOrderInv, SetPaymentStatusInv
  <1>6. CASE \E r \in Workers : PaymentFail(r)
    BY <1>6, PaymentFailInv
  <1>7. CASE UNCHANGED paymentVars
    BY <1>7, StutterInv
  <1> QED
    BY <1>1, <1>2, <1>3, <1>4, <1>5, <1>6, <1>7 DEF PaymentNext

LEMMA Inductive == PaymentSpec => []PaymentInv
  BY PaymentInitInv, PaymentNextInv, PTL DEF PaymentSpec

-----------------------------------------------------------------------------
\* Every row, verdict and handler keeps its type, whatever the callbacks, retries and
\* the cron write over one another.
THEOREM PaymentTypeCorrect == PaymentSpec => []PaymentTypeOK
  <1>1. PaymentInv => PaymentTypeOK
    BY DEF PaymentInv
  <1> QED
    BY <1>1, Inductive, PTL

\* payment.service.ts records a payment as completed only after the gateway said so.
THEOREM CompletedCollected == PaymentSpec => []CompletedIsCollected
  <1>1. PaymentInv => CompletedIsCollected
    BY DEF PaymentInv
  <1> QED
    BY <1>1, Inductive, PTL

\* The listener of payment.completed marks orders paid only behind a collected payment
\* of their group; an order a person last set to paid is his responsibility.
THEOREM PaidCollected == PaymentSpec => []PaidIsCollected
  <1>1. PaymentInv => PaidIsCollected
    BY DEF PaymentInv, PaidIsBacked, Collected, PaidIsCollected
  <1> QED
    BY <1>1, Inductive, PTL

\* A completed payment whose handler did not fail has settled its group, although the
\* group is read and updated in different awaits: an order of it that is unpaid was seen
\* cancelled by the listener (and may have been reopened since) or set to unpaid by a
\* person.
THEOREM CompletedSettled == PaymentSpec => []CompletedIsSettled
  <1>1. PaymentInv => CompletedIsSettled
    BY DEF PaymentInv
  <1> QED
    BY <1>1, Inductive, PTL

=============================================================================
