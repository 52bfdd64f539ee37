---------------------------- MODULE LedgersProofs ----------------------------
(***************************************************************************)
(* The balances the shop keeps, for any number of orders, handlers and     *)
(* limits.  Coupons: the count of a coupon's uses against the usage rows.  *)
(* SellerFinance: the type invariant, that it implements the abstract      *)
(* WalletLedger, that debts, reversals and holds are backed by the rows    *)
(* they claim, and that every balance is the sum of its entries.  Coins:   *)
(* no Xu is spent twice, a closed batch is empty, every batch is booked.   *)
(***************************************************************************)
EXTENDS Coupons, SellerFinance, Coins, Sums, SequenceTheorems

(* Coupons: what holds of rows and jobs. *)

\* Rows only of checkouts that are placed; a checkout that is not has one job at most.
Placing ==
  /\ \A o \in SubOrders : usage[o] # "none" => Group[o] \in placed
  /\ \A r \in Tasks : task[r].op \in {"count", "commit"} =>
       /\ task[r].group \notin placed
       /\ \A s \in Tasks :
            task[s].op \in {"count", "commit"} /\ task[s].group = task[r].group => s = r

\* A shop's coupon discounts one sub-order of a checkout.
OneRow ==
  kind = "shop" =>
    \A o, u \in SubOrders : usage[o] # "none" /\ usage[u] # "none" /\ Group[o] = Group[u] => o = u

\* Once an order has to lose its discount it may: it keeps doing so, or is in reopened.
Gone(o) == Forfeits(o, cancelled) \/ o \in reopened

Touched(g) == \E o \in Members(g) : usage[o] = "reversed"

\* What a reversal has found: rows of one checkout that is to lose its discount, one for a
\* shop's coupon, and the checkout is touched once one of them was flipped.
Reversing ==
  \A r \in Tasks :
    /\ task[r].op = "findOrder" /\ kind = "shop" => Gone(task[r].order)
    /\ task[r].op \in {"all", "findGroup"} => kind = "platform"
    /\ task[r].op = "findGroup" => \A o \in Members(task[r].group) : Gone(o)
    /\ task[r].op = "flip" =>
         /\ \A o \in task[r].todo : usage[o] # "none" /\ Gone(o)
         /\ \A o, u \in task[r].todo : Group[o] = Group[u] /\ (kind = "shop" => o = u)
         /\ task[r].flipped => /\ \A o \in task[r].todo : Touched(Group[o])
                               /\ kind = "shop" => task[r].todo = {}

TInv == CouponTypeOK /\ Placing /\ OneRow /\ Reversing /\ ReversedIsCancelled

Untouched == {g \in Live : ~Touched(g)}

Flipping == {r \in Tasks : task[r].op = "flip" /\ task[r].flipped}

\* What current_uses counts beyond the checkouts no reversal has touched is owed.
NotMore == currentUses <= Cardinality(Untouched) + Cardinality(Flipping) + lost

\* A shop's coupon counts every checkout it discounts, and what is owed.
NotLess == kind = "shop" => Cardinality(Live) + Cardinality(Flipping) + lost <= currentUses

WithinWidest ==
  /\ widest = Unlimited \/ currentUses <= widest
  /\ widest = Unlimited \/ (maxUses # Unlimited /\ maxUses <= widest)

CInv == NotMore /\ NotLess /\ WithinWidest

-----------------------------------------------------------------------------
(* Jobs. *)

LEMMA JobFacts ==
  ASSUME NEW job \in CouponJob
  PROVE  /\ job.op = "idle" <=> job = NoJob
         /\ job.op \in {"count", "commit", "all", "findGroup"} => job.group \in Groups
         /\ job.op \in {"cancel", "findOrder"} => job.order \in SubOrders
         /\ job.op = "flip" => job.todo \in SUBSET SubOrders /\ job.flipped \in BOOLEAN
  BY DEF CouponJob, NoJob

LEMMA Jobs ==
  /\ NoJob \in CouponJob /\ NoJob.op = "idle"
  /\ \A g \in Groups, op \in {"count", "commit", "all", "findGroup"} :
       [op |-> op, group |-> g] \in CouponJob
  /\ \A o \in SubOrders, op \in {"cancel", "findOrder"} : [op |-> op, order |-> o] \in CouponJob
  /\ \A todo \in SUBSET SubOrders, flipped \in BOOLEAN :
       [op |-> "flip", todo |-> todo, flipped |-> flipped] \in CouponJob
  BY DEF CouponJob, NoJob

LEMMA JobMoves ==
  ASSUME CouponTypeOK, NEW r \in Tasks, NEW job \in CouponJob, Goto(r, job)
  PROVE  /\ task' \in [Tasks -> CouponJob]
         /\ task'[r] = job
         /\ \A s \in Tasks \ {r} : task'[s] = task[s]
  BY DEF CouponTypeOK, Goto

-----------------------------------------------------------------------------
(* Types, and that only cancelled orders lose their discount. *)

LEMMA TypeInit == ASSUME CouponInit PROVE TInv
  <1>1. CouponTypeOK
    BY CouponAssumption, Jobs DEF CouponInit, CouponTypeOK, UsageStatus, Unlimited
  <1>2. \A r \in Tasks : task[r].op = "idle"
    BY Jobs DEF CouponInit
  <1>3. Placing /\ OneRow /\ Reversing /\ ReversedIsCancelled
    BY <1>2 DEF CouponInit, Placing, OneRow, Reversing, ReversedIsCancelled, Gone, Forfeits
  <1> QED
    BY <1>1, <1>3 DEF TInv

\* A job that moves on by itself: what it must know of its rows.
LEMMA TypeJobMoves ==
  ASSUME TInv, NEW r \in Tasks, NEW job \in CouponJob, Goto(r, job),
         UNCHANGED <<kind, maxUses, currentUses, usage, placed, cancelled, widest, reopened, overwrites>>,
         lost' \in Nat,
         job.op \in {"count", "commit"} =>
           /\ job.group \notin placed
           /\ \A s \in Tasks \ {r} :
                ~(task[s].op \in {"count", "commit"} /\ task[s].group = job.group),
         /\ job.op = "findOrder" /\ kind = "shop" => Gone(job.order)
         /\ job.op \in {"all", "findGroup"} => kind = "platform"
         /\ job.op = "findGroup" => \A o \in Members(job.group) : Gone(o)
         /\ job.op = "flip" =>
              /\ \A o \in job.todo : usage[o] # "none" /\ Gone(o)
              /\ \A o, u \in job.todo : Group[o] = Group[u] /\ (kind = "shop" => o = u)
              /\ ~job.flipped
  PROVE  TInv'
  <1>1. task' \in [Tasks -> CouponJob] /\ task'[r] = job /\ \A s \in Tasks \ {r} : task'[s] = task[s]
    BY JobMoves DEF TInv
  <1>2. CouponTypeOK'
    BY <1>1 DEF TInv, CouponTypeOK
  <1>3. Placing'
    BY <1>1 DEF TInv, Placing
  <1>4. OneRow' /\ ReversedIsCancelled'
    BY DEF TInv, OneRow, ReversedIsCancelled, Gone, Forfeits
  <1>5. Reversing'
    <2>1. \A s \in Tasks \ {r} :
            /\ task[s].op = "findOrder" /\ kind = "shop" => Gone(task[s].order)
            /\ task[s].op \in {"all", "findGroup"} => kind = "platform"
            /\ task[s].op = "findGroup" => \A o \in Members(task[s].group) : Gone(o)
            /\ task[s].op = "flip" =>
                 /\ \A o \in task[s].todo : usage[o] # "none" /\ Gone(o)
                 /\ \A o, u \in task[s].todo : Group[o] = Group[u] /\ (kind = "shop" => o = u)
                 /\ task[s].flipped => /\ \A o \in task[s].todo : Touched(Group[o])
                                       /\ kind = "shop" => task[s].todo = {}
      BY DEF TInv, Reversing
    <2>2. /\ \A o : Gone(o)' <=> Gone(o)
          /\ \A g : Touched(g)' <=> Touched(g)
      BY DEF Gone, Touched, Forfeits
    <2>3. QED
      BY <1>1, <2>1, <2>2 DEF Reversing
  <1> QED
    BY <1>2, <1>3, <1>4, <1>5 DEF TInv

LEMMA TypeRead ==
  ASSUME TInv, NEW r \in Tasks, NEW g \in Groups, ReadCoupon(r, g)
  PROVE  TInv'
  <1>1. PICK job \in CouponJob : job = [op |-> "count", group |-> g]
    BY Jobs
  <1>2. Goto(r, job) /\ job.op = "count" /\ job.group = g
    BY <1>1 DEF ReadCoupon
  <1>3. /\ UNCHANGED <<kind, maxUses, currentUses, usage, placed, cancelled, widest, reopened, overwrites>>
        /\ lost' \in Nat /\ g \notin placed
        /\ \A s \in Tasks : task[s].op \in {"count", "commit"} => task[s].group # g
    BY DEF ReadCoupon, TInv, CouponTypeOK
  <1> HIDE DEF Goto
  <1> QED
    BY <1>2, <1>3, TypeJobMoves

LEMMA TypeIdle ==
  ASSUME TInv, NEW r \in Tasks, Goto(r, NoJob),
         UNCHANGED <<kind, maxUses, currentUses, usage, placed, cancelled, widest, reopened, overwrites>>,
         lost' \in Nat
  PROVE  TInv'
  BY Jobs, TypeJobMoves

LEMMA TypeCount ==
  ASSUME TInv, NEW r \in Tasks, CountUses(r)
  PROVE  TInv'
  <1>1. /\ UNCHANGED <<kind, maxUses, currentUses, usage, placed, cancelled, widest, reopened, overwrites>>
        /\ lost' \in Nat /\ task[r] \in CouponJob /\ task[r].op = "count" /\ task[r].group \in Groups
    BY JobFacts DEF CountUses, TInv, CouponTypeOK
  <1>2. PICK g \in Groups : g = task[r].group
    BY <1>1
  <1>3. PICK job \in CouponJob : job = [op |-> "commit", group |-> g]
    BY Jobs
  <1>4. job.op = "commit" /\ job.group = g
    BY <1>3
  <1>5. Goto(r, NoJob) \/ Goto(r, job)
    BY <1>2, <1>3 DEF CountUses
  <1>6. /\ g \notin placed
        /\ \A s \in Tasks \ {r} : ~(task[s].op \in {"count", "commit"} /\ task[s].group = g)
    BY <1>1, <1>2 DEF TInv, Placing
  <1> QED
    BY <1>1, <1>4, <1>5, <1>6, TypeIdle, TypeJobMoves

LEMMA TypeCommit ==
  ASSUME TInv, NEW r \in Tasks, Commit(r)
  PROVE  TInv'
  <1>1. task[r] \in CouponJob /\ task[r].op = "commit" /\ task[r].group \in Groups
    BY JobFacts DEF Commit, TInv, CouponTypeOK
  <1>2. PICK g \in Groups : g = task[r].group
    BY <1>1
  <1>3. Goto(r, NoJob) /\ UNCHANGED <<kind, maxUses, cancelled, widest, lost, reopened, overwrites>>
    BY DEF Commit
  <1>4. CASE Exhausted
    <2>1. UNCHANGED <<kind, maxUses, currentUses, usage, placed, cancelled, widest, reopened, overwrites>> /\ lost' \in Nat
      BY <1>3, <1>4 DEF Commit, TInv, CouponTypeOK
    <2>2. QED
      BY <1>3, <2>1, TypeIdle
  <1>5. CASE ~Exhausted
    <2>1. PICK os \in SUBSET Members(g) :
            /\ kind = "shop" => Cardinality(os) = 1
            /\ usage' = [o \in SubOrders |-> IF o \in os THEN "applied" ELSE usage[o]]
      BY <1>2, <1>5 DEF Commit
    <2>2. currentUses' = currentUses + 1 /\ placed' = placed \cup {g}
      BY <1>2, <1>5 DEF Commit
    <2>3. /\ task' \in [Tasks -> CouponJob] /\ task'[r] = NoJob
          /\ \A s \in Tasks \ {r} : task'[s] = task[s]
      BY <1>3, Jobs, JobMoves DEF TInv
    <2>4. CouponTypeOK'
      BY <1>3, <2>1, <2>2, <2>3 DEF TInv, CouponTypeOK, UsageStatus
    <2>5. /\ g \notin placed
          /\ \A s \in Tasks \ {r} : task[s].op \in {"count", "commit"} => task[s].group # g
      BY <1>1, <1>2 DEF TInv, Placing
    <2>6. \A o \in Members(g) : o \in SubOrders /\ Group[o] = g /\ usage[o] = "none"
      BY <2>5 DEF Members, TInv, CouponTypeOK, UsageStatus, Placing
    <2>7. \A o \in SubOrders : usage'[o] = IF o \in os THEN "applied" ELSE usage[o]
      BY <2>1
    <2>8. Placing'
      BY <2>2, <2>3, <2>5, <2>6, <2>7, Jobs DEF TInv, Placing
    <2>9. OneRow'
      <3> SUFFICES ASSUME kind = "shop", NEW o \in SubOrders, NEW u \in SubOrders,
                          usage'[o] # "none", usage'[u] # "none", Group[o] = Group[u]
                   PROVE  o = u
        BY <1>3 DEF OneRow
      <3>1. SubOrders \in SUBSET SubOrders /\ os \in SUBSET SubOrders
        BY DEF Members
      <3>2. IsFiniteSet(os)
        BY <3>1, CouponAssumption, FS_Subset
      <3>3. PICK x : os = {x}
        BY <2>1, <3>2, FS_Singleton
      <3>4. CASE o \in os \/ u \in os
        BY <2>6, <2>7, <3>3, <3>4 DEF Members
      <3>5. CASE o \notin os /\ u \notin os
        BY <2>7, <3>5 DEF TInv, OneRow
      <3>6. QED
        BY <3>4, <3>5
    <2>10. ReversedIsCancelled'
      BY <1>3, <2>7 DEF TInv, ReversedIsCancelled, Gone, Forfeits
    <2>11. \A o \in SubOrders : usage[o] # "none" => usage'[o] = usage[o]
      BY <2>6, <2>7
    <2>12. Reversing'
      <3>1. \A o : Gone(o)' <=> Gone(o)
        BY <1>3 DEF Gone, Forfeits
      <3>2. \A x : Touched(x) => Touched(x)'
        BY <2>11 DEF Touched, Members
      <3>3. \A s \in Tasks : task'[s].op = "flip" => task'[s] = task[s] /\ task[s].todo \subseteq SubOrders
        BY <2>3, Jobs, JobFacts DEF TInv, CouponTypeOK
      <3>4. \A s \in Tasks : task'[s] = task[s] \/ task'[s].op = "idle"
        BY <2>3, Jobs
      <3>5. ASSUME NEW s \in Tasks, task'[s] = task[s]
            PROVE  /\ task'[s].op = "findOrder" /\ kind' = "shop" => Gone(task[s].order)'
                   /\ task'[s].op \in {"all", "findGroup"} => kind' = "platform"
                   /\ task'[s].op = "findGroup" => \A o \in Members(task'[s].group) : Gone(o)'
        BY <1>3, <3>1, <3>5 DEF TInv, Reversing
      <3>6. ASSUME NEW s \in Tasks, task'[s].op = "flip"
            PROVE  /\ \A o \in task'[s].todo : usage'[o] # "none" /\ Gone(o)'
                   /\ \A o, u \in task'[s].todo : Group[o] = Group[u] /\ (kind' = "shop" => o = u)
                   /\ task'[s].flipped => /\ \A o \in task'[s].todo : Touched(Group[o])'
                                          /\ kind' = "shop" => task'[s].todo = {}
        <4>1. task'[s] = task[s] /\ task[s].todo \subseteq SubOrders
          BY <3>3, <3>6
        <4>2. /\ \A o \in task[s].todo : usage[o] # "none" /\ Gone(o)
              /\ \A o, u \in task[s].todo : Group[o] = Group[u] /\ (kind = "shop" => o = u)
              /\ task[s].flipped => /\ \A o \in task[s].todo : Touched(Group[o])
                                    /\ kind = "shop" => task[s].todo = {}
          BY <3>6, <4>1 DEF TInv, Reversing
        <4>3. QED
          BY <1>3, <2>11, <3>1, <3>2, <4>1, <4>2
      <3>7. QED
        BY <3>4, <3>5, <3>6 DEF Reversing
    <2>13. QED
      BY <2>4, <2>8, <2>9, <2>10, <2>12 DEF TInv
  <1> QED
    BY <1>4, <1>5

LEMMA TypeBeginCancel ==
  ASSUME TInv, NEW r \in Tasks, NEW o \in SubOrders, BeginCancel(r, o)
  PROVE  TInv'
  <1>1. PICK job \in CouponJob : job = [op |-> "cancel", order |-> o]
    BY Jobs
  <1>2. Goto(r, job) /\ job.op = "cancel"
    BY <1>1 DEF BeginCancel
  <1>3. /\ UNCHANGED <<kind, maxUses, currentUses, usage, placed, cancelled, widest, reopened, overwrites>>
        /\ lost' \in Nat
    BY DEF BeginCancel, TInv, CouponTypeOK
  <1> QED
    BY <1>2, <1>3, TypeJobMoves

LEMMA TypeCancelOrder ==
  ASSUME TInv, NEW r \in Tasks, CancelOrder(r)
  PROVE  TInv'
  <1>1. task[r] \in CouponJob /\ task[r].order \in SubOrders
    BY JobFacts DEF CancelOrder, TInv, CouponTypeOK
  <1>2. PICK o \in SubOrders : o = task[r].order
    BY <1>1
  <1>3. PICK job \in CouponJob : job = [op |-> "findOrder", order |-> o]
    BY Jobs
  <1>4. job.op = "findOrder" /\ job.order = o
    BY <1>3
  <1>5. /\ Goto(r, job) /\ cancelled' = cancelled \cup {o}
        /\ UNCHANGED <<kind, maxUses, currentUses, usage, placed, widest, lost, reopened, overwrites>>
    BY <1>2, <1>3 DEF CancelOrder
  <1>6. task' \in [Tasks -> CouponJob] /\ task'[r] = job /\ \A s \in Tasks \ {r} : task'[s] = task[s]
    BY <1>5, JobMoves DEF TInv
  <1>7. CouponTypeOK'
    BY <1>5, <1>6 DEF TInv, CouponTypeOK
  <1>8. Placing' /\ OneRow'
    BY <1>4, <1>5, <1>6 DEF TInv, Placing, OneRow
  <1>9. ReversedIsCancelled'
    BY <1>5 DEF TInv, ReversedIsCancelled, Gone, Forfeits
  <1>10. Reversing'
    <2>1. /\ \A x : Gone(x) => Gone(x)'
          /\ \A g : Touched(g)' <=> Touched(g)
      BY <1>5 DEF Gone, Touched, Forfeits
    <2>2. ASSUME NEW s \in Tasks, s # r
          PROVE  /\ task[s].op = "findOrder" /\ kind = "shop" => Gone(task[s].order)
                 /\ task[s].op \in {"all", "findGroup"} => kind = "platform"
                 /\ task[s].op = "findGroup" => \A x \in Members(task[s].group) : Gone(x)
                 /\ task[s].op = "flip" =>
                      /\ \A x \in task[s].todo : usage[x] # "none" /\ Gone(x)
                      /\ \A x, u \in task[s].todo : Group[x] = Group[u] /\ (kind = "shop" => x = u)
                      /\ task[s].flipped => /\ \A x \in task[s].todo : Touched(Group[x])
                                            /\ kind = "shop" => task[s].todo = {}
      BY DEF TInv, Reversing
    <2>3. QED
      <3>1. kind = "shop" => Gone(o)'
        BY <1>5 DEF Gone, Forfeits
      <3> QED
        BY <1>4, <1>5, <1>6, <2>1, <2>2, <3>1 DEF Reversing
  <1> QED
    BY <1>7, <1>8, <1>9, <1>10 DEF TInv

LEMMA TypeFindOrder ==
  ASSUME TInv, NEW r \in Tasks, FindOrderUsages(r)
  PROVE  TInv'
  <1>1. task[r] \in CouponJob /\ task[r].op = "findOrder" /\ task[r].order \in SubOrders
    BY JobFacts DEF FindOrderUsages, TInv, CouponTypeOK
  <1>2. PICK o \in SubOrders : o = task[r].order
    BY <1>1
  <1>3. Group[o] \in Groups /\ {o} \in SUBSET SubOrders /\ FALSE \in BOOLEAN
    BY DEF Groups
  <1>4. PICK ask \in CouponJob : ask = [op |-> "all", group |-> Group[o]]
    BY <1>3, Jobs
  <1>5. PICK flip \in CouponJob : flip = [op |-> "flip", todo |-> {o}, flipped |-> FALSE]
    BY <1>3, Jobs
  <1>6. /\ ask.op = "all"
        /\ flip.op = "flip" /\ flip.todo = {o} /\ ~flip.flipped
    BY <1>4, <1>5
  <1>7. \/ kind = "platform" /\ Goto(r, ask)
        \/ Goto(r, NoJob)
        \/ kind = "shop" /\ Applied({o}) # {} /\ Goto(r, flip)
    <2>1. kind \in {"shop", "platform"}
      BY CouponAssumption DEF TInv, CouponTypeOK
    <2>2. QED
      BY <1>2, <1>4, <1>5, <2>1 DEF FindOrderUsages
  <1>8. /\ UNCHANGED <<kind, maxUses, currentUses, usage, placed, cancelled, widest, reopened, overwrites>>
        /\ lost' \in Nat
    BY DEF FindOrderUsages, TInv, CouponTypeOK
  <1>9. CASE kind = "platform" /\ Goto(r, ask)
    BY <1>6, <1>8, <1>9, TypeJobMoves
  <1>10. CASE Goto(r, NoJob)
    BY <1>8, <1>10, TypeIdle
  <1>11. CASE kind = "shop" /\ Applied({o}) # {} /\ Goto(r, flip)
    <2>1. usage[o] # "none"
      BY <1>11 DEF Applied
    <2>2. Gone(o)
      BY <1>1, <1>2, <1>11 DEF TInv, Reversing, Gone, Forfeits
    <2>3. QED
      BY <1>6, <1>8, <1>11, <2>1, <2>2, TypeJobMoves
  <1> QED
    BY <1>7, <1>9, <1>10, <1>11

LEMMA TypeAsk ==
  ASSUME TInv, NEW r \in Tasks, AskAllCancelled(r)
  PROVE  TInv'
  <1>1. task[r] \in CouponJob /\ task[r].op = "all" /\ task[r].group \in Groups /\ kind = "platform"
    BY JobFacts DEF AskAllCancelled, TInv, CouponTypeOK, Reversing
  <1>2. PICK g \in Groups : g = task[r].group
    BY <1>1
  <1>3. PICK job \in CouponJob : job = [op |-> "findGroup", group |-> g]
    BY Jobs
  <1>4. job.op = "findGroup" /\ job.group = g
    BY <1>3
  <1>5. Goto(r, NoJob) \/ (Goto(r, job) /\ \A o \in Members(g) : Gone(o))
    BY <1>1, <1>2, <1>3 DEF AskAllCancelled, Gone, Forfeits, Members
  <1>6. /\ UNCHANGED <<kind, maxUses, currentUses, usage, placed, cancelled, widest, reopened, overwrites>>
        /\ lost' \in Nat
    BY DEF AskAllCancelled, TInv, CouponTypeOK
  <1> QED
    BY <1>1, <1>4, <1>5, <1>6, TypeIdle, TypeJobMoves

LEMMA TypeFindGroup ==
  ASSUME TInv, NEW r \in Tasks, FindGroupUsages(r)
  PROVE  TInv'
  <1>1. task[r] \in CouponJob /\ task[r].op = "findGroup" /\ task[r].group \in Groups /\ kind = "platform"
        /\ \A o \in Members(task[r].group) : Gone(o)
    BY JobFacts DEF FindGroupUsages, TInv, CouponTypeOK, Reversing
  <1>2. PICK g \in Groups : g = task[r].group
    BY <1>1
  <1>3. PICK found \in SUBSET SubOrders : found = Applied(Members(g))
    BY DEF Applied, Members
  <1>4. PICK job \in CouponJob : job = [op |-> "flip", todo |-> found, flipped |-> FALSE]
    BY Jobs
  <1>5. job.op = "flip" /\ job.todo = found /\ ~job.flipped
    BY <1>4
  <1>6. Goto(r, NoJob) \/ Goto(r, job)
    BY <1>2, <1>3, <1>4 DEF FindGroupUsages
  <1>7. /\ UNCHANGED <<kind, maxUses, currentUses, usage, placed, cancelled, widest, reopened, overwrites>>
        /\ lost' \in Nat
    BY DEF FindGroupUsages, TInv, CouponTypeOK
  <1>8. \A o \in found : usage[o] # "none" /\ Group[o] = g /\ Gone(o)
    BY <1>1, <1>2, <1>3 DEF Applied, Members, Gone, Forfeits
  <1> QED
    BY <1>1, <1>5, <1>6, <1>7, <1>8, TypeIdle, TypeJobMoves

\* The row a reversal flips.
LEMMA FlipDoes ==
  ASSUME TInv, NEW r \in Tasks, ReverseIfApplied(r)
  PROVE  \E o \in task[r].todo :
           /\ task[r].op = "flip" /\ task[r].todo \in SUBSET SubOrders /\ task[r].flipped \in BOOLEAN
           /\ usage' = [usage EXCEPT ![o] = "reversed"]
           /\ task' \in [Tasks -> CouponJob]
           /\ task'[r].op = "flip" /\ task'[r].todo = task[r].todo \ {o}
           /\ task'[r].flipped = (task[r].flipped \/ usage[o] = "applied")
           /\ \A s \in Tasks \ {r} : task'[s] = task[s]
  <1>1. task[r].op = "flip" /\ task[r].todo \in SUBSET SubOrders /\ task[r].flipped \in BOOLEAN
    BY JobFacts DEF ReverseIfApplied, TInv, CouponTypeOK
  <1>2. PICK o \in task[r].todo :
          /\ usage' = [usage EXCEPT ![o] = "reversed"]
          /\ Goto(r, [op |-> "flip", todo |-> task[r].todo \ {o},
                      flipped |-> task[r].flipped \/ usage[o] = "applied"])
    BY DEF ReverseIfApplied
  <1>3. /\ task[r].todo \ {o} \in SUBSET SubOrders
        /\ (task[r].flipped \/ usage[o] = "applied") \in BOOLEAN
    BY <1>1
  <1> DEFINE job == [op |-> "flip", todo |-> task[r].todo \ {o},
                     flipped |-> task[r].flipped \/ usage[o] = "applied"]
  <1>4. /\ job \in CouponJob
        /\ job.op = "flip" /\ job.todo = task[r].todo \ {o}
        /\ job.flipped = (task[r].flipped \/ usage[o] = "applied")
    BY <1>3, Jobs
  <1>5. Goto(r, job)
    BY <1>2
  <1> HIDE DEF job
  <1>6. /\ task' \in [Tasks -> CouponJob] /\ task'[r] = job
        /\ \A s \in Tasks \ {r} : task'[s] = task[s]
    BY <1>4, <1>5, JobMoves DEF TInv
  <1> QED
    BY <1>1, <1>2, <1>4, <1>6

LEMMA TypeFlip ==
  ASSUME TInv, NEW r \in Tasks, ReverseIfApplied(r)
  PROVE  TInv'
  <1>1. PICK o \in task[r].todo :
          /\ task[r].op = "flip" /\ task[r].todo \in SUBSET SubOrders /\ task[r].flipped \in BOOLEAN
          /\ usage' = [usage EXCEPT ![o] = "reversed"]
          /\ task' \in [Tasks -> CouponJob]
          /\ task'[r].op = "flip" /\ task'[r].todo = task[r].todo \ {o}
          /\ task'[r].flipped = (task[r].flipped \/ usage[o] = "applied")
          /\ \A s \in Tasks \ {r} : task'[s] = task[s]
    BY FlipDoes
  <1>2. UNCHANGED <<kind, maxUses, currentUses, placed, cancelled, widest, lost, reopened, overwrites>>
    BY DEF ReverseIfApplied
  <1>3. o \in SubOrders
    BY <1>1
  <1>4. /\ \A u \in task[r].todo : usage[u] # "none" /\ Gone(u)
        /\ \A u, x \in task[r].todo : Group[u] = Group[x] /\ (kind = "shop" => u = x)
    BY <1>1 DEF TInv, Reversing
  <1>5. \A u \in SubOrders : /\ usage'[u] = IF u = o THEN "reversed" ELSE usage[u]
                             /\ usage'[u] = "none" <=> usage[u] = "none"
    BY <1>1, <1>3, <1>4 DEF TInv, CouponTypeOK
  <1>6. CouponTypeOK'
    BY <1>1, <1>2 DEF TInv, CouponTypeOK, UsageStatus
  <1>7. Placing'
    BY <1>1, <1>2, <1>5 DEF TInv, Placing
  <1>8. OneRow'
    BY <1>2, <1>5 DEF TInv, OneRow
  <1>9. \A u : Gone(u)' <=> Gone(u)
    BY <1>2 DEF Gone, Forfeits
  <1>10. ReversedIsCancelled'
    BY <1>2, <1>4, <1>5 DEF TInv, ReversedIsCancelled, Gone, Forfeits
  <1>11. /\ \A g : Touched(g) => Touched(g)'
         /\ Touched(Group[o])'
    BY <1>3, <1>5 DEF Touched, Members
  <1>12. \A s \in Tasks \ {r} : task[s].op = "flip" => task[s].todo \in SUBSET SubOrders
    BY JobFacts DEF TInv, CouponTypeOK
  <1>13. Reversing'
    <2>1. ASSUME NEW s \in Tasks, s # r
          PROVE  /\ task[s].op = "findOrder" /\ kind = "shop" => Gone(task[s].order)
                 /\ task[s].op \in {"all", "findGroup"} => kind = "platform"
                 /\ task[s].op = "findGroup" => \A x \in Members(task[s].group) : Gone(x)
                 /\ task[s].op = "flip" =>
                      /\ \A x \in task[s].todo : usage'[x] # "none" /\ Gone(x)'
                      /\ \A x, u \in task[s].todo : Group[x] = Group[u] /\ (kind = "shop" => x = u)
                      /\ task[s].flipped => /\ \A x \in task[s].todo : Touched(Group[x])'
                                            /\ kind = "shop" => task[s].todo = {}
      <3>1. /\ task[s].op = "findOrder" /\ kind = "shop" => Gone(task[s].order)
            /\ task[s].op \in {"all", "findGroup"} => kind = "platform"
            /\ task[s].op = "findGroup" => \A x \in Members(task[s].group) : Gone(x)
            /\ task[s].op = "flip" =>
                 /\ \A x \in task[s].todo : usage[x] # "none" /\ Gone(x)
                 /\ \A x, u \in task[s].todo : Group[x] = Group[u] /\ (kind = "shop" => x = u)
                 /\ task[s].flipped => /\ \A x \in task[s].todo : Touched(Group[x])
                                       /\ kind = "shop" => task[s].todo = {}
        BY DEF TInv, Reversing
      <3>2. QED
        BY <1>5, <1>9, <1>11, <1>12, <2>1, <3>1
    <2>2. /\ \A x \in task'[r].todo : usage'[x] # "none" /\ Gone(x)'
          /\ \A x, u \in task'[r].todo : Group[x] = Group[u] /\ (kind = "shop" => x = u)
          /\ \A x \in task'[r].todo : Touched(Group[x])'
          /\ kind = "shop" => task'[r].todo = {}
      BY <1>1, <1>4, <1>5, <1>9, <1>11
    <2>3. QED
      BY <1>1, <1>2, <1>9, <2>1, <2>2 DEF Reversing
  <1> QED
    BY <1>6, <1>7, <1>8, <1>10, <1>13 DEF TInv

LEMMA TypeDecrement ==
  ASSUME TInv, NEW r \in Tasks, DecrementUsage(r)
  PROVE  TInv'
  <1>1. /\ Goto(r, NoJob) /\ UNCHANGED <<kind, maxUses, usage, placed, cancelled, widest, lost, reopened, overwrites>>
        /\ currentUses' \in Nat
    BY DEF DecrementUsage, TInv, CouponTypeOK
  <1>2. /\ task' \in [Tasks -> CouponJob] /\ task'[r] = NoJob
        /\ \A s \in Tasks \ {r} : task'[s] = task[s]
    BY <1>1, Jobs, JobMoves DEF TInv
  <1>3. CouponTypeOK'
    BY <1>1, <1>2 DEF TInv, CouponTypeOK
  <1>4. Placing' /\ OneRow' /\ ReversedIsCancelled'
    BY <1>1, <1>2, Jobs DEF TInv, Placing, OneRow, ReversedIsCancelled, Gone, Forfeits
  <1>5. Reversing'
    <2>1. /\ \A x : Gone(x)' <=> Gone(x)
          /\ \A g : Touched(g)' <=> Touched(g)
      BY <1>1 DEF Gone, Touched, Forfeits
    <2>2. QED
      BY <1>1, <1>2, <2>1, Jobs DEF TInv, Reversing
  <1> QED
    BY <1>3, <1>4, <1>5 DEF TInv

LEMMA TypeFail ==
  ASSUME TInv, NEW r \in Tasks, CouponFail(r)
  PROVE  TInv'
  BY TypeIdle DEF CouponFail, TInv, CouponTypeOK

LEMMA TypeUpdate ==
  ASSUME TInv, NEW n \in Limits, UpdateCoupon(n)
  PROVE  TInv'
  <1>1. UNCHANGED <<kind, currentUses, usage, placed, cancelled, task, lost, reopened, overwrites>>
    BY DEF UpdateCoupon
  <1>2. CouponTypeOK'
    BY CouponAssumption DEF UpdateCoupon, TInv, CouponTypeOK, Wider, Unlimited
  <1>3. Placing' /\ OneRow' /\ ReversedIsCancelled'
    BY <1>1 DEF TInv, Placing, OneRow, ReversedIsCancelled, Gone, Forfeits
  <1>4. Reversing'
    BY <1>1 DEF TInv, Reversing, Gone, Touched, Forfeits
  <1> QED
    BY <1>2, <1>3, <1>4 DEF TInv

LEMMA TypeOverwrite ==
  ASSUME TInv, NEW o \in SubOrders, OverwriteCancellation(o)
  PROVE  TInv'
  <1>1. /\ UNCHANGED <<kind, maxUses, currentUses, usage, placed, task, widest, lost>>
        /\ cancelled' = cancelled \ {o}
        /\ reopened' = reopened \cup {p \in SubOrders :
                           Forfeits(p, cancelled) /\ ~Forfeits(p, cancelled \ {o})}
    BY DEF OverwriteCancellation
  <1>2. CouponTypeOK'
    BY <1>1, CouponAssumption DEF OverwriteCancellation, TInv, CouponTypeOK
  <1>3. Placing' /\ OneRow'
    BY <1>1 DEF TInv, Placing, OneRow
  <1>4. \A p \in SubOrders : Gone(p) => Gone(p)'
    BY <1>1 DEF Gone, Forfeits
  <1>5. ReversedIsCancelled'
    BY <1>1, <1>4 DEF TInv, ReversedIsCancelled, Gone, Forfeits
  <1>6. Reversing'
    <2>1. \A r \in Tasks : /\ task[r].op = "findOrder" => task[r].order \in SubOrders
                           /\ task[r].op = "flip" => task[r].todo \subseteq SubOrders
      BY JobFacts DEF TInv, CouponTypeOK
    <2>2. \A g : Touched(g)' <=> Touched(g)
      BY <1>1 DEF Touched
    <2>3. \A g : Members(g) \subseteq SubOrders
      BY DEF Members
    <2> QED
      BY <1>1, <1>4, <2>1, <2>2, <2>3 DEF TInv, Reversing
  <1> QED
    BY <1>2, <1>3, <1>5, <1>6 DEF TInv

LEMMA TypeStep ==
  ASSUME TInv, [CouponNext]_couponVars
  PROVE  TInv'
  <1>1. ASSUME NEW r \in Tasks, Checkout(r) \/ Cancellation(r) \/ CouponFail(r)
        PROVE  TInv'
    BY <1>1, TypeRead, TypeCount, TypeCommit, TypeBeginCancel, TypeCancelOrder, TypeFindOrder,
       TypeAsk, TypeFindGroup, TypeFlip, TypeDecrement, TypeFail DEF Checkout, Cancellation
  <1>2. CASE UNCHANGED couponVars
    BY <1>2 DEF couponVars, TInv, CouponTypeOK, Placing, OneRow, Reversing, ReversedIsCancelled, Gone, Touched, Forfeits
  <1> QED
    BY <1>1, <1>2, TypeUpdate, TypeOverwrite DEF CouponNext

\* Every row and counter keeps its type, and current_uses never falls below zero.
THEOREM CouponTypeCorrect == CouponSpec => []CouponTypeOK
  <1>1. TInv => CouponTypeOK
    BY DEF TInv
  <1> QED
    BY <1>1, TypeInit, TypeStep, PTL DEF CouponSpec

\* A use is reversed only when its order, or every order of its checkout, is cancelled,
\* or was until a stale status write reopened one.
THEOREM ReversedCancelled == CouponSpec => []ReversedIsCancelled
  <1>1. TInv => ReversedIsCancelled
    BY DEF TInv
  <1> QED
    BY <1>1, TypeInit, TypeStep, PTL DEF CouponSpec

-----------------------------------------------------------------------------
(* Counting. *)

LEMMA FiniteGroups == IsFiniteSet(Groups)
  <1> DEFINE f == [o \in SubOrders |-> Group[o]]
  <1>1. f \in Surjection(SubOrders, Groups)
    BY DEF Surjection, Groups
  <1> QED
    BY <1>1, CouponAssumption, FS_Surjection

LEMMA Sizes ==
  /\ Live \in SUBSET Groups /\ Untouched \in SUBSET Live /\ Flipping \in SUBSET Tasks
  /\ IsFiniteSet(Live) /\ IsFiniteSet(Untouched) /\ IsFiniteSet(Flipping)
  /\ Cardinality(Live) \in Nat /\ Cardinality(Untouched) \in Nat /\ Cardinality(Flipping) \in Nat
  /\ Cardinality(Untouched) <= Cardinality(Live)
  <1>1. Live \in SUBSET Groups /\ Untouched \in SUBSET Live /\ Flipping \in SUBSET Tasks
    BY DEF Live, Untouched, Flipping
  <1>2. IsFiniteSet(Live) /\ IsFiniteSet(Flipping)
    BY <1>1, FiniteGroups, CouponAssumption, FS_Subset
  <1>3. IsFiniteSet(Untouched) /\ Cardinality(Untouched) <= Cardinality(Live)
    BY <1>1, <1>2, FS_Subset
  <1> QED
    BY <1>1, <1>2, <1>3, FS_CardinalityType

LEMMA FlippingMoves ==
  ASSUME CouponTypeOK, NEW r \in Tasks, NEW job \in CouponJob, Goto(r, job)
  PROVE  Flipping' = IF job.op = "flip" /\ job.flipped THEN Flipping \cup {r} ELSE Flipping \ {r}
  BY JobMoves DEF Flipping

LEMMA SameRows ==
  ASSUME UNCHANGED usage
  PROVE  Live' = Live /\ Untouched' = Untouched
  BY DEF Live, Untouched, Applied, Touched

LEMMA CountInit == ASSUME CouponInit PROVE CInv
  <1>1. Flipping = {}
    BY Jobs DEF CouponInit, Flipping
  <1>2. \A o \in SubOrders : usage[o] = "none"
    BY DEF CouponInit
  <1>3. Live = {} /\ Untouched = {}
    BY <1>2 DEF Live, Untouched, Applied, Members
  <1>4. maxUses \in Nat \cup {Unlimited} /\ widest = maxUses /\ currentUses = 0 /\ lost = 0
    BY CouponAssumption DEF CouponInit
  <1> QED
    BY <1>1, <1>3, <1>4, FS_EmptySet DEF CInv, NotMore, NotLess, WithinWidest, Unlimited

\* A job that flips nothing and gives nothing back.
LEMMA CountQuiet ==
  ASSUME TInv, CInv, NEW r \in Tasks, NEW job \in CouponJob, Goto(r, job),
         job.op = "flip" => ~job.flipped, r \notin Flipping,
         UNCHANGED <<kind, maxUses, currentUses, usage, widest, lost, reopened, overwrites>>
  PROVE  CInv'
  <1>1. Flipping' = Flipping
    BY FlippingMoves DEF TInv
  <1>2. Live' = Live /\ Untouched' = Untouched
    BY SameRows
  <1> QED
    BY <1>1, <1>2 DEF CInv, NotMore, NotLess, WithinWidest

LEMMA CountCommit ==
  ASSUME TInv, CInv, NEW r \in Tasks, Commit(r)
  PROVE  CInv'
  <1>1. /\ task[r].op = "commit" /\ task[r].group \in Groups
        /\ Goto(r, NoJob) /\ UNCHANGED <<kind, maxUses, cancelled, widest, lost, reopened, overwrites>>
        /\ NoJob \in CouponJob /\ NoJob.op = "idle"
    BY Jobs, JobFacts DEF Commit, TInv, CouponTypeOK
  <1>2. r \notin Flipping
    BY <1>1 DEF Flipping
  <1>3. CASE Exhausted
    <2>1. UNCHANGED <<currentUses, usage>>
      BY <1>3 DEF Commit
    <2>2. QED
      BY <1>1, <1>2, <2>1, CountQuiet
  <1>4. CASE ~Exhausted
    <2>1. PICK g \in Groups : g = task[r].group
      BY <1>1
    <2>2. PICK os \in SUBSET Members(g) :
            /\ os # {}
            /\ usage' = [o \in SubOrders |-> IF o \in os THEN "applied" ELSE usage[o]]
      BY <1>4, <2>1 DEF Commit
    <2>3. currentUses' = currentUses + 1
      BY <1>4 DEF Commit
    <2>4. \A o \in Members(g) : o \in SubOrders /\ Group[o] = g /\ usage[o] = "none"
      BY <1>1, <2>1 DEF Members, TInv, CouponTypeOK, UsageStatus, Placing
    <2>5. \A o \in SubOrders : usage'[o] = IF o \in os THEN "applied" ELSE usage[o]
      BY <2>2
    <2>6. g \notin Live /\ g \notin Untouched
      BY <2>4 DEF Live, Untouched, Applied
    <2>7. \A o \in Members(g) : o \in SubOrders /\ usage'[o] # "reversed"
                               /\ (usage'[o] = "applied" <=> o \in os)
      BY <2>4, <2>5
    <2>8. Live' = Live \cup {g}
      <3>1. Applied(Members(g))' # {}
        BY <2>2, <2>7 DEF Applied
      <3>2. ASSUME NEW x \in Groups, x # g PROVE Applied(Members(x))' = Applied(Members(x))
        BY <2>2, <2>4, <2>5, <3>2 DEF Applied, Members
      <3>3. QED
        BY <3>1, <3>2 DEF Live
    <2>9. Untouched' = Untouched \cup {g}
      <3>1. ~Touched(g)'
        BY <2>7 DEF Touched
      <3>2. ASSUME NEW x \in Groups, x # g PROVE Touched(x)' <=> Touched(x)
        BY <2>2, <2>4, <2>5, <3>2 DEF Touched, Members
      <3>3. Live \subseteq Groups
        BY DEF Live
      <3>4. QED
        BY <2>8, <3>1, <3>2, <3>3 DEF Untouched
    <2>10. Flipping' = Flipping
      BY <1>1, <1>2, FlippingMoves DEF TInv
    <2>11. /\ Cardinality(Live') = Cardinality(Live) + 1
           /\ Cardinality(Untouched') = Cardinality(Untouched) + 1
      BY <2>6, <2>8, <2>9, Sizes, FS_AddElement
    <2>12. NotMore' /\ NotLess'
      <3>1. lost \in Nat /\ currentUses \in Nat
        BY DEF TInv, CouponTypeOK
      <3>2. QED
        BY <1>1, <2>3, <2>10, <2>11, <3>1, Sizes DEF CInv, NotMore, NotLess
    <2>13. WithinWidest'
      <3>1. /\ currentUses \in Nat /\ maxUses \in Nat \cup {Unlimited}
            /\ widest \in Nat \cup {Unlimited}
        BY DEF TInv, CouponTypeOK
      <3>2. QED
        BY <1>1, <1>4, <2>3, <3>1 DEF CInv, WithinWidest, Exhausted, Unlimited
    <2>14. QED
      BY <2>12, <2>13 DEF CInv
  <1> QED
    BY <1>3, <1>4

LEMMA CountFlip ==
  ASSUME TInv, CInv, NEW r \in Tasks, ReverseIfApplied(r)
  PROVE  CInv'
  <1>1. PICK o \in task[r].todo :
          /\ task[r].op = "flip" /\ task[r].todo \in SUBSET SubOrders /\ task[r].flipped \in BOOLEAN
          /\ usage' = [usage EXCEPT ![o] = "reversed"]
          /\ task' \in [Tasks -> CouponJob]
          /\ task'[r].op = "flip" /\ task'[r].todo = task[r].todo \ {o}
          /\ task'[r].flipped = (task[r].flipped \/ usage[o] = "applied")
          /\ \A s \in Tasks \ {r} : task'[s] = task[s]
    BY FlipDoes
  <1>2. UNCHANGED <<kind, maxUses, currentUses, placed, cancelled, widest, lost, reopened, overwrites>>
    BY DEF ReverseIfApplied
  <1>3. o \in SubOrders /\ usage \in [SubOrders -> UsageStatus] /\ Group[o] \in Groups
    BY <1>1 DEF TInv, CouponTypeOK, Groups
  <1>4. /\ usage[o] # "none"
        /\ task[r].flipped => Touched(Group[o]) /\ kind # "shop"
    BY <1>1 DEF TInv, Reversing
  <1>5. \A u \in SubOrders : usage'[u] = IF u = o THEN "reversed" ELSE usage[u]
    BY <1>1, <1>3
  <1>6. WithinWidest'
    BY <1>2 DEF CInv, WithinWidest
  <1>7. Untouched' = Untouched \ {Group[o]}
    <2>1. Touched(Group[o])'
      BY <1>3, <1>5 DEF Touched, Members
    <2>2. ASSUME NEW x \in Groups, x # Group[o]
          PROVE  /\ Touched(x)' <=> Touched(x)
                 /\ Applied(Members(x))' = Applied(Members(x))
      BY <1>5, <2>2 DEF Touched, Members, Applied
    <2>3. QED
      BY <2>1, <2>2 DEF Untouched, Live
  <1>8. lost \in Nat /\ currentUses \in Nat
    BY DEF TInv, CouponTypeOK
  <1>9. CASE usage[o] = "applied"
    <2>1. Flipping' = Flipping \cup {r}
      BY <1>1, <1>9 DEF Flipping
    <2>2. /\ Cardinality(Flipping') =
               IF r \in Flipping THEN Cardinality(Flipping) ELSE Cardinality(Flipping) + 1
          /\ Cardinality(Untouched') =
               IF Group[o] \in Untouched THEN Cardinality(Untouched) - 1 ELSE Cardinality(Untouched)
      BY <1>7, <2>1, Sizes, FS_AddElement, FS_RemoveElement
    <2>3. r \in Flipping => Group[o] \notin Untouched /\ kind # "shop"
      BY <1>4 DEF Flipping, Untouched
    <2>4. NotMore'
      BY <1>2, <1>8, <2>2, <2>3, Sizes DEF CInv, NotMore
    <2>5. NotLess'
      <3> SUFFICES ASSUME kind = "shop"
                   PROVE  Cardinality(Live') + Cardinality(Flipping') + lost <= currentUses
        BY <1>2 DEF NotLess
      <3>1. Group[o] \in Live
        BY <1>3, <1>9 DEF Live, Applied, Members
      <3>2. Live' = Live \ {Group[o]}
        <4>1. Applied(Members(Group[o]))' = {}
          <5>1. \A u \in SubOrders : usage[u] # "none" /\ Group[u] = Group[o] => u = o
            BY <1>3, <1>4 DEF TInv, OneRow
          <5>2. \A u \in Members(Group[o]) : usage'[u] # "applied"
            BY <1>5, <5>1 DEF Members
          <5>3. QED
            BY <5>2 DEF Applied
        <4>2. ASSUME NEW x \in Groups, x # Group[o]
              PROVE  Applied(Members(x))' = Applied(Members(x))
          BY <1>5, <4>2 DEF Members, Applied
        <4>3. QED
          BY <4>1, <4>2 DEF Live
      <3>3. Cardinality(Live') = Cardinality(Live) - 1
        BY <3>1, <3>2, Sizes, FS_RemoveElement
      <3>4. QED
        BY <1>8, <2>2, <2>3, <3>3, Sizes DEF CInv, NotLess
    <2>6. QED
      BY <1>6, <2>4, <2>5 DEF CInv
  <1>10. CASE usage[o] # "applied"
    <2>1. usage' = usage
      BY <1>1, <1>3, <1>4, <1>10 DEF UsageStatus
    <2>2. Live' = Live /\ Untouched' = Untouched
      BY <2>1, SameRows
    <2>3. Flipping' = Flipping
      BY <1>1, <1>10 DEF Flipping
    <2>4. QED
      BY <1>2, <1>6, <2>2, <2>3 DEF CInv, NotMore, NotLess
  <1> QED
    BY <1>9, <1>10

\* A reversal that ends: it gives back the use it flipped, or a failure loses it.
LEMMA CountEnd ==
  ASSUME TInv, CInv, NEW r \in Tasks, DecrementUsage(r) \/ CouponFail(r)
  PROVE  CInv'
  <1>1. /\ Goto(r, NoJob) /\ UNCHANGED <<kind, maxUses, usage, widest, reopened, overwrites>>
        /\ NoJob \in CouponJob /\ NoJob.op = "idle"
    BY Jobs DEF DecrementUsage, CouponFail
  <1>2. Live' = Live /\ Untouched' = Untouched
    BY <1>1, SameRows
  <1>3. Flipping' = Flipping \ {r}
    BY <1>1, FlippingMoves DEF TInv
  <1>4. Cardinality(Flipping') =
          IF r \in Flipping THEN Cardinality(Flipping) - 1 ELSE Cardinality(Flipping)
    BY <1>3, Sizes, FS_RemoveElement
  <1>5. Cardinality(Flipping') \in Nat
    BY <1>3, Sizes, FS_RemoveElement, FS_CardinalityType
  <1>6. /\ lost \in Nat /\ currentUses \in Nat
        /\ maxUses \in Nat \cup {Unlimited} /\ widest \in Nat \cup {Unlimited}
    BY DEF TInv, CouponTypeOK
  <1>7. r \in Flipping <=> task[r].op = "flip" /\ task[r].flipped
    BY DEF Flipping
  <1>8. CASE DecrementUsage(r)
    <2>1. /\ lost' = lost
          /\ currentUses' =
               IF r \in Flipping /\ currentUses > 0 THEN currentUses - 1 ELSE currentUses
      BY <1>7, <1>8 DEF DecrementUsage
    <2>2. NotMore'
      BY <1>2, <1>4, <1>5, <1>6, <2>1, Sizes DEF CInv, NotMore
    <2>3. NotLess'
      BY <1>1, <1>2, <1>4, <1>5, <1>6, <2>1, Sizes DEF CInv, NotLess
    <2>4. WithinWidest'
      BY <1>1, <1>6, <2>1 DEF CInv, WithinWidest, Unlimited
    <2>5. QED
      BY <2>2, <2>3, <2>4 DEF CInv
  <1>9. CASE CouponFail(r)
    <2>1. currentUses' = currentUses /\ lost' = IF r \in Flipping THEN lost + 1 ELSE lost
      BY <1>7, <1>9 DEF CouponFail
    <2>2. NotMore' /\ NotLess'
      BY <1>1, <1>2, <1>4, <1>6, <2>1, Sizes DEF CInv, NotMore, NotLess
    <2>3. WithinWidest'
      BY <1>1, <2>1 DEF CInv, WithinWidest
    <2>4. QED
      BY <2>2, <2>3 DEF CInv
  <1> QED
    BY <1>8, <1>9

LEMMA CountUpdate ==
  ASSUME TInv, CInv, NEW n \in Limits, UpdateCoupon(n)
  PROVE  CInv'
  <1>1. UNCHANGED <<kind, currentUses, usage, task, lost, reopened, overwrites>> /\ maxUses' = n /\ widest' = Wider(widest, n)
    BY DEF UpdateCoupon
  <1>2. Live' = Live /\ Untouched' = Untouched /\ Flipping' = Flipping
    BY <1>1, SameRows DEF Flipping
  <1>3. n \in Nat \cup {Unlimited} /\ currentUses \in Nat /\ widest \in Nat \cup {Unlimited}
    BY CouponAssumption DEF TInv, CouponTypeOK
  <1>4. WithinWidest'
    BY <1>1, <1>3 DEF CInv, WithinWidest, Wider, Unlimited
  <1> QED
    BY <1>1, <1>2, <1>4 DEF CInv, NotMore, NotLess

LEMMA CountOverwrite ==
  ASSUME TInv, CInv, NEW o \in SubOrders, OverwriteCancellation(o)
  PROVE  CInv'
  <1>1. UNCHANGED <<kind, maxUses, currentUses, usage, task, widest, lost>>
    BY DEF OverwriteCancellation
  <1>2. Live' = Live /\ Untouched' = Untouched /\ Flipping' = Flipping
    BY <1>1, SameRows DEF Flipping
  <1> QED
    BY <1>1, <1>2 DEF CInv, NotMore, NotLess, WithinWidest

LEMMA QuietJobs ==
  ASSUME TInv, CInv, NEW r \in Tasks,
         \/ \E g \in Groups : ReadCoupon(r, g)
         \/ \E o \in SubOrders : BeginCancel(r, o)
         \/ CountUses(r) \/ CancelOrder(r)
         \/ FindOrderUsages(r) \/ AskAllCancelled(r) \/ FindGroupUsages(r)
  PROVE  CInv'
  <1>1. UNCHANGED <<kind, maxUses, currentUses, usage, widest, lost, reopened, overwrites>>
    BY DEF ReadCoupon, BeginCancel, CountUses, CancelOrder, FindOrderUsages, AskAllCancelled,
           FindGroupUsages
  <1>2. r \notin Flipping
    BY Jobs DEF Flipping, ReadCoupon, BeginCancel, CountUses, CancelOrder, FindOrderUsages,
       AskAllCancelled, FindGroupUsages
  <1>3. task[r] \in CouponJob
    BY DEF TInv, CouponTypeOK
  <1>4. \E job \in CouponJob : Goto(r, job) /\ (job.op = "flip" => ~job.flipped)
    <2>1. ASSUME NEW g \in Groups, ReadCoupon(r, g) PROVE <1>4
      BY <2>1, Jobs DEF ReadCoupon
    <2>2. ASSUME NEW o \in SubOrders, BeginCancel(r, o) PROVE <1>4
      BY <2>2, Jobs DEF BeginCancel
    <2>3. ASSUME CountUses(r) PROVE <1>4
      BY <1>3, <2>3, Jobs, JobFacts DEF CountUses
    <2>4. ASSUME CancelOrder(r) PROVE <1>4
      BY <1>3, <2>4, Jobs, JobFacts DEF CancelOrder
    <2>5. ASSUME FindOrderUsages(r) PROVE <1>4
      <3>1. PICK o \in SubOrders : o = task[r].order /\ task[r].op = "findOrder"
        BY <1>3, <2>5, JobFacts DEF FindOrderUsages
      <3>2. Group[o] \in Groups /\ {o} \in SUBSET SubOrders /\ FALSE \in BOOLEAN
        BY DEF Groups
      <3>3. PICK ask \in CouponJob : ask = [op |-> "all", group |-> Group[o]]
        BY <3>2, Jobs
      <3>4. PICK flip \in CouponJob : flip = [op |-> "flip", todo |-> {o}, flipped |-> FALSE]
        BY <3>2, Jobs
      <3>5. ask.op = "all" /\ ~flip.flipped
        BY <3>3, <3>4
      <3>6. kind \in {"shop", "platform"}
        BY CouponAssumption DEF TInv, CouponTypeOK
      <3>7. Goto(r, ask) \/ Goto(r, NoJob) \/ Goto(r, flip)
        BY <2>5, <3>1, <3>3, <3>4, <3>6 DEF FindOrderUsages
      <3>8. QED
        BY <3>5, <3>7, Jobs
    <2>6. ASSUME AskAllCancelled(r) PROVE <1>4
      BY <1>3, <2>6, Jobs, JobFacts DEF AskAllCancelled
    <2>7. ASSUME FindGroupUsages(r) PROVE <1>4
      <3>1. PICK found \in SUBSET SubOrders : found = Applied(Members(task[r].group))
        BY DEF Applied, Members
      <3>2. PICK job \in CouponJob : job = [op |-> "flip", todo |-> found, flipped |-> FALSE]
        BY Jobs
      <3>3. ~job.flipped /\ (Goto(r, NoJob) \/ Goto(r, job))
        BY <2>7, <3>1, <3>2 DEF FindGroupUsages
      <3>4. QED
        BY <3>3, Jobs
    <2>8. QED
      BY <2>1, <2>2, <2>3, <2>4, <2>5, <2>6, <2>7
  <1> QED
    BY <1>1, <1>2, <1>4, CountQuiet

LEMMA CountStep ==
  ASSUME TInv, CInv, [CouponNext]_couponVars
  PROVE  CInv'
  <1>1. ASSUME NEW r \in Tasks, Checkout(r) \/ Cancellation(r) \/ CouponFail(r)
        PROVE  CInv'
    BY <1>1, QuietJobs, CountCommit, CountFlip, CountEnd DEF Checkout, Cancellation
  <1>2. CASE UNCHANGED couponVars
    <2>1. Live' = Live /\ Untouched' = Untouched /\ Flipping' = Flipping
      BY <1>2, SameRows DEF couponVars, Flipping
    <2>2. QED
      BY <1>2, <2>1 DEF couponVars, CInv, NotMore, NotLess, WithinWidest
  <1> QED
    BY <1>1, <1>2, CountUpdate, CountOverwrite DEF CouponNext

LEMMA Counted ==
  ASSUME TInv, CInv
  PROVE  CountIsExact /\ NoUseLeaked /\ LiveWithinLimit
  <1>1. /\ lost \in Nat /\ currentUses \in Nat
        /\ widest \in Nat \cup {Unlimited}
    BY DEF TInv, CouponTypeOK
  <1>2. Owed = Cardinality(Flipping) + lost
    BY DEF Owed, Flipping
  <1> QED
    BY <1>1, <1>2, Sizes
       DEF CInv, NotMore, NotLess, WithinWidest, CountIsExact, NoUseLeaked, LiveWithinLimit, Unlimited

\* A shop's coupon counts the checkouts with an applied use and what reversals owe it, no
\* more and no less.
THEOREM CountExact == CouponSpec => []CountIsExact
  BY TypeInit, TypeStep, CountInit, CountStep, Counted, PTL DEF CouponSpec

\* What current_uses counts beyond the checkouts with an applied use is owed by a reversal.
THEOREM NoLeak == CouponSpec => []NoUseLeaked
  BY TypeInit, TypeStep, CountInit, CountStep, Counted, PTL DEF CouponSpec

\* No more checkouts have an applied use of a shop's coupon than its largest limit.
THEOREM WithinLimit == CouponSpec => []LiveWithinLimit
  BY TypeInit, TypeStep, CountInit, CountStep, Counted, PTL DEF CouponSpec

-----------------------------------------------------------------------------
(* SellerFinance. *)

USE FinanceAssumption

-----------------------------------------------------------------------------
(* The inductive invariant. *)

\* A commission never exceeds its base, so every net is a natural number.
Fits(row) == row.commission <= row.base

CommissionsFit == \A i \in DOMAIN commissions : Fits(commissions[i])

HasCharge(row) ==
  \E j \in DOMAIN commissions : commissions[j] = [row EXCEPT !.type = "charge"]

\* A handler acts on rows that exist: its review names a withdrawal, and the
\* reversal it is about to book repeats a charge.
Grounded(job) ==
  /\ job.op \in {"approve", "reject"} => withdrawal[job.wd] # NoRow
  /\ job.op = "book" => Fits(job.row)
  /\ job.op = "book" /\ job.row.type = "reverse" => HasCharge(job.row)

JobsGrounded == \A r \in Requests : Grounded(req[r])

\* The ledger holds nothing of a withdrawal that was not requested.
NoEarlyEntries ==
  \A w \in Withdrawals : withdrawal[w] = NoRow =>
    EntriesOf(w, "withdrawal") = {} /\ EntriesOf(w, "withdrawal_refund") = {}

IInv ==
  /\ TypeOK
  /\ CommissionsFit
  /\ JobsGrounded
  /\ DebtNeedsReversal
  /\ ReverseHasCharge
  /\ NoEarlyEntries
  /\ HoldsAreBooked

-----------------------------------------------------------------------------
(* Lemmas about the data. *)

\* A rate of at most one hundred percent takes at most the base.
LEMMA CommissionFits ==
  ASSUME NEW base \in Nat, NEW rate \in Rates
  PROVE  /\ flatCommission(base, rate) \in Nat
         /\ flatCommission(base, rate) <= base
<1> DEFINE p == base * rate
<1>1. rate \in Nat /\ rate <= 100
  OBVIOUS
<1>2. p \in Nat /\ p <= base * 100
  BY <1>1
<1>3. p \div 100 \in Nat /\ p \div 100 <= base
  <2> HIDE DEF p
  <2> QED BY <1>2
<1> QED BY <1>3 DEF flatCommission

\* The fields a job has by its op.
LEMMA JobFields ==
  ASSUME NEW job \in Job
  PROVE  /\ job.op = "find" => job.order \in Orders
         /\ job.op = "book" => job.row \in CommissionRow
         /\ job.op \in {"approve", "reject"} => job.wd \in Withdrawals
BY DEF Job, Idle

\* A withdrawal that is not missing is a full row.
LEMMA RowFields ==
  ASSUME NEW row \in WithdrawalRow \cup {NoRow}
  PROVE  /\ row # NoRow => row \in WithdrawalRow
         /\ row.status \in {"pending", "approved", "rejected"} => row # NoRow
         /\ row # NoRow => row.amount \in Nat /\ row.user \in Sellers
<1>1. row # NoRow => row \in WithdrawalRow
  OBVIOUS
<1>2. row = NoRow => row.status = "none"
  BY DEF NoRow
<1>3. row \in WithdrawalRow => row.amount \in Amounts /\ row.user \in Sellers
  BY DEF WithdrawalRow
<1> QED BY <1>1, <1>2, <1>3

\* What appending one entry does to the entries of a reference.
LEMMA EntriesAfterAppend ==
  ASSUME ledger \in Seq(Book!Entry), NEW e \in Book!Entry,
         ledger' = Append(ledger, e), NEW ref, NEW type
  PROVE  EntriesOf(ref, type)' =
           EntriesOf(ref, type) \cup
             (IF e.ref = ref /\ e.type = type THEN {Len(ledger) + 1} ELSE {})
<1>1. /\ DOMAIN ledger = 1 .. Len(ledger)
      /\ Len(ledger) \in Nat
      /\ DOMAIN ledger' = 1 .. (Len(ledger) + 1)
      /\ \A i \in 1 .. Len(ledger) : ledger'[i] = ledger[i]
      /\ ledger'[Len(ledger) + 1] = e
  OBVIOUS
<1> QED BY <1>1 DEF EntriesOf

-----------------------------------------------------------------------------
(* What a step leaves alone. *)

\* Handlers stay grounded while rows are only added or reviewed.
LEMMA JobsStayGrounded ==
  ASSUME TypeOK, JobsGrounded,
         NEW r \in Requests, NEW job \in Job,
         req' = [req EXCEPT ![r] = job], Grounded(job)',
         \/ commissions' = commissions
         \/ \E row \in CommissionRow : commissions' = Append(commissions, row),
         \A w \in Withdrawals : withdrawal[w] # NoRow => withdrawal'[w] # NoRow
  PROVE  JobsGrounded'
<1>1. \A j \in DOMAIN commissions : j \in DOMAIN commissions' /\ commissions'[j] = commissions[j]
  <2>1. commissions \in Seq(CommissionRow)
    BY DEF TypeOK
  <2>2. CASE commissions' = commissions
    BY <2>2
  <2>3. ASSUME NEW row \in CommissionRow, commissions' = Append(commissions, row)
        PROVE  \A j \in DOMAIN commissions : j \in DOMAIN commissions' /\ commissions'[j] = commissions[j]
    BY <2>1, <2>3
  <2> QED BY <2>2, <2>3
<1> SUFFICES ASSUME NEW q \in Requests
             PROVE  Grounded(req[q])'
  BY DEF JobsGrounded
<1>2. CASE q = r
  BY <1>2 DEF TypeOK
<1>3. CASE q # r
  <2>1. req'[q] = req[q] /\ req[q] \in Job /\ Grounded(req[q])
    BY <1>3 DEF TypeOK, JobsGrounded
  <2>2. req[q].op \in {"approve", "reject"} => withdrawal'[req[q].wd] # NoRow
    BY <2>1, JobFields DEF Grounded
  <2>3. req[q].op = "book" => Fits(req[q].row)
    BY <2>1 DEF Grounded
  <2>4. HasCharge(req[q].row) =>
          \E j \in DOMAIN commissions' : commissions'[j] = [req[q].row EXCEPT !.type = "charge"]
    BY <1>1 DEF HasCharge
  <2>5. req[q].op = "book" /\ req[q].row.type = "reverse" => HasCharge(req[q].row)
    BY <2>1 DEF Grounded
  <2> QED BY <2>1, <2>2, <2>3, <2>4, <2>5 DEF Grounded, HasCharge, Fits
<1> QED BY <1>2, <1>3

\* A step that moves no money and adds no row keeps what the rows claim.
LEMMA RowsUntouched ==
  ASSUME IInv, UNCHANGED <<wallet, ledger, commissions, withdrawal>>,
         TypeOK', JobsGrounded'
  PROVE  IInv'
<1>1. \A ref, type : EntriesOf(ref, type)' = EntriesOf(ref, type)
  BY DEF EntriesOf
<1>2. NoEarlyEntries' /\ HoldsAreBooked'
  BY <1>1 DEF IInv, NoEarlyEntries, HoldsAreBooked
<1>3. CommissionsFit' /\ ReverseHasCharge'
  BY DEF IInv, CommissionsFit, Fits, ReverseHasCharge
<1>4. DebtNeedsReversal'
  BY DEF IInv, DebtNeedsReversal
<1> QED BY <1>2, <1>3, <1>4 DEF IInv

\* The holds are untouched by an entry that belongs to no withdrawal hold.
LEMMA HoldsUntouched ==
  ASSUME IInv, withdrawal' = withdrawal,
         NEW e \in Book!Entry, ledger' = Append(ledger, e),
         e.type \in {"sale_earning", "reversal"}
  PROVE  NoEarlyEntries' /\ HoldsAreBooked'
<1>1. \A w : /\ EntriesOf(w, "withdrawal")' = EntriesOf(w, "withdrawal")
             /\ EntriesOf(w, "withdrawal_refund")' = EntriesOf(w, "withdrawal_refund")
  <2>1. ledger \in Seq(Book!Entry)
    BY DEF IInv, TypeOK
  <2>2. \A ref, type : EntriesOf(ref, type)' = EntriesOf(ref, type) \cup
           (IF e.ref = ref /\ e.type = type THEN {Len(ledger) + 1} ELSE {})
    BY <2>1, EntriesAfterAppend
  <2> QED BY <2>2
<1> QED BY <1>1 DEF IInv, NoEarlyEntries, HoldsAreBooked

-----------------------------------------------------------------------------
(* One lemma per action. *)

LEMMA InitInv == Init => IInv
<1> SUFFICES ASSUME Init PROVE IInv
  OBVIOUS
<1>1. TypeOK
  BY DEF Init, TypeOK, Job
<1>2. \A i : i \notin DOMAIN commissions /\ i \notin DOMAIN ledger
  BY DEF Init
<1>3. JobsGrounded
  BY DEF Init, JobsGrounded, Grounded, Idle
<1> QED BY <1>1, <1>2, <1>3
        DEF Init, IInv, CommissionsFit, DebtNeedsReversal, ReverseHasCharge,
            NoEarlyEntries, HoldsAreBooked, EntriesOf

LEMMA IdleJob == Idle \in Job /\ Grounded(Idle) /\ Grounded(Idle)'
BY DEF Idle, Job, Grounded

LEMMA ConfigInv == IInv /\ UpdateCommissionConfig => IInv'
<1> SUFFICES ASSUME IInv, UpdateCommissionConfig PROVE IInv'
  OBVIOUS
<1>1. TypeOK'
  <2>1. config \in [enabled : BOOLEAN, rate : Rates] /\ called \in Nat
    BY DEF IInv, TypeOK
  <2>2. ASSUME NEW x \in BOOLEAN
        PROVE  [config EXCEPT !.enabled = x] \in [enabled : BOOLEAN, rate : Rates]
    BY <2>1
  <2>3. ASSUME NEW x \in Rates
        PROVE  [config EXCEPT !.rate = x] \in [enabled : BOOLEAN, rate : Rates]
    BY <2>1
  <2>4. config' \in [enabled : BOOLEAN, rate : Rates] /\ called' \in Nat
    BY <2>1, <2>2, <2>3 DEF UpdateCommissionConfig, Call
  <2>5. UNCHANGED <<wallet, ledger, commissions, withdrawal, req>>
    BY DEF UpdateCommissionConfig
  <2> QED BY <2>4, <2>5 DEF IInv, TypeOK
<1>2. JobsGrounded'
  BY DEF IInv, UpdateCommissionConfig, JobsGrounded, Grounded, HasCharge, Fits
<1> QED BY <1>1, <1>2, RowsUntouched DEF UpdateCommissionConfig

\* A step that only gives handler r another grounded job.
LEMMA JobInv ==
  ASSUME IInv, NEW r \in Requests, NEW job \in Job,
         req' = [req EXCEPT ![r] = job], Grounded(job)',
         UNCHANGED <<config, wallet, ledger, commissions, withdrawal>>, called' \in Nat
  PROVE  IInv'
<1>1. TypeOK'
  BY DEF IInv, TypeOK
<1>2. JobsGrounded'
  BY JobsStayGrounded DEF IInv
<1> QED BY <1>1, <1>2, RowsUntouched

LEMMA ChargeInv ==
  ASSUME IInv, NEW r \in Requests, NEW o \in Orders, ChargeForOrder(r, o)
  PROVE  IInv'
<1>1. Gross[o] \in Nat /\ config.rate \in Rates
  BY DEF ChargeForOrder, IInv, TypeOK
<1>2. PICK row \in CommissionRow :
        /\ row = [order |-> o, type |-> "charge", base |-> Gross[o],
                  commission |-> flatCommission(Gross[o], config.rate)]
        /\ Fits(row)
  <2> DEFINE c    == flatCommission(Gross[o], config.rate)
             row0 == [order |-> o, type |-> "charge", base |-> Gross[o], commission |-> c]
  <2>1. c \in Nat /\ c <= Gross[o]
    BY <1>1, CommissionFits
  <2> HIDE DEF c
  <2>2. row0 \in CommissionRow /\ Fits(row0)
    BY <1>1, <2>1 DEF CommissionRow, Fits
  <2> QED BY <2>2 DEF c
<1> DEFINE job == [op |-> "book", row |-> row]
<1>3. req' = [req EXCEPT ![r] = job]
  BY <1>2 DEF ChargeForOrder
<1>4. job \in Job
  BY DEF Job
<1>5. Grounded(job)'
  BY <1>2 DEF Grounded, Fits
<1>6. UNCHANGED <<config, wallet, ledger, commissions, withdrawal>> /\ called' \in Nat
  BY DEF ChargeForOrder, Call, IInv, TypeOK
<1> HIDE DEF job
<1> QED BY <1>3, <1>4, <1>5, <1>6, JobInv

LEMMA ReverseInv ==
  ASSUME IInv, NEW r \in Requests, NEW o \in Orders, ReverseForOrder(r, o)
  PROVE  IInv'
<1> DEFINE job == [op |-> "find", order |-> o]
<1>1. job \in Job /\ Grounded(job)'
  BY DEF Job, Grounded
<1>2. req' = [req EXCEPT ![r] = job]
  BY DEF ReverseForOrder
<1>3. UNCHANGED <<config, wallet, ledger, commissions, withdrawal>> /\ called' \in Nat
  BY DEF ReverseForOrder, Call, IInv, TypeOK
<1> HIDE DEF job
<1> QED BY <1>1, <1>2, <1>3, JobInv

LEMMA FindChargeInv ==
  ASSUME IInv, NEW r \in Requests, FindCharge(r)
  PROVE  IInv'
<1>1. UNCHANGED <<config, wallet, ledger, commissions, withdrawal>> /\ called' \in Nat
  BY DEF FindCharge, IInv, TypeOK
<1>2. CASE Done(r)
  BY <1>1, <1>2, IdleJob, JobInv DEF Done
<1>3. CASE \E i \in RowsOf(req[r].order, "charge") :
             req' = [req EXCEPT ![r] =
               [op |-> "book", row |-> [commissions[i] EXCEPT !.type = "reverse"]]]
  <2>1. PICK i \in DOMAIN commissions :
          /\ commissions[i].type = "charge"
          /\ req' = [req EXCEPT ![r] =
               [op |-> "book", row |-> [commissions[i] EXCEPT !.type = "reverse"]]]
    BY <1>3 DEF RowsOf
  <2>2. commissions[i] \in CommissionRow /\ Fits(commissions[i])
    BY DEF IInv, TypeOK, CommissionsFit
  <2>3. PICK row \in CommissionRow :
          /\ row = [commissions[i] EXCEPT !.type = "reverse"]
          /\ Fits(row)
          /\ commissions[i] = [row EXCEPT !.type = "charge"]
    <3> DEFINE row0 == [commissions[i] EXCEPT !.type = "reverse"]
    <3>1. row0 \in CommissionRow /\ Fits(row0)
      BY <2>2 DEF CommissionRow, Fits
    <3>2. commissions[i] = [row0 EXCEPT !.type = "charge"]
      BY <2>1, <2>2 DEF CommissionRow
    <3> QED BY <3>1, <3>2
  <2> DEFINE job == [op |-> "book", row |-> row]
  <2>4. job \in Job
    BY DEF Job
  <2>5. req' = [req EXCEPT ![r] = job]
    BY <2>1, <2>3
  <2>6. commissions' = commissions
    BY <1>1
  <2>7. HasCharge(row)'
    BY <2>3, <2>6 DEF HasCharge
  <2>8. Grounded(job)'
    BY <2>3, <2>7 DEF Grounded, Fits
  <2> HIDE DEF job
  <2> QED BY <1>1, <2>4, <2>5, <2>8, JobInv
<1> QED BY <1>2, <1>3 DEF FindCharge

LEMMA ReviewInv ==
  ASSUME IInv, NEW r \in Requests, NEW w \in Withdrawals,
         NEW d \in {"approve", "reject"}, Review(r, w, d)
  PROVE  IInv'
<1> DEFINE job == [op |-> d, wd |-> w]
<1>1. withdrawal[w] # NoRow
  BY RowFields DEF Review, IInv, TypeOK
<1>2. UNCHANGED <<config, wallet, ledger, commissions, withdrawal>> /\ called' \in Nat
  BY DEF Review, IInv, TypeOK
<1>3. job \in Job
  BY DEF Job
<1>4. Grounded(job)'
  BY <1>1, <1>2 DEF Grounded
<1>5. req' = [req EXCEPT ![r] = job]
  BY DEF Review
<1> HIDE DEF job
<1> QED BY <1>2, <1>3, <1>4, <1>5, JobInv

LEMMA FailInv ==
  ASSUME IInv, NEW r \in Requests, Fail(r)
  PROVE  IInv'
<1>1. UNCHANGED <<config, wallet, ledger, commissions, withdrawal>> /\ called' \in Nat
  BY DEF Fail, IInv, TypeOK
<1> QED BY <1>1, IdleJob, JobInv DEF Fail, Done

\* Booking a commission row: the wallet row has the type of its direction.
LEMMA BookInv ==
  ASSUME IInv, NEW r \in Requests, BookCommission(r)
  PROVE  IInv'
<1>1. PICK row \in CommissionRow :
        /\ row = req[r].row
        /\ Fits(row)
        /\ row.type = "reverse" => HasCharge(row)
  BY JobFields DEF BookCommission, IInv, TypeOK, JobsGrounded, Grounded
<1>2. PICK s \in Sellers : s = SellerOf[row.order]
  BY DEF CommissionRow
<1>3. PICK net \in Nat : net = Net(row)
  BY <1>1 DEF CommissionRow, Fits, Net
<1>4. PICK e \in Book!Entry :
        /\ ledger' = Append(ledger, e)
        /\ e.user = s
        /\ \/ e.type = "sale_earning" /\ wallet' = [wallet EXCEPT ![s] = @ + net]
           \/ e.type = "reversal" /\ wallet' = [wallet EXCEPT ![s] = @ - net]
  <2>1. row.order \in Orders
    BY DEF CommissionRow
  <2>2. ASSUME NEW t \in {"sale_earning", "reversal"}
        PROVE  /\ Entry(s, t, net, row.order) \in Book!Entry
               /\ Entry(s, t, net, row.order).user = s
               /\ Entry(s, t, net, row.order).type = t
    BY <2>1 DEF Entry, Book!Entry, Book!Credits, Book!Debits
  <2>3. \/ /\ wallet' = [wallet EXCEPT ![s] = @ + net]
           /\ ledger' = Append(ledger, Entry(s, "sale_earning", net, row.order))
        \/ /\ wallet' = [wallet EXCEPT ![s] = @ - net]
           /\ ledger' = Append(ledger, Entry(s, "reversal", net, row.order))
    BY <1>1, <1>2, <1>3 DEF BookCommission
  <2> QED BY <2>2, <2>3
<1>5. /\ commissions' = Append(commissions, row)
      /\ req' = [req EXCEPT ![r] = Idle]
      /\ UNCHANGED <<config, withdrawal, called>>
  BY <1>1 DEF BookCommission, Done
<1>6. /\ commissions \in Seq(CommissionRow)
      /\ ledger \in Seq(Book!Entry)
      /\ wallet \in [Sellers -> Int]
  BY DEF IInv, TypeOK
<1>7. TypeOK'
  <2>1. commissions' \in Seq(CommissionRow) /\ ledger' \in Seq(Book!Entry)
    BY <1>4, <1>5, <1>6
  <2>2. wallet' \in [Sellers -> Int]
    BY <1>4, <1>6
  <2>3. req' \in [Requests -> Job]
    BY <1>5, IdleJob DEF IInv, TypeOK
  <2> QED BY <1>5, <2>1, <2>2, <2>3 DEF IInv, TypeOK
<1>8. JobsGrounded'
  <2>1. \E x \in CommissionRow : commissions' = Append(commissions, x)
    BY <1>5
  <2> QED BY <1>5, <2>1, IdleJob, JobsStayGrounded DEF IInv
<1>9. /\ DOMAIN commissions' = DOMAIN commissions \cup {Len(commissions) + 1}
      /\ \A i \in DOMAIN commissions : commissions'[i] = commissions[i]
      /\ commissions'[Len(commissions) + 1] = row
  BY <1>5, <1>6
<1>10. CommissionsFit'
  BY <1>1, <1>9 DEF IInv, CommissionsFit, Fits
<1>11. ReverseHasCharge'
  <2> SUFFICES ASSUME NEW i \in DOMAIN commissions', commissions'[i].type = "reverse"
               PROVE  \E j \in DOMAIN commissions :
                        commissions[j] = [commissions'[i] EXCEPT !.type = "charge"]
    BY <1>9 DEF ReverseHasCharge
  <2>1. CASE i \in DOMAIN commissions
    BY <1>9, <2>1 DEF IInv, ReverseHasCharge
  <2>2. CASE i = Len(commissions) + 1
    BY <1>1, <1>9, <2>2 DEF HasCharge
  <2> QED BY <1>9, <2>1, <2>2
<1>12. DebtNeedsReversal'
  <2>1. /\ \A i \in DOMAIN ledger : i \in DOMAIN ledger' /\ ledger'[i] = ledger[i]
        /\ Len(ledger) + 1 \in DOMAIN ledger' /\ ledger'[Len(ledger) + 1] = e
    BY <1>4, <1>6
  <2> SUFFICES ASSUME NEW u \in Sellers, wallet'[u] < 0
               PROVE  \E i \in DOMAIN ledger' : ledger'[i].user = u /\ ledger'[i].type = "reversal"
    BY DEF DebtNeedsReversal
  <2>2. CASE wallet[u] < 0
    BY <2>1, <2>2 DEF IInv, DebtNeedsReversal
  <2>3. CASE ~(wallet[u] < 0)
    <3>1. u = s /\ e.type = "reversal"
      BY <1>4, <1>6, <2>3
    <3> QED BY <1>4, <2>1, <3>1
  <2> QED BY <2>2, <2>3
<1>13. NoEarlyEntries' /\ HoldsAreBooked'
  BY <1>4, <1>5, HoldsUntouched
<1> QED BY <1>7, <1>8, <1>10, <1>11, <1>12, <1>13 DEF IInv

LEMMA RequestInv ==
  ASSUME IInv, NEW s \in Sellers, NEW w \in Withdrawals, NEW a \in Amounts,
         RequestWithdrawal(s, w, a)
  PROVE  IInv'
<1> DEFINE e   == Entry(s, "withdrawal", a, w)
           row == [user |-> s, amount |-> a, status |-> "pending"]
<1>1. /\ e \in Book!Entry /\ e.user = s /\ e.type = "withdrawal" /\ e.ref = w
      /\ row \in WithdrawalRow /\ row # NoRow /\ row.status = "pending"
  <2>1. e \in Book!Entry /\ e.user = s /\ e.type = "withdrawal" /\ e.ref = w
    BY DEF Entry, Book!Entry, Book!Credits, Book!Debits
  <2>2. row \in WithdrawalRow /\ row.status = "pending"
    BY DEF WithdrawalRow
  <2>3. row # NoRow
    BY DEF NoRow
  <2> QED BY <2>1, <2>2, <2>3
<1>2. /\ withdrawal[w] = NoRow
      /\ wallet[s] >= a
      /\ wallet' = [wallet EXCEPT ![s] = @ - a]
      /\ ledger' = Append(ledger, e)
      /\ withdrawal' = [withdrawal EXCEPT ![w] = row]
      /\ UNCHANGED <<config, commissions, req, called>>
  BY DEF RequestWithdrawal
<1> HIDE DEF e, row
<1>3. /\ ledger \in Seq(Book!Entry)
      /\ wallet \in [Sellers -> Int]
      /\ withdrawal \in [Withdrawals -> WithdrawalRow \cup {NoRow}]
      /\ a \in Nat
  BY DEF IInv, TypeOK
<1>4. TypeOK'
  <2>1. ledger' \in Seq(Book!Entry)
    BY <1>1, <1>2, <1>3
  <2>2. wallet' \in [Sellers -> Int]
    BY <1>2, <1>3
  <2>3. withdrawal' \in [Withdrawals -> WithdrawalRow \cup {NoRow}]
    BY <1>1, <1>2, <1>3
  <2> QED BY <1>2, <2>1, <2>2, <2>3 DEF IInv, TypeOK
<1>5. \A v \in Withdrawals : withdrawal[v] # NoRow => withdrawal'[v] = withdrawal[v]
  BY <1>2, <1>3
<1>6. JobsGrounded'
  BY <1>2, <1>5, JobFields DEF IInv, TypeOK, JobsGrounded, Grounded, HasCharge, Fits
<1>7. CommissionsFit' /\ ReverseHasCharge'
  BY <1>2 DEF IInv, CommissionsFit, Fits, ReverseHasCharge
<1>8. DebtNeedsReversal'
  <2>1. \A i \in DOMAIN ledger : i \in DOMAIN ledger' /\ ledger'[i] = ledger[i]
    BY <1>1, <1>2, <1>3
  <2>2. \A u \in Sellers : wallet'[u] < 0 => wallet[u] < 0
    BY <1>2, <1>3
  <2> QED BY <2>1, <2>2 DEF IInv, DebtNeedsReversal
<1>9. \A ref, type : EntriesOf(ref, type)' = EntriesOf(ref, type) \cup
         (IF ref = w /\ type = "withdrawal" THEN {Len(ledger) + 1} ELSE {})
  BY <1>1, <1>2, <1>3, EntriesAfterAppend
<1>10. NoEarlyEntries'
  <2> SUFFICES ASSUME NEW v \in Withdrawals, withdrawal'[v] = NoRow
               PROVE  /\ EntriesOf(v, "withdrawal")' = {}
                      /\ EntriesOf(v, "withdrawal_refund")' = {}
    BY DEF NoEarlyEntries
  <2>1. v # w /\ withdrawal[v] = NoRow
    BY <1>1, <1>2, <1>3
  <2> QED BY <1>9, <2>1 DEF IInv, NoEarlyEntries
<1>11. HoldsAreBooked'
  <2> SUFFICES ASSUME NEW v \in Withdrawals, withdrawal'[v] # NoRow
               PROVE  /\ Cardinality(EntriesOf(v, "withdrawal")') = 1
                      /\ withdrawal'[v].status = "pending" => EntriesOf(v, "withdrawal_refund")' = {}
                      /\ withdrawal'[v].status = "rejected" => EntriesOf(v, "withdrawal_refund")' # {}
    BY DEF HoldsAreBooked
  <2>1. CASE v = w
    <3>1. EntriesOf(w, "withdrawal")' = {Len(ledger) + 1} /\ EntriesOf(w, "withdrawal_refund")' = {}
      BY <1>2, <1>9 DEF IInv, NoEarlyEntries
    <3>2. Cardinality({Len(ledger) + 1}) = 1
      BY FS_Singleton
    <3>3. withdrawal'[w].status = "pending"
      BY <1>1, <1>2, <1>3
    <3> QED BY <2>1, <3>1, <3>2, <3>3
  <2>2. CASE v # w
    <3>1. withdrawal'[v] = withdrawal[v]
      BY <1>2, <1>3, <2>2
    <3>2. /\ EntriesOf(v, "withdrawal")' = EntriesOf(v, "withdrawal")
          /\ EntriesOf(v, "withdrawal_refund")' = EntriesOf(v, "withdrawal_refund")
      BY <1>9, <2>2
    <3> QED BY <3>1, <3>2 DEF IInv, HoldsAreBooked
  <2> QED BY <2>1, <2>2
<1> QED BY <1>4, <1>6, <1>7, <1>8, <1>10, <1>11 DEF IInv

\* A review that gave withdrawal w a final status: other withdrawals and what
\* the handlers rely on are as before.
LEMMA Reviewed ==
  ASSUME IInv, NEW r \in Requests, NEW w \in Withdrawals,
         NEW st \in {"approved", "rejected"},
         withdrawal[w] # NoRow,
         withdrawal' = [withdrawal EXCEPT ![w].status = st],
         commissions' = commissions, Done(r)
  PROVE  /\ withdrawal' \in [Withdrawals -> WithdrawalRow \cup {NoRow}]
         /\ withdrawal'[w] # NoRow /\ withdrawal'[w].status = st
         /\ \A v \in Withdrawals : v # w => withdrawal'[v] = withdrawal[v]
         /\ req' \in [Requests -> Job]
         /\ JobsGrounded'
<1>1. withdrawal \in [Withdrawals -> WithdrawalRow \cup {NoRow}]
  BY DEF IInv, TypeOK
<1>2. withdrawal[w] \in WithdrawalRow
  BY <1>1
<1>3. PICK row \in WithdrawalRow : row = [withdrawal[w] EXCEPT !.status = st] /\ row.status = st
  <2> DEFINE row0 == [withdrawal[w] EXCEPT !.status = st]
  <2>1. row0 \in WithdrawalRow /\ row0.status = st
    BY <1>2 DEF WithdrawalRow
  <2> QED BY <2>1
<1>4. row # NoRow
  BY <1>3 DEF NoRow
<1>5. withdrawal' = [withdrawal EXCEPT ![w] = row]
  BY <1>3
<1>6. /\ withdrawal' \in [Withdrawals -> WithdrawalRow \cup {NoRow}]
      /\ withdrawal'[w] = row
      /\ \A v \in Withdrawals : v # w => withdrawal'[v] = withdrawal[v]
  BY <1>1, <1>5
<1>7. \A v \in Withdrawals : withdrawal[v] # NoRow => withdrawal'[v] # NoRow
  BY <1>4, <1>6
<1>8. req' \in [Requests -> Job]
  BY IdleJob DEF Done, IInv, TypeOK
<1>9. JobsGrounded'
  BY <1>7, IdleJob, JobsStayGrounded DEF Done, IInv
<1> QED BY <1>3, <1>4, <1>6, <1>8, <1>9

LEMMA ApproveInv ==
  ASSUME IInv, NEW r \in Requests, Approve(r)
  PROVE  IInv'
<1>1. PICK w \in Withdrawals : w = req[r].wd /\ withdrawal[w] # NoRow
  BY JobFields DEF Approve, IInv, TypeOK, JobsGrounded, Grounded
<1>2. /\ withdrawal' = [withdrawal EXCEPT ![w].status = "approved"]
      /\ Done(r)
      /\ UNCHANGED <<config, wallet, ledger, commissions, called>>
  BY <1>1 DEF Approve
<1>3. /\ withdrawal' \in [Withdrawals -> WithdrawalRow \cup {NoRow}]
      /\ withdrawal'[w] # NoRow /\ withdrawal'[w].status = "approved"
      /\ \A v \in Withdrawals : v # w => withdrawal'[v] = withdrawal[v]
      /\ req' \in [Requests -> Job]
      /\ JobsGrounded'
  BY <1>1, <1>2, Reviewed
<1>4. TypeOK'
  BY <1>2, <1>3 DEF IInv, TypeOK
<1>5. \A ref, type : EntriesOf(ref, type)' = EntriesOf(ref, type)
  BY <1>2 DEF EntriesOf
<1>6. NoEarlyEntries'
  BY <1>3, <1>5 DEF IInv, NoEarlyEntries
<1>7. HoldsAreBooked'
  BY <1>1, <1>3, <1>5 DEF IInv, HoldsAreBooked
<1>8. CommissionsFit' /\ ReverseHasCharge' /\ DebtNeedsReversal'
  BY <1>2 DEF IInv, CommissionsFit, Fits, ReverseHasCharge, DebtNeedsReversal
<1> QED BY <1>3, <1>4, <1>6, <1>7, <1>8 DEF IInv

LEMMA RejectInv ==
  ASSUME IInv, NEW r \in Requests, Reject(r)
  PROVE  IInv'
<1>1. PICK w \in Withdrawals : w = req[r].wd /\ withdrawal[w] # NoRow
  BY JobFields DEF Reject, IInv, TypeOK, JobsGrounded, Grounded
<1>2. PICK s \in Sellers, a \in Nat : s = withdrawal[w].user /\ a = withdrawal[w].amount
  BY <1>1, RowFields DEF IInv, TypeOK
<1>3. PICK e \in Book!Entry : /\ e = Entry(s, "withdrawal_refund", a, w)
                             /\ e.type = "withdrawal_refund" /\ e.ref = w
  <2> DEFINE e0 == Entry(s, "withdrawal_refund", a, w)
  <2>1. e0 \in Book!Entry /\ e0.type = "withdrawal_refund" /\ e0.ref = w
    BY DEF Entry, Book!Entry, Book!Credits, Book!Debits
  <2> QED BY <2>1
<1>4. /\ wallet' = [wallet EXCEPT ![s] = @ + a]
      /\ ledger' = Append(ledger, e)
      /\ withdrawal' = [withdrawal EXCEPT ![w].status = "rejected"]
      /\ Done(r)
      /\ UNCHANGED <<config, commissions, called>>
  BY <1>1, <1>2, <1>3 DEF Reject
<1>5. /\ withdrawal' \in [Withdrawals -> WithdrawalRow \cup {NoRow}]
      /\ withdrawal'[w] # NoRow /\ withdrawal'[w].status = "rejected"
      /\ \A v \in Withdrawals : v # w => withdrawal'[v] = withdrawal[v]
      /\ req' \in [Requests -> Job]
      /\ JobsGrounded'
  BY <1>1, <1>4, Reviewed
<1>6. ledger \in Seq(Book!Entry) /\ wallet \in [Sellers -> Int]
  BY DEF IInv, TypeOK
<1>7. ledger' \in Seq(Book!Entry) /\ wallet' \in [Sellers -> Int]
  BY <1>4, <1>6
<1>8. TypeOK'
  BY <1>4, <1>5, <1>7 DEF IInv, TypeOK
<1>9. \A ref, type : EntriesOf(ref, type)' = EntriesOf(ref, type) \cup
         (IF ref = w /\ type = "withdrawal_refund" THEN {Len(ledger) + 1} ELSE {})
  BY <1>3, <1>4, <1>6, EntriesAfterAppend
<1>10. NoEarlyEntries'
  BY <1>5, <1>9 DEF IInv, NoEarlyEntries
<1>11. HoldsAreBooked'
  <2> SUFFICES ASSUME NEW v \in Withdrawals, withdrawal'[v] # NoRow
               PROVE  /\ Cardinality(EntriesOf(v, "withdrawal")') = 1
                      /\ withdrawal'[v].status = "pending" => EntriesOf(v, "withdrawal_refund")' = {}
                      /\ withdrawal'[v].status = "rejected" => EntriesOf(v, "withdrawal_refund")' # {}
    BY DEF HoldsAreBooked
  <2>1. EntriesOf(v, "withdrawal")' = EntriesOf(v, "withdrawal")
    BY <1>9
  <2>2. CASE v = w
    BY <1>1, <1>5, <1>9, <2>1, <2>2 DEF IInv, HoldsAreBooked
  <2>3. CASE v # w
    BY <1>5, <1>9, <2>1, <2>3 DEF IInv, HoldsAreBooked
  <2> QED BY <2>2, <2>3
<1>12. CommissionsFit' /\ ReverseHasCharge'
  BY <1>4 DEF IInv, CommissionsFit, Fits, ReverseHasCharge
<1>13. DebtNeedsReversal'
  <2>1. \A i \in DOMAIN ledger : i \in DOMAIN ledger' /\ ledger'[i] = ledger[i]
    BY <1>4, <1>6
  <2>2. \A u \in Sellers : wallet'[u] < 0 => wallet[u] < 0
    BY <1>4, <1>6
  <2> QED BY <2>1, <2>2 DEF IInv, DebtNeedsReversal
<1> QED BY <1>5, <1>8, <1>10, <1>11, <1>12, <1>13 DEF IInv

-----------------------------------------------------------------------------
(* Both books. *)

\* The rows of a finite sequence that satisfy a condition are finitely many.
LEMMA FiniteRows ==
  ASSUME NEW s, DOMAIN s = 1 .. Len(s), Len(s) \in Nat, NEW T \in SUBSET DOMAIN s
  PROVE  IsFiniteSet(T)
<1>1. IsFiniteSet(1 .. Len(s))
  BY FS_Interval
<1> QED BY <1>1, FS_Subset

\* What appending a row does to a sequence.
LEMMA Appended ==
  ASSUME NEW R, NEW s \in Seq(R), NEW x \in R
  PROVE  /\ DOMAIN s = 1 .. Len(s) /\ Len(s) \in Nat
         /\ DOMAIN Append(s, x) = DOMAIN s \cup {Len(s) + 1}
         /\ \A i \in DOMAIN s : Append(s, x)[i] = s[i]
         /\ Append(s, x)[Len(s) + 1] = x
OBVIOUS

\* Two rows booked together keep the number of rows of each net in step.
LEMMA BooksAgreeAfterBook ==
  ASSUME IInv, BooksAgree, NEW r \in Requests, BookCommission(r)
  PROVE  BooksAgree'
<1>1. PICK row \in CommissionRow : row = req[r].row
  BY JobFields DEF BookCommission, IInv, TypeOK
<1>2. PICK e : /\ e \in Book!Entry
              /\ e.ref = row.order /\ e.amount = Net(row)
              /\ e.type = (IF row.type = "charge" THEN "sale_earning" ELSE "reversal")
              /\ ledger' = Append(ledger, e)
  <2>1. Fits(row) /\ SellerOf[row.order] \in Sellers /\ row.order \in Orders
    BY <1>1 DEF BookCommission, IInv, JobsGrounded, Grounded, CommissionRow
  <2>2. Net(row) \in Nat
    BY <2>1 DEF CommissionRow, Fits, Net
  <2>3. row.type = "charge" \/ row.type = "reverse"
    BY DEF CommissionRow
  <2>4. ledger' = Append(ledger,
          Entry(SellerOf[row.order], IF row.type = "charge" THEN "sale_earning" ELSE "reversal",
                Net(row), row.order))
    BY <1>1, <2>3 DEF BookCommission
  <2> DEFINE type == IF row.type = "charge" THEN "sale_earning" ELSE "reversal"
             e    == Entry(SellerOf[row.order], type, Net(row), row.order)
  <2>5. type \in Book!Credits \cup Book!Debits
    BY DEF Book!Credits, Book!Debits
  <2> HIDE DEF type
  <2>6. e \in Book!Entry /\ e.ref = row.order /\ e.amount = Net(row) /\ e.type = type
    BY <2>1, <2>2, <2>5 DEF Entry, Book!Entry
  <2>7. ledger' = Append(ledger, e)
    BY <2>4 DEF type
  <2> HIDE DEF e
  <2> QED BY <2>6, <2>7 DEF type
<1>3. commissions' = Append(commissions, row)
  BY <1>1 DEF BookCommission
<1>4. commissions \in Seq(CommissionRow) /\ ledger \in Seq(Book!Entry)
  BY DEF IInv, TypeOK
<1>5. /\ DOMAIN commissions = 1 .. Len(commissions) /\ Len(commissions) \in Nat
      /\ DOMAIN commissions' = DOMAIN commissions \cup {Len(commissions) + 1}
      /\ \A i \in DOMAIN commissions : commissions'[i] = commissions[i]
      /\ commissions'[Len(commissions) + 1] = row
      /\ DOMAIN ledger = 1 .. Len(ledger) /\ Len(ledger) \in Nat
      /\ DOMAIN ledger' = DOMAIN ledger \cup {Len(ledger) + 1}
      /\ \A i \in DOMAIN ledger : ledger'[i] = ledger[i]
      /\ ledger'[Len(ledger) + 1] = e
  BY <1>2, <1>3, <1>4, Appended
<1> SUFFICES ASSUME NEW o \in Orders,
                    NEW t \in {<<"charge", "sale_earning">>, <<"reverse", "reversal">>},
                    NEW n \in 0 .. Gross[o]
             PROVE  Cardinality({i \in RowsOf(o, t[1]) : Net(commissions[i]) = n})'
                      = Cardinality({i \in EntriesOf(o, t[2]) : ledger[i].amount = n})'
  BY DEF BooksAgree
<1> DEFINE A == {i \in RowsOf(o, t[1]) : Net(commissions[i]) = n}
           B == {i \in EntriesOf(o, t[2]) : ledger[i].amount = n}
           booked == row.order = o /\ row.type = t[1] /\ Net(row) = n
<1>6. Cardinality(A) = Cardinality(B)
  BY DEF BooksAgree
<1>7. IsFiniteSet(A) /\ IsFiniteSet(B)
  BY <1>5, FiniteRows DEF RowsOf, EntriesOf
<1>8. Len(commissions) + 1 \notin A /\ Len(ledger) + 1 \notin B
  BY <1>5 DEF RowsOf, EntriesOf
<1>9. A' = IF booked THEN A \cup {Len(commissions) + 1} ELSE A
  BY <1>5 DEF RowsOf, Net
<1>10. booked <=> e.ref = o /\ e.type = t[2] /\ e.amount = n
  <2>1. row.type = t[1] <=> e.type = t[2]
    <3>1. row.type = "charge" \/ row.type = "reverse"
      BY DEF CommissionRow
    <3>2. (t[1] = "charge" /\ t[2] = "sale_earning") \/ (t[1] = "reverse" /\ t[2] = "reversal")
      OBVIOUS
    <3> QED BY <1>2, <3>1, <3>2
  <2> QED BY <1>2, <2>1
<1>11. B' = IF booked THEN B \cup {Len(ledger) + 1} ELSE B
  BY <1>5, <1>10 DEF EntriesOf
<1> HIDE DEF A, B, booked
<1>12. Cardinality(A') = Cardinality(B')
  <2>1. CASE booked
    <3>1. /\ Cardinality(A \cup {Len(commissions) + 1}) = Cardinality(A) + 1
          /\ Cardinality(B \cup {Len(ledger) + 1}) = Cardinality(B) + 1
      BY <1>7, <1>8, FS_AddElement
    <3> QED BY <1>6, <1>9, <1>11, <2>1, <3>1
  <2>2. CASE ~booked
    BY <1>6, <1>9, <1>11, <2>2
  <2> QED BY <2>1, <2>2
<1> QED BY <1>12 DEF A, B

\* Other steps book no commission, and their entries are no earnings or reversals.
LEMMA BooksAgreeElse ==
  ASSUME IInv, BooksAgree, commissions' = commissions,
         \/ ledger' = ledger
         \/ \E e \in Book!Entry : /\ ledger' = Append(ledger, e)
                                 /\ e.type \notin {"sale_earning", "reversal"}
  PROVE  BooksAgree'
<1>1. ASSUME NEW o, NEW t \in {"sale_earning", "reversal"}
      PROVE  EntriesOf(o, t)' = EntriesOf(o, t) /\ \A i \in EntriesOf(o, t) : ledger'[i] = ledger[i]
  <2>1. CASE ledger' = ledger
    BY <2>1 DEF EntriesOf
  <2>2. ASSUME NEW e \in Book!Entry, ledger' = Append(ledger, e),
               e.type \notin {"sale_earning", "reversal"}
        PROVE  EntriesOf(o, t)' = EntriesOf(o, t) /\ \A i \in EntriesOf(o, t) : ledger'[i] = ledger[i]
    <3>1. ledger \in Seq(Book!Entry)
      BY DEF IInv, TypeOK
    <3>4. \A ref, type : EntriesOf(ref, type)' = EntriesOf(ref, type) \cup
             (IF e.ref = ref /\ e.type = type THEN {Len(ledger) + 1} ELSE {})
      BY <2>2, <3>1, EntriesAfterAppend
    <3>2. EntriesOf(o, t)' = EntriesOf(o, t)
      BY <2>2, <3>4
    <3>3. \A i \in DOMAIN ledger : ledger'[i] = ledger[i]
      BY <2>2, <3>1
    <3> QED BY <3>2, <3>3 DEF EntriesOf
  <2> QED BY <2>1, <2>2
<1> SUFFICES ASSUME NEW o \in Orders,
                    NEW t \in {<<"charge", "sale_earning">>, <<"reverse", "reversal">>},
                    NEW n \in 0 .. Gross[o]
             PROVE  Cardinality({i \in RowsOf(o, t[1]) : Net(commissions[i]) = n})'
                      = Cardinality({i \in EntriesOf(o, t[2]) : ledger[i].amount = n})'
  BY DEF BooksAgree
<1>2. t[2] \in {"sale_earning", "reversal"}
  OBVIOUS
<1>3. {i \in EntriesOf(o, t[2]) : ledger[i].amount = n}'
        = {i \in EntriesOf(o, t[2]) : ledger[i].amount = n}
  BY <1>1, <1>2
<1>4. {i \in RowsOf(o, t[1]) : Net(commissions[i]) = n}'
        = {i \in RowsOf(o, t[1]) : Net(commissions[i]) = n}
  BY DEF RowsOf, Net
<1> QED BY <1>3, <1>4 DEF BooksAgree

LEMMA BooksAgreeNext == IInv /\ BooksAgree /\ [Next]_vars => BooksAgree'
<1> SUFFICES ASSUME IInv, BooksAgree, [Next]_vars PROVE BooksAgree'
  OBVIOUS
<1>1. ASSUME NEW s \in Sellers, NEW w \in Withdrawals, NEW a \in Amounts, RequestWithdrawal(s, w, a)
      PROVE  BooksAgree'
  <2> DEFINE e == Entry(s, "withdrawal", a, w)
  <2>1. e \in Book!Entry /\ e.type = "withdrawal"
    BY DEF Entry, Book!Entry, Book!Credits, Book!Debits
  <2>2. ledger' = Append(ledger, e) /\ commissions' = commissions
    BY <1>1 DEF RequestWithdrawal
  <2> HIDE DEF e
  <2> QED BY <2>1, <2>2, BooksAgreeElse
<1>2. ASSUME NEW r \in Requests, Reject(r)
      PROVE  BooksAgree'
  <2>1. PICK w \in Withdrawals : w = req[r].wd /\ withdrawal[w] # NoRow
    BY <1>2, JobFields DEF Reject, IInv, TypeOK, JobsGrounded, Grounded
  <2>2. PICK s \in Sellers, a \in Nat : s = withdrawal[w].user /\ a = withdrawal[w].amount
    BY <2>1, RowFields DEF IInv, TypeOK
  <2> DEFINE e == Entry(s, "withdrawal_refund", a, w)
  <2>3. e \in Book!Entry /\ e.type = "withdrawal_refund"
    BY DEF Entry, Book!Entry, Book!Credits, Book!Debits
  <2>4. ledger' = Append(ledger, e) /\ commissions' = commissions
    BY <1>2, <2>1, <2>2 DEF Reject
  <2> HIDE DEF e
  <2> QED BY <2>3, <2>4, BooksAgreeElse
<1>3. ASSUME NEW r \in Requests, BookCommission(r)
      PROVE  BooksAgree'
  BY <1>3, BooksAgreeAfterBook
<1>4. ASSUME UNCHANGED <<commissions, ledger>>
      PROVE  BooksAgree'
  BY <1>4, BooksAgreeElse
<1>5. CASE UpdateCommissionConfig
  BY <1>4, <1>5 DEF UpdateCommissionConfig
<1>6. ASSUME NEW r \in Requests, Handler(r)
      PROVE  BooksAgree'
  BY <1>2, <1>3, <1>4, <1>6
     DEF Handler, ChargeForOrder, ReverseForOrder, FindCharge, Review, Approve, Fail
<1>7. CASE UNCHANGED vars
  BY <1>4, <1>7 DEF vars
<1> QED BY <1>1, <1>5, <1>6, <1>7 DEF Next

-----------------------------------------------------------------------------
(* The theorems. *)

LEMMA NextInv == IInv /\ [Next]_vars => IInv'
<1> SUFFICES ASSUME IInv, [Next]_vars PROVE IInv'
  OBVIOUS
<1>1. CASE UpdateCommissionConfig
  BY <1>1, ConfigInv
<1>2. ASSUME NEW s \in Sellers, NEW w \in Withdrawals, NEW a \in Amounts, RequestWithdrawal(s, w, a)
      PROVE  IInv'
  BY <1>2, RequestInv
<1>3. ASSUME NEW r \in Requests, Handler(r)
      PROVE  IInv'
  BY <1>3, ChargeInv, ReverseInv, ReviewInv, FindChargeInv, BookInv, ApproveInv, RejectInv,
     FailInv DEF Handler
<1>4. CASE UNCHANGED vars
  <2>1. TypeOK'
    BY <1>4 DEF vars, IInv, TypeOK
  <2>2. JobsGrounded'
    BY <1>4 DEF vars, IInv, JobsGrounded, Grounded, HasCharge, Fits
  <2> QED BY <1>4, <2>1, <2>2, RowsUntouched DEF vars
<1> QED BY <1>1, <1>2, <1>3, <1>4 DEF Next

THEOREM Invariance == Spec => []IInv
BY InitInv, NextInv, PTL DEF Spec

\* Rows and balances keep their types; in particular no net credited to a wallet
\* is ever negative, because no commission exceeds its base.
THEOREM TypeCorrect == Spec => []TypeOK
BY Invariance, PTL DEF IInv

\* A seller is in debt only after a reversal.
THEOREM DebtIsReversal == Spec => []DebtNeedsReversal
BY Invariance, PTL DEF IInv

\* What is reversed was charged, at the amounts it was charged.
THEOREM ReversalIsCharged == Spec => []ReverseHasCharge
BY Invariance, PTL DEF IInv

\* A hold is booked once, and refunded exactly when it was rejected first.
THEOREM HoldsBooked == Spec => []HoldsAreBooked
BY Invariance, PTL DEF IInv

\* Every step of the feature is a step of the abstract ledger or leaves it alone.
LEMMA StepRefines == IInv /\ IInv' /\ [Next]_vars => [Book!Next]_(Book!vars)
<1> SUFFICES ASSUME IInv, IInv', [Next]_vars PROVE [Book!Next]_(Book!vars)
  OBVIOUS
<1>1. ledger \in Seq(Book!Entry) /\ ledger' \in Seq(Book!Entry)
  BY DEF IInv, TypeOK
<1>2. ASSUME NEW e, ledger' = Append(ledger, e),
             wallet' = [wallet EXCEPT ![e.user] = @ + Book!Signed(e)]
      PROVE  Book!Next
  <2>1. ledger' # <<>> /\ Len(ledger') = Len(ledger) + 1 /\ ledger'[Len(ledger')] = e
    BY <1>1, <1>2
  <2>2. e \in Book!Entry
    BY <1>1, <2>1
  <2> QED BY <1>2, <2>1, <2>2 DEF Book!Next, Book!Post
<1>3. ASSUME NEW s, NEW t, NEW n, NEW ref,
             wallet \in [Sellers -> Int], n \in Int, s \in Sellers,
             ledger' = Append(ledger, Entry(s, t, n, ref)),
             \/ t \in Book!Credits /\ wallet' = [wallet EXCEPT ![s] = @ + n]
             \/ t \notin Book!Credits /\ wallet' = [wallet EXCEPT ![s] = @ - n]
      PROVE  Book!Next
  <2> DEFINE e == Entry(s, t, n, ref)
  <2>1. e.user = s /\ e.type = t /\ e.amount = n
    BY DEF Entry
  <2>2. Book!Signed(e) = IF t \in Book!Credits THEN n ELSE -n
    BY <2>1 DEF Book!Signed
  <2> HIDE DEF e
  <2>3. wallet' = [wallet EXCEPT ![e.user] = @ + Book!Signed(e)]
    BY <1>3, <2>1, <2>2
  <2>4. ledger' = Append(ledger, e)
    BY <1>3 DEF e
  <2> QED BY <1>2, <2>3, <2>4
<1>4. wallet \in [Sellers -> Int]
  BY DEF IInv, TypeOK
<1>5. ASSUME NEW s \in Sellers, NEW w \in Withdrawals, NEW a \in Amounts, RequestWithdrawal(s, w, a)
      PROVE  Book!Next
  <2>1. "withdrawal" \notin Book!Credits /\ a \in Int
    BY DEF Book!Credits
  <2>2. /\ ledger' = Append(ledger, Entry(s, "withdrawal", a, w))
        /\ wallet' = [wallet EXCEPT ![s] = @ - a]
    BY <1>5 DEF RequestWithdrawal
  <2> QED BY <1>3, <1>4, <2>1, <2>2
<1>6. ASSUME NEW r \in Requests, BookCommission(r)
      PROVE  Book!Next
  <2>1. req[r].row \in CommissionRow
    BY <1>6, JobFields DEF BookCommission, IInv, TypeOK
  <2>2. SellerOf[req[r].row.order] \in Sellers /\ Net(req[r].row) \in Int
    BY <2>1 DEF CommissionRow, Net
  <2> QED BY <1>3, <1>4, <1>6, <2>2 DEF BookCommission, Book!Credits
<1>7. ASSUME NEW r \in Requests, Reject(r)
      PROVE  Book!Next
  <2>1. req[r].wd \in Withdrawals /\ withdrawal[req[r].wd] # NoRow
    BY <1>7, JobFields DEF Reject, IInv, TypeOK, JobsGrounded, Grounded
  <2>2. withdrawal[req[r].wd].user \in Sellers /\ withdrawal[req[r].wd].amount \in Int
    BY <2>1, RowFields DEF IInv, TypeOK
  <2> QED BY <1>3, <1>4, <1>7, <2>2 DEF Reject, Book!Credits
<1>8. ASSUME UNCHANGED <<wallet, ledger>>
      PROVE  UNCHANGED Book!vars
  BY <1>8 DEF Book!vars
<1>9. CASE UpdateCommissionConfig
  BY <1>8, <1>9 DEF UpdateCommissionConfig
<1>10. ASSUME NEW r \in Requests, Handler(r)
       PROVE  [Book!Next]_(Book!vars)
  BY <1>6, <1>7, <1>8, <1>10
     DEF Handler, ChargeForOrder, ReverseForOrder, FindCharge, Review, Approve, Fail
<1>11. CASE UNCHANGED vars
  BY <1>8, <1>11 DEF vars
<1> QED BY <1>5, <1>9, <1>10, <1>11 DEF Next

\* The seller-finance feature implements the abstract ledger: no balance moves
\* without the one row that explains it, and no row is changed or lost.
THEOREM LedgerImplemented == Spec => ImplementsLedger
<1>1. Init => Book!Init
  BY DEF Init, Book!Init
<1>2. Spec => Book!Spec
  BY <1>1, Invariance, StepRefines, PTL DEF Spec, Book!Spec
<1> QED BY <1>2 DEF ImplementsLedger

\* The platform's books and the sellers' agree, for any number of orders.
THEOREM BooksAlwaysAgree == Spec => []BooksAgree
<1>1. Init => BooksAgree
  <2> SUFFICES ASSUME Init PROVE BooksAgree
    OBVIOUS
  <2>1. \A o, t : RowsOf(o, t) = {} /\ EntriesOf(o, t) = {}
    BY DEF Init, RowsOf, EntriesOf
  <2> QED BY <2>1 DEF BooksAgree
<1> QED BY <1>1, Invariance, BooksAgreeNext, PTL DEF Spec

\* The sum of the abstract ledger is the one the lemmas on sums are about.
LEMMA BookSum ==
  ASSUME NEW f, NEW S
  PROVE  Book!SumFunctionOnSet(f, S) = SumFunctionOnSet(f, S)
BY DEF Book!SumFunctionOnSet, SumFunctionOnSet, Book!FoldFunctionOnSet, FoldFunctionOnSet,
       Book!MapThenFoldSet, MapThenFoldSet

LEMMA BalanceKept ==
  ASSUME Book!BalanceIsLedger, Book!Next, ledger \in Seq(Book!Entry),
         ledger' \in Seq(Book!Entry), wallet \in [Sellers -> Int]
  PROVE  Book!BalanceIsLedger'
<1>1. PICK e \in Book!Entry : /\ ledger' = Append(ledger, e)
                             /\ wallet' = [wallet EXCEPT ![e.user] = @ + Book!Signed(e)]
  BY DEF Book!Next, Book!Post
<1>2. PICK n \in Nat : n = Len(ledger) + 1 /\ DOMAIN ledger = 1 .. (n - 1)
  OBVIOUS
<1>3. /\ n \notin DOMAIN ledger /\ DOMAIN ledger' = DOMAIN ledger \cup {n}
      /\ \A i \in DOMAIN ledger : ledger'[i] = ledger[i]
      /\ ledger'[n] = e
  BY <1>1, <1>2
<1>4. \A x \in Book!Entry : Book!Signed(x) \in Int /\ x.user \in Sellers
  BY DEF Book!Entry, Book!Signed
<1>5. PICK f : f = [i \in DOMAIN ledger |-> Book!Signed(ledger[i])]
  OBVIOUS
<1>6. PICK g : g = [i \in DOMAIN ledger' |-> Book!Signed(ledger'[i])]
  OBVIOUS
<1>7. /\ \A i \in DOMAIN ledger : f[i] = g[i] /\ f[i] \in Int
      /\ g[n] = Book!Signed(e)
  BY <1>3, <1>4, <1>5, <1>6
<1> SUFFICES ASSUME NEW u \in Sellers
             PROVE  wallet'[u] = SumFunctionOnSet(g, Book!Entries(u)')
  BY <1>6, BookSum DEF Book!BalanceIsLedger, Book!Signed, Book!Credits
<1>8. PICK S : S = Book!Entries(u)
  OBVIOUS
<1>9. S \in SUBSET DOMAIN ledger /\ IsFiniteSet(S) /\ n \notin S
  <2>1. S \in SUBSET DOMAIN ledger
    BY <1>8 DEF Book!Entries
  <2>2. IsFiniteSet(DOMAIN ledger)
    BY <1>2, FS_Interval
  <2> QED BY <1>3, <2>1, <2>2, FS_Subset
<1>10. Book!Entries(u)' = IF e.user = u THEN S \cup {n} ELSE S
  BY <1>3, <1>8 DEF Book!Entries
<1>11. wallet[u] = SumFunctionOnSet(g, S)
  <2>1. wallet[u] = SumFunctionOnSet(f, S)
    BY <1>5, <1>8, BookSum DEF Book!BalanceIsLedger
  <2>2. SumFunctionOnSet(f, S) = SumFunctionOnSet(g, S)
    BY <1>7, <1>9, SumSame
  <2> QED BY <2>1, <2>2
<1>12. CASE e.user = u
  <2>1. \A x \in S : g[x] \in Int
    BY <1>7, <1>9
  <2>2. g[n] \in Int
    BY <1>4, <1>7
  <2>3. SumFunctionOnSet(g, S \cup {n}) = SumFunctionOnSet(g, S) + g[n]
    BY <1>9, <2>1, <2>2, SumAdd
  <2> QED BY <1>1, <1>7, <1>10, <1>11, <1>12, <2>3
<1>13. CASE e.user # u
  BY <1>1, <1>10, <1>11, <1>13
<1> QED BY <1>12, <1>13

\* Every wallet holds exactly what its ledger adds up to, whatever the handlers do.
THEOREM BalancesAreLedgers == Spec => []BalanceIsLedger
<1>1. Init => Book!BalanceIsLedger
  <2> SUFFICES ASSUME Init, NEW u \in Sellers
               PROVE  wallet[u] = Book!SumFunctionOnSet([i \in DOMAIN ledger |-> Book!Signed(ledger[i])],
                                                        Book!Entries(u))
    BY DEF Book!BalanceIsLedger
  <2>1. Book!Entries(u) = {} /\ wallet[u] = 0
    BY DEF Init, Book!Entries
  <2> QED BY <2>1, BookSum, SumEmpty
<1>2. IInv /\ IInv' /\ [Next]_vars /\ Book!BalanceIsLedger => Book!BalanceIsLedger'
  <2> SUFFICES ASSUME IInv, IInv', [Next]_vars, Book!BalanceIsLedger
               PROVE  Book!BalanceIsLedger'
    OBVIOUS
  <2>1. /\ ledger \in Seq(Book!Entry) /\ ledger' \in Seq(Book!Entry)
        /\ wallet \in [Sellers -> Int]
    BY DEF IInv, TypeOK
  <2>2. CASE Book!Next
    BY <2>1, <2>2, BalanceKept
  <2>3. CASE UNCHANGED Book!vars
    BY <2>3 DEF Book!vars, Book!BalanceIsLedger, Book!Entries, Book!Signed
  <2> QED BY <2>2, <2>3, StepRefines
<1> QED BY <1>1, <1>2, Invariance, PTL DEF Spec, BalanceIsLedger

-----------------------------------------------------------------------------
(* Coins: jobs and bags. *)

LEMMA CoinJobFacts ==
  ASSUME NEW job \in CoinJob
  PROVE  /\ job.op = "create" => job.type \in {"earn", "refund"} /\ job.order \in CoinOrders
         /\ job.op = "lookup" => job.order \in CoinOrders
         /\ job.op = "reverse" => job.order \in CoinOrders /\ job.held \in Held
         /\ job.op = "enter" => /\ job.entry \in OrderEntry
                                /\ job.entry \in CoinEntry /\ job.entry.batch \in BatchIds
                                /\ job.entry.type \in {"earn", "refund", "reverse_earn"}
         /\ job.op = "find" => job.amount \in Nat
         /\ job.op = "consume" => job.amount \in Nat /\ job.found \in [BatchIds -> Nat]
         /\ job.op = "sweep" => job.todo \in SUBSET Held
         /\ job.op = "log" => job.held \in Held /\ job.todo \in SUBSET Held
  BY DEF CoinJob, AtRest, OrderEntry

LEMMA CoinJobs ==
  /\ AtRest \in CoinJob
  /\ \A t \in {"earn", "refund"}, o \in CoinOrders :
       [op |-> "create", type |-> t, order |-> o] \in CoinJob
  /\ \A o \in CoinOrders : [op |-> "lookup", order |-> o] \in CoinJob
  /\ \A o \in CoinOrders, h \in Held : [op |-> "reverse", order |-> o, held |-> h] \in CoinJob
  /\ \A e \in OrderEntry : [op |-> "enter", entry |-> e] \in CoinJob
  /\ \A n \in Nat : [op |-> "find", amount |-> n] \in CoinJob
  /\ \A n \in Nat, f \in [BatchIds -> Nat] :
       [op |-> "consume", amount |-> n, found |-> f] \in CoinJob
  /\ \A todo \in SUBSET Held : [op |-> "sweep", todo |-> todo] \in CoinJob
  /\ \A h \in Held, todo \in SUBSET Held :
       [op |-> "log", held |-> h, todo |-> todo] \in CoinJob
  BY DEF CoinJob

\* What adding a ledger entry does to the ledger.
LEMMA Adding ==
  ASSUME IsABag(entries), IsFiniteSet(BagToSet(entries)), BagToSet(entries) \subseteq CoinEntry,
         NEW e \in CoinEntry, Enter(e)
  PROVE  /\ IsABag(entries') /\ IsFiniteSet(BagToSet(entries'))
         /\ BagToSet(entries') = BagToSet(entries) \cup {e}
         /\ BagToSet(entries') \subseteq CoinEntry
         /\ entries'[e] = IF e \in BagToSet(entries) THEN entries[e] + 1 ELSE 1
         /\ \A f \in BagToSet(entries) : f # e => entries'[f] = entries[f]
         /\ \A f \in BagToSet(entries) : entries[f] \in Nat
<1> DEFINE one == SetToBag({e})
<1>0. DOMAIN one = {e} /\ one[e] = 1
  BY DEF SetToBag
<1> HIDE DEF one
<1>1. entries' = [f \in DOMAIN entries \cup {e} |->
                    (IF f \in DOMAIN entries THEN entries[f] ELSE 0)
                    + (IF f \in {e} THEN one[f] ELSE 0)]
  BY <1>0 DEF Enter, (+), one
<1>2. IsFiniteSet(DOMAIN entries \cup {e})
  BY FS_AddElement DEF BagToSet
<1>3. \A f \in DOMAIN entries : entries[f] \in Nat /\ entries[f] > 0
  BY DEF IsABag
<1>4. \A f \in DOMAIN entries \cup {e} :
        entries'[f] = IF f # e THEN entries[f]
                      ELSE IF e \in DOMAIN entries THEN entries[e] + 1 ELSE 1
  BY <1>0, <1>1, <1>3
<1>5. IsABag(entries')
  <2>1. entries' = [f \in DOMAIN entries' |-> entries'[f]]
    BY <1>1
  <2>2. ASSUME NEW f \in DOMAIN entries' PROVE entries'[f] \in {n \in Nat : n > 0}
    <3>1. f \in DOMAIN entries \cup {e}
      BY <1>1
    <3>2. CASE f # e
      <4>1. f \in DOMAIN entries
        BY <3>1, <3>2
      <4>2. entries'[f] = entries[f] /\ entries[f] \in Nat /\ entries[f] > 0
        BY <1>3, <1>4, <3>1, <3>2, <4>1
      <4> QED BY <4>2
    <3>3. CASE f = e
      <4>1. entries'[e] = IF e \in DOMAIN entries THEN entries[e] + 1 ELSE 1
        BY <1>4
      <4>2. CASE e \in DOMAIN entries
        BY <1>3, <3>3, <4>1, <4>2
      <4>3. CASE e \notin DOMAIN entries
        BY <3>3, <4>1, <4>3
      <4> QED BY <4>2, <4>3
    <3> QED BY <3>2, <3>3
  <2> QED BY <2>1, <2>2 DEF IsABag
<1> QED BY <1>1, <1>2, <1>3, <1>4, <1>5 DEF BagToSet

-----------------------------------------------------------------------------
(* Coins: what a redemption takes of each batch. *)

LeftBody(amount, found, left, i) ==
  IF i = 0 THEN amount
  ELSE LET take == Least(left[i - 1], found[i]) IN
       IF batch[i].remaining >= take THEN left[i - 1] - take ELSE left[i - 1]

\* The recursion has a solution: one up to every batch, in their order.
LEMMA LeftIsDefined ==
  ASSUME NEW amount, NEW found, Len(batch) \in Nat
  PROVE  LeftAfter(amount, found)
           = [i \in 0 .. Len(batch) |-> LeftBody(amount, found, LeftAfter(amount, found), i)]
<1> DEFINE n == Len(batch)
           Body(l, i) == LeftBody(amount, found, l, i)
           upTo(k) == \E l : \A i \in 0 .. n : i <= k => l[i] = Body(l, i)
           bad == {k \in Nat : ~ upTo(k)}
<1>1. upTo(0)
  <2> DEFINE l == [i \in 0 .. n |-> amount]
  <2>1. \A i \in 0 .. n : i <= 0 => l[i] = Body(l, i)
    BY DEF LeftBody
  <2> HIDE DEF l, Body
  <2> QED BY <2>1
<1>2. ASSUME NEW k \in Nat, upTo(k) PROVE upTo(k + 1)
  <2>1. PICK l : \A i \in 0 .. n : i <= k => l[i] = Body(l, i)
    BY <1>2
  <2> DEFINE m == [i \in 0 .. n |-> Body(l, i)]
  <2>2. ASSUME NEW i \in 0 .. n, i <= k + 1 PROVE m[i] = Body(m, i)
    <3>1. m[i] = Body(l, i)
      OBVIOUS
    <3>2. CASE i = 0
      BY <3>1, <3>2 DEF LeftBody
    <3>3. CASE i # 0
      <4>1. i - 1 \in 0 .. n /\ i - 1 <= k
        BY <2>2, <3>3
      <4>2. m[i - 1] = l[i - 1]
        BY <2>1, <4>1
      <4> HIDE DEF m
      <4> QED BY <3>1, <4>2, <3>3 DEF LeftBody
    <3> QED BY <3>2, <3>3
  <2> HIDE DEF m, Body
  <2> QED BY <2>2
<1> HIDE DEF upTo
<1>3. bad = {}
  <2> SUFFICES ASSUME bad # {} PROVE FALSE
    OBVIOUS
  <2>1. PICK k \in bad : \A j \in bad : k <= j
    BY LeastNat
  <2>2. k # 0 /\ k \in Nat
    BY <1>1
  <2>3. k - 1 \in Nat /\ k - 1 \notin bad
    BY <2>1, <2>2
  <2>4. upTo((k - 1) + 1)
    BY <1>2, <2>3
  <2> QED BY <2>2, <2>4
<1>4. PICK l : \A i \in 0 .. n : i <= n => l[i] = Body(l, i)
  BY <1>3 DEF upTo
<1> DEFINE m == [i \in 0 .. n |-> l[i]]
<1>5. \A i \in 0 .. n : Body(m, i) = l[i]
  <2> SUFFICES ASSUME NEW i \in 0 .. n PROVE Body(m, i) = l[i]
    OBVIOUS
  <2>1. l[i] = Body(l, i)
    BY <1>4
  <2>2. CASE i = 0
    BY <2>1, <2>2 DEF LeftBody
  <2>3. CASE i # 0
    <3>1. i - 1 \in 0 .. n
      BY <2>3
    <3>2. m[i - 1] = l[i - 1]
      BY <3>1
    <3> HIDE DEF m
    <3> QED BY <2>1, <2>3, <3>2 DEF LeftBody
  <2> QED BY <2>2, <2>3
<1>6. m = [i \in 0 .. n |-> Body(m, i)]
  BY <1>5
<1>7. LeftAfter(amount, found) = CHOOSE g : g = [i \in 0 .. n |-> Body(g, i)]
  BY DEF LeftAfter, LeftBody
<1> HIDE DEF m, Body
<1>8. LeftAfter(amount, found) = [i \in 0 .. n |-> Body(LeftAfter(amount, found), i)]
  BY <1>6, <1>7
<1> QED BY <1>8 DEF Body

BatchesTyped == batch \in Seq(Batch) /\ Len(batch) \in Nat /\ Len(batch) <= MaxBatches /\ MaxBatches \in Nat

LEMMA BatchRows ==
  ASSUME BatchesTyped
  PROVE  /\ DOMAIN batch = 1 .. Len(batch) /\ DOMAIN batch \subseteq BatchIds
         /\ IsFiniteSet(DOMAIN batch) /\ IsFiniteSet(BatchIds)
         /\ \A i \in DOMAIN batch :
              batch[i] \in Batch /\ batch[i].remaining \in Nat /\ batch[i].earned \in Nat
<1>1. DOMAIN batch = 1 .. Len(batch) /\ \A i \in 1 .. Len(batch) : batch[i] \in Batch
  BY ElementOfSeq, LenProperties DEF BatchesTyped
<1>2. IsFiniteSet(1 .. MaxBatches) /\ IsFiniteSet(1 .. Len(batch))
  BY FS_Interval DEF BatchesTyped
<1>3. 1 .. Len(batch) \subseteq 1 .. MaxBatches
  BY DEF BatchesTyped
<1> QED BY <1>1, <1>2, <1>3 DEF BatchIds, Batch

\* A redemption takes no more of a batch than it holds now, and never leaves a debt.
LEMMA Taking ==
  ASSUME BatchesTyped, NEW amount \in Nat, NEW found \in [BatchIds -> Nat],
         NEW left, left = LeftAfter(amount, found)
  PROVE  /\ left[0] = amount
         /\ \A i \in 0 .. Len(batch) : left[i] \in Nat
         /\ \A i \in DOMAIN batch : /\ left[i - 1] - left[i] \in Nat
                                    /\ left[i - 1] - left[i] <= batch[i].remaining
<1>1. left = [i \in 0 .. Len(batch) |-> LeftBody(amount, found, left, i)]
  BY LeftIsDefined DEF BatchesTyped
<1>2. left[0] = amount
  BY <1>1 DEF LeftBody, BatchesTyped
<1>3. \A i \in DOMAIN batch : i \in Nat /\ i >= 1 /\ i <= Len(batch) /\ i - 1 \in 0 .. Len(batch)
                              /\ found[i] \in Nat /\ batch[i].remaining \in Nat
  BY BatchRows DEF BatchesTyped
<1>4. ASSUME NEW i \in DOMAIN batch, left[i - 1] \in Nat
      PROVE  /\ left[i] \in Nat /\ left[i - 1] - left[i] \in Nat
             /\ left[i - 1] - left[i] <= batch[i].remaining
  <2>0. i \in 0 .. Len(batch) /\ i # 0 /\ found[i] \in Nat /\ batch[i].remaining \in Nat
    BY <1>3 DEF BatchesTyped
  <2>1. left[i] = LeftBody(amount, found, left, i)
    BY <1>1, <2>0
  <2> DEFINE take == Least(left[i - 1], found[i])
  <2>2. left[i] = IF batch[i].remaining >= take THEN left[i - 1] - take ELSE left[i - 1]
    BY <2>0, <2>1 DEF LeftBody
  <2>3. take \in Nat /\ take <= left[i - 1]
    BY <1>4, <2>0 DEF Least
  <2> HIDE DEF take
  <2>4. PICK l \in Nat, b \in Nat : l = left[i - 1] /\ b = batch[i].remaining
    BY <1>4, <2>0
  <2>5. left[i] = IF b >= take THEN l - take ELSE l
    BY <2>2, <2>4
  <2>6. left[i] \in Nat /\ l - left[i] \in Nat /\ l - left[i] <= b
    <3>1. take \in Nat /\ take <= l
      BY <2>3, <2>4
    <3>2. CASE b >= take
      BY <2>5, <3>1, <3>2
    <3>3. CASE ~ (b >= take)
      BY <2>5, <3>3
    <3> QED BY <3>2, <3>3
  <2> QED BY <2>4, <2>6
<1> DEFINE bad == {i \in 0 .. Len(batch) : left[i] \notin Nat}
<1>5. bad = {}
  <2> SUFFICES ASSUME bad # {} PROVE FALSE
    OBVIOUS
  <2>1. bad \in SUBSET Nat
    BY DEF BatchesTyped
  <2>2. PICK k \in bad : \A j \in bad : k <= j
    BY <2>1, LeastNat
  <2>3. k # 0
    BY <1>2
  <2>4. k \in DOMAIN batch /\ k - 1 \in 0 .. Len(batch) /\ k - 1 \notin bad
    BY <2>2, <2>3, BatchRows DEF BatchesTyped
  <2>5. left[k - 1] \in Nat
    BY <2>4
  <2>6. left[k] \in Nat
    BY <1>4, <2>4, <2>5
  <2> QED BY <2>6
<1>6. \A i \in 0 .. Len(batch) : left[i] \in Nat
  BY <1>5
<1> QED BY <1>2, <1>3, <1>4, <1>6

\* The parts add up to what is taken.
LEMMA PartsAddUp ==
  ASSUME NEW n \in Nat, NEW left, \A i \in 0 .. n : left[i] \in Int
  PROVE  SumFunctionOnSet([i \in 1 .. n |-> left[i - 1] - left[i]], 1 .. n) = left[0] - left[n]
<1> DEFINE f == [i \in 1 .. n |-> left[i - 1] - left[i]]
           bad == {k \in 0 .. n : SumFunctionOnSet(f, 1 .. k) # left[0] - left[k]}
<1>1. \A i \in 1 .. n : f[i] = left[i - 1] - left[i] /\ f[i] \in Int
  OBVIOUS
<1> HIDE DEF f
<1>2. bad = {}
  <2> SUFFICES ASSUME bad # {} PROVE FALSE
    OBVIOUS
  <2>2. PICK k \in bad : \A j \in bad : k <= j
    <3>1. bad \in SUBSET Nat
      OBVIOUS
    <3> HIDE DEF bad
    <3> QED BY <3>1, LeastNat
  <2>3. k # 0
    <3>1. 1 .. 0 = {} /\ left[0] \in Int
      OBVIOUS
    <3> QED BY <3>1, SumEmpty
  <2>4. k \in 1 .. n /\ k - 1 \in 0 .. n /\ k - 1 \notin bad
    BY <2>2, <2>3
  <2>5. SumFunctionOnSet(f, 1 .. (k - 1)) = left[0] - left[k - 1]
    BY <2>4
  <2>6. (1 .. (k - 1)) \cup {k} = 1 .. k /\ k \notin 1 .. (k - 1)
    BY <2>4
  <2>7. IsFiniteSet(1 .. (k - 1)) /\ \A i \in 1 .. (k - 1) : f[i] \in Int
    BY <1>1, <2>4, FS_Interval
  <2>8. f[k] = left[k - 1] - left[k] /\ f[k] \in Int
    BY <1>1, <2>4
  <2>9. SumFunctionOnSet(f, (1 .. (k - 1)) \cup {k}) = SumFunctionOnSet(f, 1 .. (k - 1)) + f[k]
    BY <2>6, <2>7, <2>8, SumAdd
  <2>10. left[0] \in Int /\ left[k] \in Int /\ left[k - 1] \in Int
    BY <2>4
  <2>11. SumFunctionOnSet(f, 1 .. k) = SumFunctionOnSet(f, 1 .. (k - 1)) + f[k]
    BY <2>6, <2>9
  <2>12. left[0] - left[k - 1] + (left[k - 1] - left[k]) = left[0] - left[k]
    BY <2>10
  <2>13. SumFunctionOnSet(f, 1 .. k) = left[0] - left[k]
    BY <2>5, <2>8, <2>11, <2>12
  <2> QED BY <2>13
<1>3. n \in 0 .. n /\ n \notin bad
  BY <1>2
<1>4. SumFunctionOnSet(f, 1 .. n) = left[0] - left[n]
  BY <1>3
<1> QED BY <1>4 DEF f

-----------------------------------------------------------------------------
(* Coins: the inductive invariant. *)

CoinShape == CoinTypeOK /\ IsFiniteSet(BagToSet(entries))

\* A handler that is about to enter the credit of a batch.
Crediting(r) == work[r].op = "enter" /\ work[r].entry.type \in {"earn", "refund"}

\* A credit on its way is its batch's only one, and for the full amount.
InFlight ==
  \A r \in CoinHandlers : Crediting(r) =>
    LET e == work[r].entry IN
    /\ r \in Callers
    /\ e.batch \in DOMAIN batch /\ e.amount = batch[e.batch].earned
    /\ \A s \in CoinHandlers : Crediting(s) /\ work[s].entry.batch = e.batch => s = r
    /\ \A f \in BagToSet(entries) : ~ Credits(f, e.batch)

\* So is a credit in the ledger.
InLedger ==
  \A e \in BagToSet(entries) : e.type \in {"earn", "refund"} =>
    /\ e.batch \in DOMAIN batch /\ e.amount = batch[e.batch].earned
    /\ entries[e] = 1
    /\ \A f \in BagToSet(entries) : Credits(f, e.batch) => f = e

\* Every batch has one or the other, unless it is torn.
Backed ==
  \A i \in DOMAIN batch \ torn :
    \/ \E r \in CoinHandlers : Crediting(r) /\ work[r].entry.batch = i
    \/ \E e \in BagToSet(entries) : Credits(e, i)

CoinBooks == InFlight /\ InLedger /\ Backed

Redeemed == SumFunctionOnSet(Worth, Booked("redeem"))
Unspent  == SumFunctionOnSet(Remaining, DOMAIN batch)
Issued   == SumFunctionOnSet(Earned, DOMAIN batch)

CoinInv == CoinShape /\ ClosedIsEmpty /\ SpentWithinIssued /\ CoinBooks

-----------------------------------------------------------------------------
(* Coins: types. *)

LEMMA ShapeFacts ==
  ASSUME CoinShape
  PROVE  /\ BatchesTyped
         /\ DOMAIN batch = 1 .. Len(batch) /\ DOMAIN batch \subseteq BatchIds
         /\ IsFiniteSet(DOMAIN batch)
         /\ \A i \in DOMAIN batch :
              batch[i] \in Batch /\ batch[i].remaining \in Nat /\ batch[i].earned \in Nat
         /\ \A r \in CoinHandlers : work[r] \in CoinJob
         /\ \A e \in BagToSet(entries) : e \in CoinEntry /\ e.amount \in Nat
                                         /\ entries[e] \in Nat
         /\ DOMAIN work = CoinHandlers
<1>1. BatchesTyped
  BY LenProperties, CoinAssumption DEF BatchesTyped, CoinShape, CoinTypeOK
<1>2. \A r \in CoinHandlers : work[r] \in CoinJob
  BY DEF CoinShape, CoinTypeOK
<1>3. \A e \in BagToSet(entries) : e \in CoinEntry /\ e.amount \in Nat /\ entries[e] \in Nat
  BY DEF CoinShape, CoinTypeOK, CoinEntry, IsABag, BagToSet
<1>4. DOMAIN work = CoinHandlers
  BY DEF CoinShape, CoinTypeOK
<1> QED BY <1>1, <1>2, <1>3, <1>4, BatchRows

LEMMA InitialCoins == CoinInit => CoinInv
<1> SUFFICES ASSUME CoinInit PROVE CoinInv
  OBVIOUS
<1>1. batch = <<>> /\ Len(batch) = 0 /\ DOMAIN batch = {} /\ batch \in Seq(Batch)
  BY DEF CoinInit
<1>2. DOMAIN entries = {} /\ IsABag(entries)
  BY DEF CoinInit, EmptyBag, SetToBag, IsABag
<1>3. work \in [CoinHandlers -> CoinJob]
  BY CoinJobs DEF CoinInit
<1>4. CoinTypeOK
  BY <1>1, <1>2, <1>3, CoinAssumption DEF CoinTypeOK, CoinInit, BagToSet
<1>5. CoinShape
  BY <1>2, <1>4, FS_EmptySet DEF CoinShape, BagToSet
<1>6. ClosedIsEmpty
  BY <1>1 DEF ClosedIsEmpty
<1>7. SpentWithinIssued
  <2>1. Booked("redeem") = {}
    BY <1>2 DEF Booked, BagToSet
  <2>2. SumFunctionOnSet(Worth, {}) = 0 /\ SumFunctionOnSet(Remaining, {}) = 0
        /\ SumFunctionOnSet(Earned, {}) = 0
    BY SumEmpty
  <2>3. Redeemed = 0 /\ Unspent = 0 /\ Issued = 0
    BY <1>1, <2>1, <2>2 DEF Redeemed, Unspent, Issued
  <2> QED BY <2>3 DEF SpentWithinIssued, Redeemed, Unspent, Issued
<1>8. CoinBooks
  <2>1. \A r \in CoinHandlers : ~ Crediting(r)
    BY DEF Crediting, CoinInit, AtRest
  <2> QED BY <1>1, <1>2, <2>1 DEF CoinBooks, InFlight, InLedger, Backed, BagToSet
<1> QED BY <1>5, <1>6, <1>7, <1>8 DEF CoinInv

\* A step that leaves the batches and the ledger: one handler goes on.
LEMMA CoinJobKept ==
  ASSUME CoinShape, NEW r \in CoinHandlers, NEW job \in CoinJob, Do(r, job)
  PROVE  /\ work' \in [CoinHandlers -> CoinJob]
         /\ work'[r] = job
         /\ \A s \in CoinHandlers : s # r => work'[s] = work[s]
  BY DEF Do, CoinShape, CoinTypeOK

\* Rows keep their type when each is rewritten in place.
LEMMA RowsKept ==
  ASSUME CoinShape, NEW row, \A i \in DOMAIN batch : row[i] \in Batch,
         batch' = [i \in DOMAIN batch |-> row[i]]
  PROVE  /\ batch' \in Seq(Batch) /\ Len(batch') = Len(batch) /\ Len(batch') <= MaxBatches
         /\ DOMAIN batch' = DOMAIN batch
         /\ \A i \in DOMAIN batch : batch'[i] = row[i]
<1>1. DOMAIN batch = 1 .. Len(batch) /\ Len(batch) \in Nat /\ Len(batch) <= MaxBatches
  BY ShapeFacts DEF BatchesTyped
<1>2. batch' \in [1 .. Len(batch) -> Batch]
  BY <1>1
<1>3. batch' \in Seq(Batch)
  BY <1>1, <1>2, SeqDef
<1>4. Len(batch') \in Nat /\ DOMAIN batch' = 1 .. Len(batch')
  BY <1>3, LenProperties
<1>5. 1 .. Len(batch') = 1 .. Len(batch)
  BY <1>1, <1>2, <1>4
<1>6. Len(batch') = Len(batch)
  BY <1>1, <1>4, <1>5
<1> QED BY <1>1, <1>3, <1>6

-----------------------------------------------------------------------------
(* Coins: sums. *)

LEMMA SumsAreInt ==
  ASSUME CoinShape
  PROVE  /\ Unspent \in Nat /\ Issued \in Nat /\ Redeemed \in Nat
         /\ IsFiniteSet(Booked("redeem"))
         /\ \A e \in BagToSet(entries) : Worth[e] = e.amount * entries[e] /\ Worth[e] \in Nat
<1>1. \A i \in DOMAIN batch : Remaining[i] \in Nat /\ Earned[i] \in Nat
  BY ShapeFacts DEF Remaining, Earned
<1>2. Unspent \in Nat /\ Issued \in Nat
  BY <1>1, ShapeFacts, SumNat DEF Unspent, Issued
<1>3. ASSUME NEW e \in BagToSet(entries)
      PROVE  Worth[e] = e.amount * entries[e] /\ Worth[e] \in Nat
  <2>1. e.amount \in Nat /\ entries[e] \in Nat
    BY ShapeFacts
  <2> QED BY <2>1 DEF Worth
<1>4. IsFiniteSet(Booked("redeem")) /\ Booked("redeem") \subseteq BagToSet(entries)
  BY FS_Subset DEF Booked, CoinShape
<1>5. Redeemed \in Nat
  BY <1>3, <1>4, SumNat DEF Redeemed
<1> QED BY <1>2, <1>3, <1>4, <1>5

\* An entry that is no redemption leaves what was redeemed.
LEMMA OtherEntry ==
  ASSUME CoinShape, CoinShape', NEW e \in CoinEntry, Enter(e), e.type # "redeem"
  PROVE  Redeemed' = Redeemed
<1>1. /\ BagToSet(entries)' = BagToSet(entries) \cup {e}
      /\ \A f \in BagToSet(entries) : f # e => entries'[f] = entries[f]
  BY Adding DEF CoinShape, CoinTypeOK, BagToSet
<1>2. Booked("redeem")' = Booked("redeem")
  BY <1>1 DEF Booked
<1>3. \A f \in Booked("redeem") : f \in BagToSet(entries) /\ f \in BagToSet(entries)' /\ f # e
  BY <1>1 DEF Booked
<1>4. \A f \in Booked("redeem") : Worth[f] = f.amount * entries[f] /\ Worth[f] \in Int
  BY <1>3, SumsAreInt
<1>5. \A f \in Booked("redeem") : Worth'[f] = f.amount * entries'[f]
  BY <1>3 DEF Worth
<1>6. \A f \in Booked("redeem") : Worth[f] = Worth'[f] /\ Worth[f] \in Int
  BY <1>1, <1>3, <1>4, <1>5
<1>7. SumFunctionOnSet(Worth, Booked("redeem")) = SumFunctionOnSet(Worth', Booked("redeem"))
  BY <1>6, SumsAreInt, SumSame
<1> QED BY <1>2, <1>7 DEF Redeemed

LEMMA OneMore == \A a, n \in Nat : a * (n + 1) = a * n + a
  OBVIOUS

\* A redemption adds its amount, be it the first of its kind or one more.
LEMMA RedeemEntry ==
  ASSUME CoinShape, CoinShape', NEW e \in CoinEntry, Enter(e), e.type = "redeem"
  PROVE  Redeemed' = Redeemed + e.amount
<1> DEFINE S == Booked("redeem")
           f == Worth
           g == Worth'
<1>1. /\ BagToSet(entries)' = BagToSet(entries) \cup {e}
      /\ \A x \in BagToSet(entries) : x # e => entries'[x] = entries[x]
      /\ entries'[e] = IF e \in BagToSet(entries) THEN entries[e] + 1 ELSE 1
  BY Adding DEF CoinShape, CoinTypeOK, BagToSet
<1>2. Booked("redeem")' = S \cup {e} /\ S \subseteq BagToSet(entries) /\ IsFiniteSet(S)
  BY <1>1, SumsAreInt DEF Booked
<1>3. e.amount \in Nat
  BY DEF CoinEntry
<1>4. \A x \in S : f[x] = x.amount * entries[x] /\ f[x] \in Int
  BY <1>2, SumsAreInt
<1>5. \A x \in S \cup {e} : g[x] = x.amount * entries'[x]
  BY <1>1, <1>2 DEF Worth
<1>6. \A x \in S \ {e} : g[x] = f[x]
  BY <1>1, <1>2, <1>4, <1>5
<1>7. Redeemed = SumFunctionOnSet(f, S) /\ Redeemed' = SumFunctionOnSet(g, S \cup {e})
  BY <1>2 DEF Redeemed
<1>8. CASE e \in S
  <2>1. entries[e] \in Nat /\ entries'[e] = entries[e] + 1
    BY <1>1, <1>2, <1>8, ShapeFacts
  <2>2. e.amount * (entries[e] + 1) = e.amount * entries[e] + e.amount
    BY <1>3, <2>1, OneMore
  <2>3. g[e] = f[e] + e.amount /\ g[e] \in Int
    BY <1>3, <1>4, <1>5, <1>8, <2>1, <2>2
  <2>4. \A x \in S : f[x] \in Int /\ g[x] \in Int
    BY <1>4, <1>6, <2>3
  <2> HIDE DEF f, g, S
  <2>5. SumFunctionOnSet(g, S) = SumFunctionOnSet(f, S) + g[e] - f[e]
    BY <1>2, <1>6, <1>8, <2>4, SumChange
  <2>6. S \cup {e} = S
    BY <1>8
  <2>7. f[e] \in Int /\ SumFunctionOnSet(f, S) \in Int
    BY <1>2, <1>8, <2>4, SumType
  <2>8. Redeemed' = SumFunctionOnSet(g, S)
    BY <1>7, <2>6
  <2> QED BY <1>3, <1>7, <2>3, <2>5, <2>7, <2>8
<1>9. CASE e \notin S
  <2>1. e \notin BagToSet(entries)
    BY <1>9 DEF Booked
  <2>2. g[e] = e.amount
    BY <1>1, <1>3, <1>5, <2>1
  <2>3. \A x \in S : g[x] = f[x] /\ f[x] \in Int /\ g[x] \in Int
    BY <1>4, <1>6, <1>9
  <2> HIDE DEF f, g, S
  <2>4. SumFunctionOnSet(g, S \cup {e}) = SumFunctionOnSet(g, S) + g[e]
    BY <1>2, <1>3, <1>9, <2>2, <2>3, SumAdd
  <2>5. SumFunctionOnSet(g, S) = SumFunctionOnSet(f, S)
    BY <1>2, <2>3, SumSame
  <2> QED BY <1>7, <2>2, <2>4, <2>5
<1> QED BY <1>8, <1>9

\* Batches rewritten in place, none of which gains.
LEMMA NoneGains ==
  ASSUME CoinShape, CoinShape', DOMAIN batch' = DOMAIN batch,
         \A i \in DOMAIN batch : /\ batch'[i].earned = batch[i].earned
                                 /\ batch'[i].remaining <= batch[i].remaining
  PROVE  Issued' = Issued /\ Unspent' <= Unspent /\ Unspent' \in Int
<1>1. \A i \in DOMAIN batch : Earned'[i] = Earned[i] /\ Earned[i] \in Int
  BY ShapeFacts DEF Earned
<1>2. Issued' = SumFunctionOnSet(Earned', DOMAIN batch)
      /\ Unspent' = SumFunctionOnSet(Remaining', DOMAIN batch)
  BY DEF Issued, Unspent
<1>3. SumFunctionOnSet(Earned, DOMAIN batch) = SumFunctionOnSet(Earned', DOMAIN batch)
  BY <1>1, ShapeFacts, SumSame
<1>4. \A i \in DOMAIN batch' : batch'[i].remaining \in Nat
  <2>1. batch' \in Seq(Batch)
    BY DEF CoinShape, CoinTypeOK
  <2>2. \A i \in DOMAIN batch' : batch'[i] \in Batch
    BY <2>1, LenProperties, ElementOfSeq
  <2> QED BY <2>2 DEF Batch
<1>5. \A i \in DOMAIN batch : Remaining'[i] = batch'[i].remaining /\ Remaining[i] = batch[i].remaining
  BY DEF Remaining
<1>6. \A i \in DOMAIN batch : Remaining'[i] \in Int /\ Remaining[i] \in Int /\ Remaining'[i] <= Remaining[i]
  BY <1>4, <1>5, ShapeFacts
<1>7. SumFunctionOnSet(Remaining', DOMAIN batch) <= SumFunctionOnSet(Remaining, DOMAIN batch)
  BY <1>6, ShapeFacts, SumMonotone
<1>8. SumFunctionOnSet(Remaining', DOMAIN batch) \in Int
  BY <1>6, ShapeFacts, SumType
<1> QED BY <1>2, <1>3, <1>7, <1>8 DEF Issued, Unspent

\* Such a step, with no redemption in it, spends nothing.
LEMMA SpendsNothing ==
  ASSUME CoinShape, CoinShape', SpentWithinIssued, DOMAIN batch' = DOMAIN batch,
         \A i \in DOMAIN batch : /\ batch'[i].earned = batch[i].earned
                                 /\ batch'[i].remaining <= batch[i].remaining,
         Redeemed' = Redeemed
  PROVE  SpentWithinIssued'
<1>1. Issued' = Issued /\ Unspent' <= Unspent /\ Unspent' \in Int
  BY NoneGains
<1>2. Redeemed + Unspent <= Issued
  BY DEF SpentWithinIssued, Redeemed, Unspent, Issued
<1>3. Redeemed \in Nat /\ Unspent \in Nat /\ Issued \in Nat
  BY SumsAreInt
<1>4. \A a, b, c, d \in Int : a + b <= c /\ d <= b => a + d <= c
  OBVIOUS
<1>5. Redeemed + Unspent' <= Issued
  <2>1. Redeemed \in Int /\ Unspent \in Int /\ Issued \in Int /\ Unspent' \in Int
    BY <1>1, <1>3
  <2>2. Unspent' <= Unspent
    BY <1>1
  <2> QED BY <1>2, <1>4, <2>1, <2>2
<1>6. Redeemed' + Unspent' <= Issued'
  BY <1>1, <1>5
<1> QED BY <1>6 DEF SpentWithinIssued, Redeemed, Unspent, Issued

\* Steps that neither add a batch nor enter a credit keep the books.
LEMMA BooksKept ==
  ASSUME CoinBooks, DOMAIN batch' = DOMAIN batch,
         \A i \in DOMAIN batch : batch'[i].earned = batch[i].earned,
         \A e \in BagToSet(entries) : e.type \in {"earn", "refund"} =>
            e \in BagToSet(entries)' /\ entries'[e] = entries[e],
         \A e \in BagToSet(entries)' : e.type \in {"earn", "refund"} => e \in BagToSet(entries),
         \A r \in CoinHandlers : Crediting(r)' => Crediting(r) /\ work'[r].entry = work[r].entry,
         torn \subseteq torn',
         \A r \in CoinHandlers : Crediting(r) => Crediting(r)' \/ work[r].entry.batch \in torn'
  PROVE  CoinBooks'
<1>1. InFlight'
  BY DEF InFlight, CoinBooks, Credits
<1>2. InLedger'
  BY DEF InLedger, CoinBooks, Credits
<1>3. Backed'
  <2> SUFFICES ASSUME NEW i \in DOMAIN batch \ torn'
               PROVE  \/ \E r \in CoinHandlers : Crediting(r)' /\ work'[r].entry.batch = i
                      \/ \E e \in BagToSet(entries)' : Credits(e, i)
    BY DEF Backed
  <2>1. i \in DOMAIN batch \ torn
    OBVIOUS
  <2>2. CASE \E r \in CoinHandlers : Crediting(r) /\ work[r].entry.batch = i
    BY <2>2
  <2>3. CASE \E e \in BagToSet(entries) : Credits(e, i)
    BY <2>3 DEF Credits
  <2> QED BY <2>1, <2>2, <2>3 DEF CoinBooks, Backed
<1> QED BY <1>1, <1>2, <1>3 DEF CoinBooks

-----------------------------------------------------------------------------
(* Coins: the steps. *)

\* A handler goes on, is answered or fails: no batch and no entry is written.
LEMMA OnlyWork ==
  ASSUME CoinInv, NEW r \in CoinHandlers, NEW job \in CoinJob, Do(r, job), job.op # "enter",
         UNCHANGED <<batch, entries>>, accepted' \in Nat,
         torn \subseteq torn', torn' \subseteq BatchIds,
         Crediting(r) => work[r].entry.batch \in torn'
  PROVE  CoinInv'
<1>1. /\ work' \in [CoinHandlers -> CoinJob] /\ work'[r] = job
      /\ \A s \in CoinHandlers : s # r => work'[s] = work[s]
  BY CoinJobKept DEF CoinInv
<1>2. CoinShape'
  BY <1>1 DEF CoinInv, CoinShape, CoinTypeOK, BagToSet
<1>3. ClosedIsEmpty' /\ SpentWithinIssued'
  BY DEF CoinInv, ClosedIsEmpty, SpentWithinIssued, Worth, Booked, Remaining, Earned, BagToSet
<1>4. CoinBooks'
  <2>1. \A s \in CoinHandlers : Crediting(s)' => Crediting(s) /\ work'[s].entry = work[s].entry
    BY <1>1 DEF Crediting
  <2>2. \A s \in CoinHandlers : Crediting(s) => Crediting(s)' \/ work[s].entry.batch \in torn'
    BY <1>1 DEF Crediting
  <2> QED BY <2>1, <2>2, BooksKept DEF CoinInv, BagToSet
<1> QED BY <1>2, <1>3, <1>4 DEF CoinInv

LEMMA NotCrediting ==
  ASSUME NEW r, work[r].op # "enter"
  PROVE  ~ Crediting(r)
  BY DEF Crediting

LEMMA BeginCreditCoins ==
  ASSUME CoinInv, NEW r \in Callers, NEW type \in {"earn", "refund"}, NEW o \in CoinOrders,
         BeginCredit(r, type, o)
  PROVE  CoinInv'
<1> DEFINE job == [op |-> "create", type |-> type, order |-> o]
<1>1. job \in CoinJob /\ job.op # "enter" /\ r \in CoinHandlers
  BY CoinJobs DEF CoinHandlers
<1>2. ~ Crediting(r)
  BY NotCrediting DEF BeginCredit, AcceptCall, AtRest
<1>3. Do(r, job) /\ UNCHANGED <<batch, entries>> /\ torn' = torn /\ accepted' = accepted + 1
  BY DEF BeginCredit, AcceptCall
<1>4. accepted' \in Nat /\ torn' \subseteq BatchIds
  BY <1>3 DEF CoinInv, CoinShape, CoinTypeOK
<1> HIDE DEF job
<1> QED BY <1>1, <1>2, <1>3, <1>4, OnlyWork

LEMMA BeginReverseCoins ==
  ASSUME CoinInv, NEW r \in Callers, NEW o \in CoinOrders, BeginReverse(r, o)
  PROVE  CoinInv'
<1> DEFINE job == [op |-> "lookup", order |-> o]
<1>1. job \in CoinJob /\ job.op # "enter" /\ r \in CoinHandlers
  BY CoinJobs DEF CoinHandlers
<1>2. ~ Crediting(r)
  BY NotCrediting DEF BeginReverse, AcceptCall, AtRest
<1>3. Do(r, job) /\ UNCHANGED <<batch, entries>> /\ torn' = torn /\ accepted' = accepted + 1
  BY DEF BeginReverse, AcceptCall
<1>4. accepted' \in Nat /\ torn' \subseteq BatchIds
  BY <1>3 DEF CoinInv, CoinShape, CoinTypeOK
<1> HIDE DEF job
<1> QED BY <1>1, <1>2, <1>3, <1>4, OnlyWork

LEMMA ValidateCoins ==
  ASSUME CoinInv, NEW r \in Callers, NEW want \in Wants, ValidateRedemption(r, want)
  PROVE  CoinInv'
<1> DEFINE n == Least(want, getActiveBalance)
           job == [op |-> "find", amount |-> n]
<1>1. n \in Nat
  <2> DEFINE S == {i \in DOMAIN batch : Spendable(i)}
  <2>1. IsFiniteSet(S) /\ S \subseteq DOMAIN batch
    BY ShapeFacts, FS_Subset DEF CoinInv
  <2>2. \A i \in S : Remaining[i] \in Nat
    BY <2>1, ShapeFacts DEF CoinInv, Remaining
  <2> HIDE DEF S
  <2>3. SumFunctionOnSet(Remaining, S) \in Nat
    BY <2>1, <2>2, SumNat
  <2>4. getActiveBalance \in Nat
    BY <2>3 DEF getActiveBalance, S
  <2>5. want \in Nat
    BY CoinAssumption
  <2> QED BY <2>4, <2>5 DEF Least
<1> HIDE DEF n
<1>2. job \in CoinJob /\ job.op # "enter" /\ r \in CoinHandlers
  BY <1>1, CoinJobs DEF CoinHandlers
<1>3. ~ Crediting(r)
  BY NotCrediting DEF ValidateRedemption, AcceptCall, AtRest
<1>4. Do(r, job) /\ UNCHANGED <<batch, entries>> /\ torn' = torn /\ accepted' = accepted + 1
  BY DEF ValidateRedemption, AcceptCall, n
<1>5. accepted' \in Nat /\ torn' \subseteq BatchIds
  BY <1>4 DEF CoinInv, CoinShape, CoinTypeOK
<1> HIDE DEF job
<1> QED BY <1>2, <1>3, <1>4, <1>5, OnlyWork

LEMMA HeldAsRead ==
  ASSUME CoinShape, NEW i \in DOMAIN batch
  PROVE  AsRead(i) \in Held
  BY ShapeFacts DEF AsRead, Held

LEMMA LookupCoins ==
  ASSUME CoinInv, NEW r \in Callers, Lookup(r)
  PROVE  CoinInv'
<1>1. r \in CoinHandlers /\ ~ Crediting(r)
  BY NotCrediting DEF Lookup, CoinHandlers
<1>2. UNCHANGED <<batch, entries>> /\ torn' = torn /\ accepted' = accepted
  BY DEF Lookup
<1>3. accepted' \in Nat /\ torn' \subseteq BatchIds
  BY <1>2 DEF CoinInv, CoinShape, CoinTypeOK
<1>4. work[r].order \in CoinOrders
  BY <1>1, ShapeFacts, CoinJobFacts DEF CoinInv, Lookup
<1>5. PICK job : /\ Do(r, job)
                 /\ \/ job = AtRest
                    \/ \E i \in DOMAIN batch :
                         job = [op |-> "reverse", order |-> work[r].order, held |-> AsRead(i)]
  BY DEF Lookup
<1>6. job \in CoinJob /\ job.op # "enter"
  BY <1>4, <1>5, CoinJobs, HeldAsRead DEF CoinInv, AtRest
<1> QED BY <1>1, <1>2, <1>3, <1>5, <1>6, OnlyWork

LEMMA FindCoins ==
  ASSUME CoinInv, NEW r \in Callers, FindBatches(r)
  PROVE  CoinInv'
<1> DEFINE found == [i \in BatchIds |-> IF i \in DOMAIN batch /\ Spendable(i)
                                        THEN batch[i].remaining ELSE 0]
           job == [op |-> "consume", amount |-> work[r].amount, found |-> found]
<1>1. r \in CoinHandlers /\ ~ Crediting(r)
  BY NotCrediting DEF FindBatches, CoinHandlers
<1>2. Do(r, job) /\ UNCHANGED <<batch, entries>> /\ torn' = torn /\ accepted' = accepted
  BY DEF FindBatches
<1>3. accepted' \in Nat /\ torn' \subseteq BatchIds
  BY <1>2 DEF CoinInv, CoinShape, CoinTypeOK
<1>4. work[r].amount \in Nat
  BY <1>1, ShapeFacts, CoinJobFacts DEF CoinInv, FindBatches
<1>5. found \in [BatchIds -> Nat]
  BY ShapeFacts DEF CoinInv
<1> HIDE DEF found
<1>6. job \in CoinJob /\ job.op # "enter"
  BY <1>4, <1>5, CoinJobs
<1> HIDE DEF job
<1> QED BY <1>1, <1>2, <1>3, <1>6, OnlyWork

LEMMA SweepReadCoins ==
  ASSUME CoinInv, SweepRead
  PROVE  CoinInv'
<1>1. PICK found \in SUBSET DOMAIN batch :
        Do(Cron, [op |-> "sweep", todo |-> {AsRead(i) : i \in found}])
  BY DEF SweepRead
<1> DEFINE todo == {AsRead(i) : i \in found}
           job == [op |-> "sweep", todo |-> todo]
<1>2. Cron \in CoinHandlers /\ ~ Crediting(Cron)
  BY NotCrediting DEF SweepRead, CoinHandlers, AtRest
<1>3. UNCHANGED <<batch, entries>> /\ torn' = torn /\ accepted' = accepted
  BY DEF SweepRead
<1>4. accepted' \in Nat /\ torn' \subseteq BatchIds
  BY <1>3 DEF CoinInv, CoinShape, CoinTypeOK
<1>5. todo \in SUBSET Held
  BY HeldAsRead DEF CoinInv
<1> HIDE DEF todo
<1>6. job \in CoinJob /\ job.op # "enter"
  BY <1>5, CoinJobs
<1>7. Do(Cron, job)
  BY <1>1 DEF todo
<1> HIDE DEF job
<1> QED BY <1>2, <1>3, <1>4, <1>6, <1>7, OnlyWork

\* A credit that a failure drops leaves its batch torn.
LEMMA FailCoins ==
  ASSUME CoinInv, NEW r \in CoinHandlers, CoinFail(r)
  PROVE  CoinInv'
<1>1. AtRest \in CoinJob /\ AtRest.op # "enter"
  BY CoinJobs DEF AtRest
<1>2. Do(r, AtRest) /\ UNCHANGED <<batch, entries>> /\ accepted' = accepted
      /\ torn' = IF work[r].op = "enter" THEN torn \cup {work[r].entry.batch} ELSE torn
  BY DEF CoinFail
<1>3. accepted' \in Nat
  BY <1>2 DEF CoinInv, CoinShape, CoinTypeOK
<1>4. torn \subseteq torn'
  BY <1>2
<1>5. torn \subseteq BatchIds
  BY DEF CoinInv, CoinShape, CoinTypeOK
<1>6. torn' \subseteq BatchIds
  <2>1. work[r].op = "enter" => work[r].entry.batch \in BatchIds
    BY ShapeFacts, CoinJobFacts DEF CoinInv
  <2> QED BY <1>2, <1>5, <2>1
<1>7. Crediting(r) => work[r].entry.batch \in torn'
  BY <1>2 DEF Crediting
<1> QED BY <1>1, <1>2, <1>3, <1>4, <1>6, <1>7, OnlyWork

LEMMA CreateCoins ==
  ASSUME CoinInv, NEW r \in Callers, CreateBatch(r)
  PROVE  CoinInv'
<1>1. r \in CoinHandlers /\ work[r] \in CoinJob /\ work[r].op = "create" /\ ~ Crediting(r)
  BY ShapeFacts, NotCrediting DEF CoinInv, CreateBatch, CoinHandlers
<1>2. PICK type \in {"earn", "refund"}, o \in CoinOrders :
        type = work[r].type /\ o = work[r].order
  BY <1>1, CoinJobFacts
<1>3. PICK n \in Nat : n = Credited(type, o)
  BY CoinAssumption DEF Credited
<1>4. PICK k \in Nat : k = Len(batch) + 1
  BY ShapeFacts DEF CoinInv, BatchesTyped
<1> DEFINE new == [source |-> IF type = "earn" THEN o ELSE NoOrder, earned |-> n, remaining |-> n,
                   due |-> FALSE, status |-> "active"]
           e == [type |-> type, order |-> o, batch |-> k, amount |-> n]
           job == [op |-> "enter", entry |-> e]
<1>5. new \in Batch /\ new.earned = n /\ new.remaining = n /\ new.status = "active"
  BY DEF Batch
<1>6. k \in BatchIds /\ k \notin DOMAIN batch /\ k >= 1 /\ k <= MaxBatches
  BY <1>4, ShapeFacts DEF CreateBatch, BatchIds, CoinInv, BatchesTyped
<1>7. e \in OrderEntry /\ e.batch = k /\ e.amount = n /\ e.type \in {"earn", "refund"}
  BY <1>6 DEF OrderEntry, CoinEntry
<1>8. batch' = Append(batch, new) /\ Do(r, job) /\ UNCHANGED <<entries, accepted, torn>>
  BY <1>2, <1>3, <1>4 DEF CreateBatch
<1> HIDE DEF new, e
<1>9. job \in CoinJob /\ job.op = "enter" /\ job.entry = e
  BY <1>7, CoinJobs
<1> HIDE DEF job
<1>10. /\ batch' \in Seq(Batch) /\ Len(batch') = k
       /\ DOMAIN batch' = DOMAIN batch \cup {k}
       /\ \A i \in DOMAIN batch : batch'[i] = batch[i]
       /\ batch'[k] = new
  <2>1. batch \in Seq(Batch) /\ Len(batch) \in Nat /\ DOMAIN batch = 1 .. Len(batch)
    BY ShapeFacts DEF CoinInv, BatchesTyped
  <2>2. /\ batch' \in Seq(Batch) /\ Len(batch') = Len(batch) + 1
        /\ \A i \in 1 .. Len(batch) : batch'[i] = batch[i]
        /\ batch'[Len(batch) + 1] = new
    BY <1>5, <1>8, <2>1, AppendProperties
  <2>3. DOMAIN batch' = 1 .. k
    BY <1>4, <2>2, LenProperties
  <2> QED BY <1>4, <2>1, <2>2, <2>3
<1>11. /\ work' \in [CoinHandlers -> CoinJob] /\ work'[r] = job
       /\ \A s \in CoinHandlers : s # r => work'[s] = work[s]
  BY <1>1, <1>8, <1>9, CoinJobKept DEF CoinInv
<1>12. CoinShape'
  BY <1>6, <1>8, <1>10, <1>11 DEF CoinInv, CoinShape, CoinTypeOK, BagToSet
<1>13. ClosedIsEmpty'
  BY <1>5, <1>10 DEF CoinInv, ClosedIsEmpty
<1>14. SpentWithinIssued'
  <2> DEFINE S == DOMAIN batch
  <2>1. /\ \A i \in S : Remaining'[i] = Remaining[i] /\ Earned'[i] = Earned[i]
        /\ Remaining'[k] = n /\ Earned'[k] = n
    BY <1>5, <1>10 DEF Remaining, Earned
  <2>2. \A i \in S : Remaining[i] \in Int /\ Earned[i] \in Int
    BY ShapeFacts DEF CoinInv, Remaining, Earned
  <2>3. IsFiniteSet(S) /\ k \notin S
    BY <1>6, ShapeFacts DEF CoinInv
  <2>4. Unspent' = SumFunctionOnSet(Remaining', S \cup {k})
        /\ Issued' = SumFunctionOnSet(Earned', S \cup {k})
    BY <1>10 DEF Unspent, Issued
  <2>5. Unspent = SumFunctionOnSet(Remaining, S) /\ Issued = SumFunctionOnSet(Earned, S)
    BY DEF Unspent, Issued
  <2> HIDE DEF S
  <2>6. SumFunctionOnSet(Remaining', S \cup {k}) = SumFunctionOnSet(Remaining', S) + n
    BY <2>1, <2>2, <2>3, SumAdd
  <2>7. SumFunctionOnSet(Earned', S \cup {k}) = SumFunctionOnSet(Earned', S) + n
    BY <2>1, <2>2, <2>3, SumAdd
  <2>8. SumFunctionOnSet(Remaining', S) = SumFunctionOnSet(Remaining, S)
    BY <2>1, <2>2, <2>3, SumSame
  <2>9. SumFunctionOnSet(Earned', S) = SumFunctionOnSet(Earned, S)
    BY <2>1, <2>2, <2>3, SumSame
  <2>10. Redeemed' = Redeemed
    BY <1>8 DEF Redeemed, Worth, Booked, BagToSet
  <2>11. Unspent' = Unspent + n /\ Issued' = Issued + n
    BY <2>4, <2>5, <2>6, <2>7, <2>8, <2>9
  <2>12. Redeemed + Unspent <= Issued /\ Redeemed \in Int /\ Unspent \in Int /\ Issued \in Int
    BY SumsAreInt DEF CoinInv, SpentWithinIssued, Redeemed, Unspent, Issued
  <2>13. \A a, b, c \in Int : a + b <= c => a + (b + n) <= c + n
    OBVIOUS
  <2>14. Redeemed + (Unspent + n) <= Issued + n
    BY <2>12, <2>13
  <2>15. Redeemed' + Unspent' <= Issued'
    BY <2>10, <2>11, <2>14
  <2> QED BY <2>15 DEF SpentWithinIssued, Redeemed, Unspent, Issued
<1>15. CoinBooks'
  <2>1. InFlight /\ InLedger /\ Backed
    BY DEF CoinInv, CoinBooks
  <2>2. \A s \in CoinHandlers : s # r => (Crediting(s)' <=> Crediting(s)) /\ work'[s] = work[s]
    BY <1>11 DEF Crediting
  <2>3. Crediting(r)' /\ work'[r].entry = e
    BY <1>7, <1>9, <1>11 DEF Crediting
  <2>4. BagToSet(entries)' = BagToSet(entries) /\ entries' = entries
    BY <1>8 DEF BagToSet
  <2>5. \A s \in CoinHandlers : Crediting(s) => work[s].entry.batch # k
    BY <1>6, <2>1 DEF InFlight
  <2>6. \A f \in BagToSet(entries) : ~ Credits(f, k)
    BY <1>6, <2>1 DEF InLedger, Credits
  <2>7. InFlight'
    <3> SUFFICES ASSUME NEW s \in CoinHandlers, Crediting(s)'
                 PROVE  LET f == work'[s].entry IN
                        /\ s \in Callers
                        /\ f.batch \in DOMAIN batch' /\ f.amount = batch'[f.batch].earned
                        /\ \A t \in CoinHandlers :
                             Crediting(t)' /\ work'[t].entry.batch = f.batch => t = s
                        /\ \A g \in BagToSet(entries)' : ~ Credits(g, f.batch)
      BY DEF InFlight, Credits
    <3>1. CASE s = r
      BY <1>5, <1>7, <1>10, <2>2, <2>3, <2>4, <2>5, <2>6, <3>1
    <3>2. CASE s # r
      <4>1. Crediting(s) /\ work'[s] = work[s] /\ work[s].entry.batch # k
        BY <2>2, <2>5, <3>2
      <4>2. LET f == work[s].entry IN
            /\ s \in Callers
            /\ f.batch \in DOMAIN batch /\ f.amount = batch[f.batch].earned
            /\ \A t \in CoinHandlers : Crediting(t) /\ work[t].entry.batch = f.batch => t = s
            /\ \A g \in BagToSet(entries) : ~ Credits(g, f.batch)
        BY <2>1, <4>1 DEF InFlight
      <4> QED BY <1>7, <1>10, <2>2, <2>3, <2>4, <4>1, <4>2
    <3> QED BY <3>1, <3>2
  <2>8. InLedger'
    BY <1>10, <2>1, <2>4 DEF InLedger, Credits
  <2>9. Backed'
    <3> SUFFICES ASSUME NEW i \in DOMAIN batch' \ torn'
                 PROVE  \/ \E s \in CoinHandlers : Crediting(s)' /\ work'[s].entry.batch = i
                        \/ \E f \in BagToSet(entries)' : Credits(f, i)
      BY DEF Backed, Credits
    <3>1. CASE i = k
      BY <1>1, <1>7, <2>3, <3>1
    <3>2. CASE i # k
      <4>1. i \in DOMAIN batch \ torn
        BY <1>8, <1>10, <3>2
      <4>2. \/ \E s \in CoinHandlers : Crediting(s) /\ work[s].entry.batch = i
            \/ \E f \in BagToSet(entries) : Credits(f, i)
        BY <2>1, <4>1 DEF Backed
      <4> QED BY <1>1, <2>2, <2>4, <4>2
    <3> QED BY <3>1, <3>2
  <2> QED BY <2>7, <2>8, <2>9 DEF CoinBooks
<1> QED BY <1>12, <1>13, <1>14, <1>15 DEF CoinInv

LEMMA EnterCoins ==
  ASSUME CoinInv, NEW r \in Callers, EnterLedger(r)
  PROVE  CoinInv'
<1>1. r \in CoinHandlers /\ work[r] \in CoinJob /\ work[r].op = "enter"
  BY ShapeFacts DEF CoinInv, EnterLedger, CoinHandlers
<1>2. PICK e \in CoinEntry : e = work[r].entry /\ e.type \in {"earn", "refund", "reverse_earn"}
  BY <1>1, CoinJobFacts
<1>3. Enter(e) /\ Do(r, AtRest) /\ UNCHANGED <<batch, accepted, torn>>
  BY <1>2 DEF EnterLedger
<1>4. /\ IsABag(entries') /\ IsFiniteSet(BagToSet(entries'))
      /\ BagToSet(entries') = BagToSet(entries) \cup {e}
      /\ BagToSet(entries') \subseteq CoinEntry
      /\ entries'[e] = IF e \in BagToSet(entries) THEN entries[e] + 1 ELSE 1
      /\ \A f \in BagToSet(entries) : f # e => entries'[f] = entries[f]
  BY <1>3, Adding DEF CoinInv, CoinShape, CoinTypeOK
<1>5. /\ work' \in [CoinHandlers -> CoinJob] /\ work'[r] = AtRest
      /\ \A s \in CoinHandlers : s # r => work'[s] = work[s]
  BY <1>1, <1>3, CoinJobs, CoinJobKept DEF CoinInv
<1>6. CoinShape'
  BY <1>3, <1>4, <1>5 DEF CoinInv, CoinShape, CoinTypeOK, BagToSet
<1>7. ClosedIsEmpty'
  BY <1>3 DEF CoinInv, ClosedIsEmpty
<1>8. SpentWithinIssued'
  <2>1. Redeemed' = Redeemed
    BY <1>2, <1>3, <1>6, OtherEntry DEF CoinInv
  <2>2. Unspent' = Unspent /\ Issued' = Issued
    BY <1>3 DEF Unspent, Issued, Remaining, Earned
  <2> QED BY <2>1, <2>2 DEF CoinInv, SpentWithinIssued, Redeemed, Unspent, Issued
<1>9. ~ Crediting(r)' /\ \A s \in CoinHandlers : Crediting(s)' => Crediting(s) /\ s # r /\ work'[s] = work[s]
  BY <1>5 DEF Crediting, AtRest
<1>10. BagToSet(entries)' = BagToSet(entries) \cup {e}
  BY <1>4 DEF BagToSet
<1>11. CoinBooks'
  <2>1. InFlight /\ InLedger /\ Backed
    BY DEF CoinInv, CoinBooks
  <2>2. CASE ~ Crediting(r)
    <3>1. e.type \notin {"earn", "refund"}
      BY <1>1, <1>2, <2>2 DEF Crediting
    <3>2. \A f \in BagToSet(entries) : f.type \in {"earn", "refund"} =>
            f \in BagToSet(entries)' /\ entries'[f] = entries[f]
      BY <1>4, <1>10, <3>1
    <3>3. \A f \in BagToSet(entries)' : f.type \in {"earn", "refund"} => f \in BagToSet(entries)
      BY <1>10, <3>1
    <3>4. \A s \in CoinHandlers : Crediting(s)' => Crediting(s) /\ work'[s].entry = work[s].entry
      BY <1>9
    <3>5. \A s \in CoinHandlers : Crediting(s) => Crediting(s)' \/ work[s].entry.batch \in torn'
      BY <1>5, <2>2 DEF Crediting
    <3> QED BY <1>3, <3>2, <3>3, <3>4, <3>5, BooksKept DEF CoinInv
  <2>3. CASE Crediting(r)
    <3>1. /\ e.type \in {"earn", "refund"}
          /\ e.batch \in DOMAIN batch /\ e.amount = batch[e.batch].earned
          /\ \A s \in CoinHandlers : Crediting(s) /\ work[s].entry.batch = e.batch => s = r
          /\ \A f \in BagToSet(entries) : ~ Credits(f, e.batch)
      BY <1>1, <1>2, <2>1, <2>3 DEF InFlight, Crediting
    <3>2. e \notin BagToSet(entries) /\ entries'[e] = 1
      BY <1>4, <3>1 DEF Credits
    <3>3. InFlight'
      <4> SUFFICES ASSUME NEW s \in CoinHandlers, Crediting(s)'
                   PROVE  LET f == work'[s].entry IN
                          /\ s \in Callers
                          /\ f.batch \in DOMAIN batch' /\ f.amount = batch'[f.batch].earned
                          /\ \A t \in CoinHandlers :
                               Crediting(t)' /\ work'[t].entry.batch = f.batch => t = s
                          /\ \A g \in BagToSet(entries)' : ~ Credits(g, f.batch)
        BY DEF InFlight, Credits
      <4>1. Crediting(s) /\ s # r /\ work'[s] = work[s]
        BY <1>9
      <4>2. LET f == work[s].entry IN
            /\ s \in Callers
            /\ f.batch \in DOMAIN batch /\ f.amount = batch[f.batch].earned
            /\ \A t \in CoinHandlers : Crediting(t) /\ work[t].entry.batch = f.batch => t = s
            /\ \A g \in BagToSet(entries) : ~ Credits(g, f.batch)
        BY <2>1, <4>1 DEF InFlight
      <4>3. work[s].entry.batch # e.batch
        BY <3>1, <4>1
      <4>4. ~ Credits(e, work[s].entry.batch)
        BY <4>3 DEF Credits
      <4> QED BY <1>3, <1>9, <1>10, <4>1, <4>2, <4>4
    <3>4. InLedger'
      <4> SUFFICES ASSUME NEW f \in BagToSet(entries)', f.type \in {"earn", "refund"}
                   PROVE  /\ f.batch \in DOMAIN batch' /\ f.amount = batch'[f.batch].earned
                          /\ entries'[f] = 1
                          /\ \A g \in BagToSet(entries)' : Credits(g, f.batch) => g = f
        BY DEF InLedger, Credits
      <4>1. CASE f = e
        BY <1>3, <1>10, <3>1, <3>2, <4>1
      <4>2. CASE f # e
        <5>1. f \in BagToSet(entries) /\ entries'[f] = entries[f]
          BY <1>4, <1>10, <4>2
        <5>2. /\ f.batch \in DOMAIN batch /\ f.amount = batch[f.batch].earned
              /\ entries[f] = 1
              /\ \A g \in BagToSet(entries) : Credits(g, f.batch) => g = f
          BY <2>1, <5>1 DEF InLedger
        <5>3. ~ Credits(e, f.batch)
          BY <3>1, <5>1 DEF Credits
        <5> QED BY <1>3, <1>10, <5>1, <5>2, <5>3
      <4> QED BY <4>1, <4>2
    <3>5. Backed'
      <4> SUFFICES ASSUME NEW i \in DOMAIN batch \ torn
                   PROVE  \/ \E s \in CoinHandlers : Crediting(s)' /\ work'[s].entry.batch = i
                          \/ \E f \in BagToSet(entries)' : Credits(f, i)
        BY <1>3 DEF Backed, Credits
      <4>1. CASE \E s \in CoinHandlers : Crediting(s) /\ work[s].entry.batch = i
        <5>1. PICK s \in CoinHandlers : Crediting(s) /\ work[s].entry.batch = i
          BY <4>1
        <5>2. CASE s = r
          BY <1>2, <1>10, <3>1, <5>1, <5>2 DEF Credits
        <5>3. CASE s # r
          BY <1>5, <5>1, <5>3 DEF Crediting
        <5> QED BY <5>2, <5>3
      <4>2. CASE \E f \in BagToSet(entries) : Credits(f, i)
        BY <1>10, <4>2
      <4> QED BY <2>1, <4>1, <4>2 DEF Backed
    <3> QED BY <3>3, <3>4, <3>5 DEF CoinBooks
  <2> QED BY <2>2, <2>3
<1> QED BY <1>6, <1>7, <1>8, <1>11 DEF CoinInv

\* Batches rewritten in place, while the ledger stays or gains what is no credit.
LEMMA RowsRewritten ==
  ASSUME CoinInv, CoinShape', ClosedIsEmpty', SpentWithinIssued',
         DOMAIN batch' = DOMAIN batch,
         \A i \in DOMAIN batch : batch'[i].earned = batch[i].earned,
         UNCHANGED entries \/ \E e \in CoinEntry : Enter(e) /\ e.type \notin {"earn", "refund"},
         \A s \in CoinHandlers : Crediting(s)' <=> Crediting(s),
         \A s \in CoinHandlers : Crediting(s) => work'[s] = work[s],
         torn' = torn
  PROVE  CoinInv'
<1>1. \A e \in BagToSet(entries) : e.type \in {"earn", "refund"} =>
        e \in BagToSet(entries)' /\ entries'[e] = entries[e]
  <2>1. CASE UNCHANGED entries
    BY <2>1 DEF BagToSet
  <2>2. CASE \E e \in CoinEntry : Enter(e) /\ e.type \notin {"earn", "refund"}
    <3>1. PICK e \in CoinEntry : Enter(e) /\ e.type \notin {"earn", "refund"}
      BY <2>2
    <3>2. /\ BagToSet(entries') = BagToSet(entries) \cup {e}
          /\ \A f \in BagToSet(entries) : f # e => entries'[f] = entries[f]
      BY <3>1, Adding DEF CoinInv, CoinShape, CoinTypeOK
    <3> QED BY <3>1, <3>2 DEF BagToSet
  <2> QED BY <2>1, <2>2
<1>2. \A e \in BagToSet(entries)' : e.type \in {"earn", "refund"} => e \in BagToSet(entries)
  <2>1. CASE UNCHANGED entries
    BY <2>1 DEF BagToSet
  <2>2. CASE \E e \in CoinEntry : Enter(e) /\ e.type \notin {"earn", "refund"}
    <3>1. PICK e \in CoinEntry : Enter(e) /\ e.type \notin {"earn", "refund"}
      BY <2>2
    <3>2. BagToSet(entries') = BagToSet(entries) \cup {e}
      BY <3>1, Adding DEF CoinInv, CoinShape, CoinTypeOK
    <3> QED BY <3>1, <3>2 DEF BagToSet
  <2> QED BY <2>1, <2>2
<1>3. \A s \in CoinHandlers : Crediting(s)' => Crediting(s) /\ work'[s].entry = work[s].entry
  OBVIOUS
<1>4. CoinBooks'
  BY <1>1, <1>2, <1>3, BooksKept DEF CoinInv
<1> QED BY <1>4 DEF CoinInv

LEMMA ReverseCoins ==
  ASSUME CoinInv, NEW r \in Callers, Reverse(r)
  PROVE  CoinInv'
<1>1. r \in CoinHandlers /\ work[r] \in CoinJob /\ work[r].op = "reverse" /\ ~ Crediting(r)
  BY ShapeFacts, NotCrediting DEF CoinInv, Reverse, CoinHandlers
<1>2. PICK h \in Held, o \in CoinOrders : h = work[r].held /\ o = work[r].order
  BY <1>1, CoinJobFacts
<1>3. PICK i \in BatchIds, n \in Nat : i = h.id /\ n = h.amount
  BY DEF Held
<1> DEFINE e == [type |-> "reverse_earn", order |-> o, batch |-> i, amount |-> n]
           job == IF n = 0 THEN AtRest ELSE [op |-> "enter", entry |-> e]
           row == [j \in DOMAIN batch |->
                     IF j = i THEN [batch[j] EXCEPT !.status = "reversed", !.remaining = 0]
                     ELSE batch[j]]
<1>4. Do(r, job) /\ UNCHANGED <<entries, accepted, torn>>
  BY <1>2, <1>3 DEF Reverse
<1>5. batch' = [j \in DOMAIN batch |-> row[j]]
  <2>1. batch' = [batch EXCEPT ![i].status = "reversed", ![i].remaining = 0]
    BY <1>2, <1>3 DEF Reverse
  <2>2. \A j \in DOMAIN batch : batch'[j] = row[j]
    BY <2>1, ShapeFacts DEF CoinInv, Batch
  <2> QED BY <2>1, <2>2
<1>6. e \in OrderEntry /\ e.type = "reverse_earn"
  BY DEF OrderEntry, CoinEntry
<1>7. \A j \in DOMAIN batch : /\ row[j] \in Batch /\ row[j].earned = batch[j].earned
                              /\ row[j].remaining <= batch[j].remaining
                              /\ \/ row[j] = batch[j]
                                 \/ row[j].remaining = 0
  <2> SUFFICES ASSUME NEW j \in DOMAIN batch
               PROVE  /\ row[j] \in Batch /\ row[j].earned = batch[j].earned
                      /\ row[j].remaining <= batch[j].remaining
                      /\ \/ row[j] = batch[j]
                         \/ row[j].remaining = 0
    OBVIOUS
  <2>1. batch[j] \in Batch /\ batch[j].remaining \in Nat
    BY ShapeFacts DEF CoinInv
  <2>2. CASE j # i
    BY <2>1, <2>2
  <2>3. CASE j = i
    <3>1. PICK b \in Batch : b = batch[j]
      BY <2>1
    <3>2. PICK c : c = [b EXCEPT !.status = "reversed", !.remaining = 0]
      OBVIOUS
    <3>3. row[j] = c
      BY <2>3, <3>1, <3>2
    <3>4. c \in Batch /\ c.earned = b.earned /\ c.remaining = 0
      BY <3>2 DEF Batch
    <3> HIDE DEF row
    <3> QED BY <2>1, <3>1, <3>3, <3>4
  <2> QED BY <2>2, <2>3
<1>8. job \in CoinJob /\ (job.op = "enter" => job.entry.type = "reverse_earn")
  BY <1>6, CoinJobs DEF AtRest
<1> HIDE DEF e, job, row
<1>9. /\ batch' \in Seq(Batch) /\ Len(batch') <= MaxBatches
      /\ DOMAIN batch' = DOMAIN batch
      /\ \A j \in DOMAIN batch : batch'[j] = row[j]
  BY <1>5, <1>7, RowsKept DEF CoinInv
<1>10. /\ work' \in [CoinHandlers -> CoinJob] /\ work'[r] = job
       /\ \A s \in CoinHandlers : s # r => work'[s] = work[s]
  BY <1>1, <1>4, <1>8, CoinJobKept DEF CoinInv
<1>11. CoinShape'
  BY <1>4, <1>9, <1>10 DEF CoinInv, CoinShape, CoinTypeOK, BagToSet
<1>12. ClosedIsEmpty'
  BY <1>7, <1>9 DEF CoinInv, ClosedIsEmpty
<1>13. Redeemed' = Redeemed
  BY <1>4 DEF Redeemed, Worth, Booked, BagToSet
<1>14. SpentWithinIssued'
  BY <1>7, <1>9, <1>11, <1>13, SpendsNothing DEF CoinInv
<1>15. \A s \in CoinHandlers : Crediting(s)' <=> Crediting(s)
  BY <1>1, <1>8, <1>10 DEF Crediting
<1>16. \A s \in CoinHandlers : Crediting(s) => work'[s] = work[s]
  BY <1>1, <1>10
<1> QED BY <1>4, <1>7, <1>9, <1>11, <1>12, <1>14, <1>15, <1>16, RowsRewritten

\* The debits of a redemption, each within what its batch holds, add up to its entry.
LEMMA RedeemCoins ==
  ASSUME CoinInv, NEW r \in Callers, Redeem(r)
  PROVE  CoinInv'
<1>1. r \in CoinHandlers /\ work[r] \in CoinJob /\ work[r].op = "consume" /\ ~ Crediting(r)
  BY ShapeFacts, NotCrediting DEF CoinInv, Redeem, CoinHandlers
<1>2. PICK amount \in Nat, found \in [BatchIds -> Nat] :
        amount = work[r].amount /\ found = work[r].found
  BY <1>1, CoinJobFacts
<1>3. PICK left : left = LeftAfter(amount, found)
  OBVIOUS
<1>4. /\ left[0] = amount
      /\ \A i \in 0 .. Len(batch) : left[i] \in Nat
      /\ \A i \in DOMAIN batch : /\ left[i - 1] - left[i] \in Nat
                                 /\ left[i - 1] - left[i] <= batch[i].remaining
  BY <1>3, ShapeFacts, Taking DEF CoinInv
<1>5. Len(batch) \in Nat /\ DOMAIN batch = 1 .. Len(batch)
  BY ShapeFacts DEF CoinInv, BatchesTyped
<1>6. Do(r, AtRest) /\ UNCHANGED <<accepted, torn>>
  BY DEF Redeem
<1>7. AtRest \in CoinJob /\ AtRest.op # "enter"
  BY CoinJobs DEF AtRest
<1>8. CASE left[Len(batch)] > 0
  <2>1. UNCHANGED <<batch, entries>>
    BY <1>2, <1>3, <1>8 DEF Redeem
  <2>2. accepted' \in Nat /\ torn' \subseteq BatchIds /\ torn \subseteq torn'
    BY <1>6 DEF CoinInv, CoinShape, CoinTypeOK
  <2> QED BY <1>1, <1>6, <1>7, <2>1, <2>2, OnlyWork
<1>9. CASE ~ (left[Len(batch)] > 0)
  <2> DEFINE taken == [i \in 1 .. Len(batch) |-> left[i - 1] - left[i]]
             row == [i \in DOMAIN batch |->
                       IF taken[i] = 0 THEN batch[i]
                       ELSE [batch[i] EXCEPT !.remaining = @ - taken[i],
                                             !.status = IF batch[i].remaining = taken[i]
                                                        THEN "depleted" ELSE @]]
             e == [type |-> "redeem", order |-> NoOrder, batch |-> NoBatch, amount |-> amount]
  <2>1. batch' = [i \in DOMAIN batch |-> row[i]] /\ Enter(e)
    <3>1. batch' = [i \in DOMAIN batch |->
               IF left[i - 1] - left[i] = 0 THEN batch[i]
               ELSE [batch[i] EXCEPT !.remaining = @ - (left[i - 1] - left[i]),
                                     !.status = IF batch[i].remaining = left[i - 1] - left[i]
                                                THEN "depleted" ELSE @]]
      BY <1>2, <1>3, <1>9 DEF Redeem
    <3>2. Enter(e)
      BY <1>2, <1>3, <1>9 DEF Redeem
    <3>3. \A i \in DOMAIN batch : taken[i] = left[i - 1] - left[i]
      BY <1>5
    <3> HIDE DEF taken, e
    <3>4. \A i \in DOMAIN batch : batch'[i] = row[i]
      BY <3>1, <3>3
    <3> HIDE DEF row
    <3> QED BY <3>1, <3>2, <3>4
  <2>2. e \in CoinEntry /\ e.type = "redeem" /\ e.amount = amount
    BY DEF CoinEntry
  <2>3. \A i \in DOMAIN batch : taken[i] \in Nat /\ taken[i] <= batch[i].remaining
    BY <1>4, <1>5
  <2>4. SumFunctionOnSet(taken, DOMAIN batch) = amount
    <3>1. left[Len(batch)] = 0 /\ \A i \in 0 .. Len(batch) : left[i] \in Int
      BY <1>4, <1>5, <1>9
    <3>2. SumFunctionOnSet(taken, 1 .. Len(batch)) = left[0] - left[Len(batch)]
      BY <1>5, <3>1, PartsAddUp
    <3> HIDE DEF taken
    <3> QED BY <1>4, <1>5, <3>1, <3>2
  <2> HIDE DEF taken, e
  <2>5. \A i \in DOMAIN batch : /\ row[i] \in Batch /\ row[i].earned = batch[i].earned
                                /\ row[i].remaining = batch[i].remaining - taken[i]
                                /\ \/ row[i] = batch[i]
                                   \/ row[i].remaining = 0
                                   \/ row[i].status = batch[i].status /\ batch[i].remaining # 0
    <3> SUFFICES ASSUME NEW i \in DOMAIN batch
                 PROVE  /\ row[i] \in Batch /\ row[i].earned = batch[i].earned
                        /\ row[i].remaining = batch[i].remaining - taken[i]
                        /\ \/ row[i] = batch[i]
                           \/ row[i].remaining = 0
                           \/ row[i].status = batch[i].status /\ batch[i].remaining # 0
      OBVIOUS
    <3>1. batch[i] \in Batch /\ batch[i].remaining \in Nat /\ taken[i] \in Nat
          /\ batch[i].remaining - taken[i] \in Nat
      BY <2>3, ShapeFacts DEF CoinInv
    <3>2. CASE taken[i] = 0
      BY <3>1, <3>2
    <3>3. CASE taken[i] # 0
      <4> DEFINE n  == batch[i].remaining - taken[i]
                 st == IF batch[i].remaining = taken[i] THEN "depleted" ELSE batch[i].status
      <4>1. n \in Nat /\ st \in {"active", "depleted", "expired", "reversed"}
        BY <3>1 DEF Batch
      <4>2. \/ n = 0
            \/ st = batch[i].status /\ batch[i].remaining # 0
        BY <2>3, <3>1, <3>3
      <4>3. PICK b \in Batch : b = batch[i]
        BY <3>1
      <4>4. row[i] = [b EXCEPT !.remaining = n, !.status = st]
        BY <3>3, <4>3
      <4> HIDE DEF row, n, st
      <4>5. PICK c : c = [b EXCEPT !.remaining = n, !.status = st]
        OBVIOUS
      <4>6. c \in Batch /\ c.earned = b.earned /\ c.remaining = n /\ c.status = st
        BY <4>1, <4>5 DEF Batch
      <4> QED BY <4>2, <4>3, <4>4, <4>5, <4>6 DEF n
    <3> QED BY <3>2, <3>3
  <2> HIDE DEF row
  <2>6. /\ batch' \in Seq(Batch) /\ Len(batch') <= MaxBatches
        /\ DOMAIN batch' = DOMAIN batch
        /\ \A i \in DOMAIN batch : batch'[i] = row[i]
    BY <2>1, <2>5, RowsKept DEF CoinInv
  <2>7. /\ work' \in [CoinHandlers -> CoinJob] /\ work'[r] = AtRest
        /\ \A s \in CoinHandlers : s # r => work'[s] = work[s]
    BY <1>1, <1>6, <1>7, CoinJobKept DEF CoinInv
  <2>8. IsABag(entries') /\ IsFiniteSet(BagToSet(entries')) /\ BagToSet(entries') \subseteq CoinEntry
    BY <2>1, <2>2, Adding DEF CoinInv, CoinShape, CoinTypeOK
  <2>9. CoinShape'
    BY <1>6, <2>6, <2>7, <2>8 DEF CoinInv, CoinShape, CoinTypeOK, BagToSet
  <2>10. ClosedIsEmpty'
    BY <2>5, <2>6 DEF CoinInv, ClosedIsEmpty
  <2>11. Redeemed' = Redeemed + amount
    BY <2>1, <2>2, <2>9, RedeemEntry DEF CoinInv
  <2>12. Unspent = Unspent' + amount /\ Unspent' \in Int /\ Issued' = Issued
    <3>1. \A i \in DOMAIN batch : Remaining[i] = batch[i].remaining /\ Remaining'[i] = row[i].remaining
      BY <2>6 DEF Remaining
    <3>2. \A i \in DOMAIN batch : batch[i].remaining \in Nat
      BY ShapeFacts DEF CoinInv
    <3>3. \A i \in DOMAIN batch : /\ Remaining'[i] \in Int /\ taken[i] \in Int
                                  /\ Remaining[i] = Remaining'[i] + taken[i]
      BY <2>3, <2>5, <3>1, <3>2
    <3>4. IsFiniteSet(DOMAIN batch)
      BY ShapeFacts DEF CoinInv
    <3>5. SumFunctionOnSet(Remaining, DOMAIN batch)
            = SumFunctionOnSet(Remaining', DOMAIN batch) + SumFunctionOnSet(taken, DOMAIN batch)
      BY <3>3, <3>4, SumPlus
    <3>6. SumFunctionOnSet(Remaining', DOMAIN batch) \in Int
      BY <3>3, <3>4, SumType
    <3>7. Unspent' = SumFunctionOnSet(Remaining', DOMAIN batch)
      BY <2>6 DEF Unspent
    <3>8. \A i \in DOMAIN batch : batch'[i].earned = batch[i].earned /\ batch'[i].remaining <= batch[i].remaining
      BY <2>3, <2>5, <2>6, <3>2
    <3>9. Issued' = Issued
      BY <2>6, <2>9, <3>8, NoneGains DEF CoinInv
    <3> QED BY <2>4, <3>5, <3>6, <3>7, <3>9 DEF Unspent
  <2>13. SpentWithinIssued'
    <3>1. Redeemed + Unspent <= Issued /\ Redeemed \in Int /\ Unspent \in Int /\ Issued \in Int
      BY SumsAreInt DEF CoinInv, SpentWithinIssued, Redeemed, Unspent, Issued
    <3>2. \A a, b, c \in Int : a + (b + amount) <= c => (a + amount) + b <= c
      OBVIOUS
    <3>3. Redeemed + (Unspent' + amount) <= Issued
      BY <2>12, <3>1
    <3>4. (Redeemed + amount) + Unspent' <= Issued
      BY <2>12, <3>1, <3>2, <3>3
    <3>5. Redeemed' + Unspent' <= Issued'
      BY <2>11, <2>12, <3>4
    <3> QED BY <3>5 DEF SpentWithinIssued, Redeemed, Unspent, Issued
  <2>14. \A s \in CoinHandlers : Crediting(s)' <=> Crediting(s)
    BY <1>1, <1>7, <2>7 DEF Crediting
  <2>15. \A s \in CoinHandlers : Crediting(s) => work'[s] = work[s]
    BY <1>1, <2>7
  <2>16. \E f \in CoinEntry : Enter(f) /\ f.type \notin {"earn", "refund"}
    BY <2>1, <2>2
  <2> QED BY <1>6, <2>5, <2>6, <2>9, <2>10, <2>13, <2>14, <2>15, <2>16, RowsRewritten
<1> QED BY <1>8, <1>9

\* Rows whose amounts stay and that no step closes.
LEMMA RowsMarked ==
  ASSUME CoinInv, NEW row,
         \A i \in DOMAIN batch : /\ row[i] \in Batch /\ row[i].earned = batch[i].earned
                                 /\ row[i].remaining = batch[i].remaining
                                 /\ row[i].status \in {batch[i].status, "expired"},
         batch' = [i \in DOMAIN batch |-> row[i]],
         work' \in [CoinHandlers -> CoinJob],
         \A s \in CoinHandlers : Crediting(s)' <=> Crediting(s),
         \A s \in CoinHandlers : Crediting(s) => work'[s] = work[s],
         UNCHANGED <<entries, accepted, torn>>
  PROVE  CoinInv'
<1>1. /\ batch' \in Seq(Batch) /\ Len(batch') <= MaxBatches
      /\ DOMAIN batch' = DOMAIN batch
      /\ \A i \in DOMAIN batch : batch'[i] = row[i]
  BY RowsKept DEF CoinInv
<1>2. CoinShape'
  BY <1>1 DEF CoinInv, CoinShape, CoinTypeOK, BagToSet
<1>3. ClosedIsEmpty'
  BY <1>1 DEF CoinInv, ClosedIsEmpty
<1>4. Redeemed' = Redeemed
  BY DEF Redeemed, Worth, Booked, BagToSet
<1>5. \A i \in DOMAIN batch : batch[i].remaining \in Nat
  BY ShapeFacts DEF CoinInv
<1>6. \A i \in DOMAIN batch : batch'[i].earned = batch[i].earned /\ batch'[i].remaining <= batch[i].remaining
  BY <1>1, <1>5
<1>7. SpentWithinIssued'
  BY <1>1, <1>2, <1>4, <1>6, SpendsNothing DEF CoinInv
<1> QED BY <1>1, <1>2, <1>3, <1>6, <1>7, RowsRewritten

LEMMA MarkCoins ==
  ASSUME CoinInv, MarkExpired
  PROVE  CoinInv'
<1>1. Cron \in CoinHandlers /\ work[Cron] \in CoinJob /\ work[Cron].op = "sweep" /\ ~ Crediting(Cron)
  BY ShapeFacts, NotCrediting DEF CoinInv, MarkExpired, CoinHandlers
<1>2. PICK h \in work[Cron].todo :
        /\ batch' = [batch EXCEPT ![h.id].status = "expired"]
        /\ Do(Cron, [op |-> "log", held |-> h, todo |-> work[Cron].todo \ {h}])
  BY DEF MarkExpired
<1>3. work[Cron].todo \subseteq Held
  BY <1>1, CoinJobFacts
<1> DEFINE job == [op |-> "log", held |-> h, todo |-> work[Cron].todo \ {h}]
           row == [i \in DOMAIN batch |->
                     IF i = h.id THEN [batch[i] EXCEPT !.status = "expired"] ELSE batch[i]]
<1>4. job \in CoinJob /\ job.op # "enter"
  BY <1>3, CoinJobs
<1>5. batch' = [i \in DOMAIN batch |-> row[i]]
  BY <1>2
<1>6. \A i \in DOMAIN batch : /\ row[i] \in Batch /\ row[i].earned = batch[i].earned
                              /\ row[i].remaining = batch[i].remaining
                              /\ row[i].status \in {batch[i].status, "expired"}
  BY ShapeFacts DEF CoinInv, Batch
<1>7. Do(Cron, job) /\ UNCHANGED <<entries, accepted, torn>>
  BY <1>2 DEF MarkExpired
<1> HIDE DEF job, row
<1>8. /\ work' \in [CoinHandlers -> CoinJob] /\ work'[Cron] = job
      /\ \A s \in CoinHandlers : s # Cron => work'[s] = work[s]
  BY <1>1, <1>4, <1>7, CoinJobKept DEF CoinInv
<1>9. \A s \in CoinHandlers : Crediting(s)' <=> Crediting(s)
  BY <1>1, <1>4, <1>8 DEF Crediting
<1>10. \A s \in CoinHandlers : Crediting(s) => work'[s] = work[s]
  BY <1>1, <1>8
<1> QED BY <1>5, <1>6, <1>7, <1>8, <1>9, <1>10, RowsMarked

LEMMA ExpireCoins ==
  ASSUME CoinInv, NEW k \in BatchIds, Expire(k)
  PROVE  CoinInv'
<1> DEFINE row == [i \in DOMAIN batch |->
                     IF i = k THEN [batch[i] EXCEPT !.due = TRUE] ELSE batch[i]]
<1>1. batch' = [i \in DOMAIN batch |-> row[i]]
  BY DEF Expire
<1>2. \A i \in DOMAIN batch : /\ row[i] \in Batch /\ row[i].earned = batch[i].earned
                              /\ row[i].remaining = batch[i].remaining
                              /\ row[i].status \in {batch[i].status, "expired"}
  BY ShapeFacts DEF CoinInv, Batch
<1> HIDE DEF row
<1>3. UNCHANGED <<entries, work, accepted, torn>>
  BY DEF Expire
<1>4. work' \in [CoinHandlers -> CoinJob]
  BY <1>3 DEF CoinInv, CoinShape, CoinTypeOK
<1>5. \A s \in CoinHandlers : Crediting(s)' <=> Crediting(s)
  BY <1>3 DEF Crediting
<1> QED BY <1>1, <1>2, <1>3, <1>4, <1>5, RowsMarked

LEMMA LogCoins ==
  ASSUME CoinInv, LogExpired
  PROVE  CoinInv'
<1>1. Cron \in CoinHandlers /\ work[Cron] \in CoinJob /\ work[Cron].op = "log" /\ ~ Crediting(Cron)
  BY ShapeFacts, NotCrediting DEF CoinInv, LogExpired, CoinHandlers
<1>2. PICK h \in Held, todo \in SUBSET Held : h = work[Cron].held /\ todo = work[Cron].todo
  BY <1>1, CoinJobFacts
<1> DEFINE e == [type |-> "expire", order |-> NoOrder, batch |-> h.id, amount |-> h.amount]
           job == IF todo = {} THEN AtRest ELSE [op |-> "sweep", todo |-> todo]
<1>3. e \in CoinEntry /\ e.type = "expire"
  BY DEF CoinEntry, Held
<1>4. job \in CoinJob /\ job.op # "enter"
  BY CoinJobs DEF AtRest
<1>5. Enter(e) /\ Do(Cron, job) /\ UNCHANGED <<batch, accepted, torn>>
  BY <1>2 DEF LogExpired
<1> HIDE DEF e, job
<1>6. /\ work' \in [CoinHandlers -> CoinJob] /\ work'[Cron] = job
      /\ \A s \in CoinHandlers : s # Cron => work'[s] = work[s]
  BY <1>1, <1>4, <1>5, CoinJobKept DEF CoinInv
<1>7. IsABag(entries') /\ IsFiniteSet(BagToSet(entries')) /\ BagToSet(entries') \subseteq CoinEntry
  BY <1>3, <1>5, Adding DEF CoinInv, CoinShape, CoinTypeOK
<1>8. CoinShape'
  BY <1>5, <1>6, <1>7 DEF CoinInv, CoinShape, CoinTypeOK, BagToSet
<1>9. ClosedIsEmpty'
  BY <1>5 DEF CoinInv, ClosedIsEmpty
<1>10. SpentWithinIssued'
  <2>1. Redeemed' = Redeemed
    BY <1>3, <1>5, <1>8, OtherEntry DEF CoinInv
  <2>2. Unspent' = Unspent /\ Issued' = Issued
    BY <1>5 DEF Unspent, Issued, Remaining, Earned
  <2> QED BY <2>1, <2>2 DEF CoinInv, SpentWithinIssued, Redeemed, Unspent, Issued
<1>11. \A s \in CoinHandlers : Crediting(s)' <=> Crediting(s)
  BY <1>1, <1>4, <1>6 DEF Crediting
<1>12. \A s \in CoinHandlers : Crediting(s) => work'[s] = work[s]
  BY <1>1, <1>6
<1>13. \E f \in CoinEntry : Enter(f) /\ f.type \notin {"earn", "refund"}
  BY <1>3, <1>5
<1> QED BY <1>5, <1>8, <1>9, <1>10, <1>11, <1>12, <1>13, RowsRewritten

LEMMA CoinStep == CoinInv /\ [CoinNext]_coinVars => CoinInv'
<1> SUFFICES ASSUME CoinInv, [CoinNext]_coinVars PROVE CoinInv'
  OBVIOUS
<1>1. CASE UNCHANGED coinVars
  <2>1. UNCHANGED <<batch, entries, work, accepted, torn>>
    BY <1>1 DEF coinVars
  <2>2. CoinShape'
    BY <2>1 DEF CoinInv, CoinShape, CoinTypeOK, BagToSet
  <2>3. ClosedIsEmpty' /\ SpentWithinIssued'
    BY <2>1 DEF CoinInv, ClosedIsEmpty, SpentWithinIssued, Worth, Booked, Remaining, Earned, BagToSet
  <2>4. CoinBooks'
    BY <2>1 DEF CoinInv, CoinBooks, InFlight, InLedger, Backed, Crediting, BagToSet
  <2> QED BY <2>2, <2>3, <2>4 DEF CoinInv
<1>2. ASSUME NEW r \in Callers, CoinHandler(r) PROVE CoinInv'
  <2>1. CASE \E o \in CoinOrders : \E t \in {"earn", "refund"} : BeginCredit(r, t, o)
    BY <2>1, BeginCreditCoins
  <2>2. CASE \E o \in CoinOrders : BeginReverse(r, o)
    BY <2>2, BeginReverseCoins
  <2>3. CASE \E want \in Wants : ValidateRedemption(r, want)
    BY <2>3, ValidateCoins
  <2>4. CASE CreateBatch(r)
    BY <2>4, CreateCoins
  <2>5. CASE EnterLedger(r)
    BY <2>5, EnterCoins
  <2>6. CASE Lookup(r)
    BY <2>6, LookupCoins
  <2>7. CASE Reverse(r)
    BY <2>7, ReverseCoins
  <2>8. CASE FindBatches(r)
    BY <2>8, FindCoins
  <2>9. CASE Redeem(r)
    BY <2>9, RedeemCoins
  <2> QED BY <1>2, <2>1, <2>2, <2>3, <2>4, <2>5, <2>6, <2>7, <2>8, <2>9 DEF CoinHandler
<1>3. CASE SweepRead
  BY <1>3, SweepReadCoins
<1>4. CASE MarkExpired
  BY <1>4, MarkCoins
<1>5. CASE LogExpired
  BY <1>5, LogCoins
<1>6. CASE \E i \in BatchIds : Expire(i)
  BY <1>6, ExpireCoins
<1>7. CASE \E r \in CoinHandlers : CoinFail(r)
  BY <1>7, FailCoins
<1> QED BY <1>1, <1>2, <1>3, <1>4, <1>5, <1>6, <1>7 DEF CoinNext

-----------------------------------------------------------------------------
(* Coins: the theorems. *)

LEMMA CoinInvariance == CoinSpec => []CoinInv
BY InitialCoins, CoinStep, PTL DEF CoinSpec

\* Batches, ledger and jobs always have their types: no batch is debited below zero,
\* no ledger entry or batch number is out of range.
THEOREM CoinTypeCorrect == CoinSpec => []CoinTypeOK
<1>1. CoinInv => CoinTypeOK
  BY DEF CoinInv, CoinShape
<1> QED BY <1>1, CoinInvariance, PTL

\* consume's guard keeps checkouts that work from one stale list within what was issued,
\* for any number of checkouts, batches and amounts.
THEOREM NeverOverspent == CoinSpec => []SpentWithinIssued
<1>1. CoinInv => SpentWithinIssued
  BY DEF CoinInv
<1> QED BY <1>1, CoinInvariance, PTL

\* A batch that redeemForCheckout used up or reverseEarnBatch took back holds nothing.
THEOREM ClosedStaysEmpty == CoinSpec => []ClosedIsEmpty
<1>1. CoinInv => ClosedIsEmpty
  BY DEF CoinInv
<1> QED BY <1>1, CoinInvariance, PTL

\* Every batch that awardForOrder or refundRedemptionForOrder inserted is credited by one
\* entry, or about to be, or a failure came between the two inserts.
THEOREM BatchesBooked == CoinSpec => []BatchesAreBooked
<1>1. CoinInv => BatchesAreBooked
  <2> SUFFICES ASSUME CoinInv, NEW i \in DOMAIN batch \ torn,
                      ~ \E r \in Callers : work[r].op = "enter" /\ Credits(work[r].entry, i)
               PROVE  /\ Cardinality({e \in BagToSet(entries) : Credits(e, i)}) = 1
                      /\ \A e \in BagToSet(entries) : Credits(e, i) =>
                           e.amount = batch[i].earned /\ entries[e] = 1
    BY DEF BatchesAreBooked
  <2>1. InFlight /\ InLedger /\ Backed
    BY DEF CoinInv, CoinBooks
  <2>2. ~ \E r \in CoinHandlers : Crediting(r) /\ work[r].entry.batch = i
    BY <2>1 DEF InFlight, Crediting, Credits
  <2>3. PICK e \in BagToSet(entries) : Credits(e, i)
    BY <2>1, <2>2 DEF Backed
  <2>4. \A f \in BagToSet(entries) : Credits(f, i) => f = e
    BY <2>1, <2>3 DEF InLedger, Credits
  <2>5. {f \in BagToSet(entries) : Credits(f, i)} = {e}
    BY <2>3, <2>4
  <2>6. Cardinality({e}) = 1
    BY FS_Singleton
  <2>7. e.amount = batch[i].earned /\ entries[e] = 1
    BY <2>1, <2>3 DEF InLedger, Credits
  <2> QED BY <2>4, <2>5, <2>6, <2>7
<1> QED BY <1>1, CoinInvariance, PTL

=============================================================================
