-------------------------- MODULE FlashSalesProofs --------------------------
(***************************************************************************)
(* Proofs about FlashSales, for any campaigns, registrations, windows,     *)
(* quantities and requests in flight.                                      *)
(***************************************************************************)
EXTENDS FlashSales, TLAPS

\* The foreign key of flash_sale_items.
Backed == \A i \in Items : item[i] # NoItem => campaign[item[i].campaign] \in Campaign

TInv == TypeOK /\ Backed

-----------------------------------------------------------------------------
(* Rows and jobs. *)

LEMMA NoRows == NoItem \notin Registration /\ NoCampaign \notin Campaign
  BY DEF NoItem, Registration, NoCampaign, Campaign

LEMMA ItemIsRow ==
  ASSUME TypeOK, NEW i \in Items
  PROVE  /\ item[i] # NoItem <=> item[i] \in Registration
         /\ item[i].status \in {"pending", "approved", "rejected"} => item[i] \in Registration
  BY NoRows DEF TypeOK, NoItem

LEMMA CampaignIsRow ==
  ASSUME TypeOK, NEW c \in Campaigns
  PROVE  Exists(c) <=> campaign[c] \in Campaign
  BY NoRows DEF TypeOK, Exists

\* What one column's UPDATE leaves of a registration.
LEMMA StatusKeepsRow ==
  ASSUME NEW row \in Registration, NEW st \in {"pending", "approved", "rejected"}
  PROVE  /\ [row EXCEPT !.status = st] \in Registration
         /\ [row EXCEPT !.status = st].status = st
         /\ [row EXCEPT !.status = st].campaign = row.campaign
         /\ [row EXCEPT !.status = st].variant = row.variant
         /\ [row EXCEPT !.status = st].quantity = row.quantity
         /\ [row EXCEPT !.status = st].sold = row.sold
  BY DEF Registration

LEMMA QuantityKeepsRow ==
  ASSUME NEW row \in Registration, NEW n \in Nat
  PROVE  /\ [row EXCEPT !.quantity = n] \in Registration
         /\ [row EXCEPT !.quantity = n].status = row.status
         /\ [row EXCEPT !.quantity = n].campaign = row.campaign
         /\ [row EXCEPT !.quantity = n].variant = row.variant
         /\ [row EXCEPT !.quantity = n].quantity = n
         /\ [row EXCEPT !.quantity = n].sold = row.sold
  BY DEF Registration

LEMMA SoldKeepsRow ==
  ASSUME NEW row \in Registration, NEW n \in Nat
  PROVE  /\ [row EXCEPT !.sold = n] \in Registration
         /\ [row EXCEPT !.sold = n].status = row.status
         /\ [row EXCEPT !.sold = n].campaign = row.campaign
         /\ [row EXCEPT !.sold = n].variant = row.variant
         /\ [row EXCEPT !.sold = n].quantity = row.quantity
         /\ [row EXCEPT !.sold = n].sold = n
  BY DEF Registration

LEMMA IdleIsJob == Idle \in Job /\ Idle.op = "idle"
  BY DEF Idle, Job

\* What a job that a handler is at carries.
LEMMA JobFacts ==
  ASSUME NEW job \in Job
  PROVE  /\ job.op = "update" => /\ job.campaign \in Campaigns /\ job.patch \in Patches
                                 /\ job.window \in Window
         /\ job.op \in {"exists", "insert"} =>
              job.campaign \in Campaigns /\ job.variant \in Variants /\ job.quantity \in Quantities
         /\ job.op = "edit" => job.item \in Items /\ job.quantity \in Quantities
         /\ job.op \in {"withdraw", "overlap", "approve", "reject"} => job.item \in Items
         /\ job.op \in {"overlap", "approve"} => job.variant \in Variants /\ job.quantity \in Nat
         /\ job.op = "overlap" => job.campaign \in Campaigns /\ job.window \in Window
  BY DEF Job, Idle

-----------------------------------------------------------------------------
(* Types. *)

\* A handler that moves on, and what it may do to the histories.
LEMMA GotoType ==
  ASSUME TInv, NEW r \in Requests, NEW job \in Job, Goto(r, job),
         UNCHANGED <<now, rows, cron>>, started' \in 0 .. MaxRequests,
         reviewed' \in [Items -> Nat], contested' \subseteq Items, crossed' \subseteq Variants,
         moved' \cup patched' \subseteq Campaigns
  PROVE  TInv'
  BY DEF TInv, TypeOK, Backed, Goto, rows

LEMMA BeginCounts ==
  ASSUME TypeOK, NEW r, NEW job, Begin(r, job)
  PROVE  started' \in 0 .. MaxRequests /\ Goto(r, job) /\ req[r] = Idle
  BY FlashSaleAssumption DEF Begin, TypeOK

\* A step that changes one registration.
LEMMA ItemType ==
  ASSUME TInv, NEW i \in Items, NEW row \in Registration \cup {NoItem},
         item' = [item EXCEPT ![i] = row],
         row # NoItem => campaign[row.campaign] \in Campaign,
         req' \in [Requests -> Job], started' \in 0 .. MaxRequests, reviewed' \in [Items -> Nat],
         UNCHANGED <<now, campaign, cron, contested, crossed, moved, patched>>
  PROVE  TInv'
  <1>1. item' \in [Items -> Registration \cup {NoItem}]
    BY DEF TInv, TypeOK
  <1>2. TypeOK'
    BY <1>1 DEF TInv, TypeOK
  <1>3. \A j \in Items : item'[j] = IF j = i THEN row ELSE item[j]
    BY DEF TInv, TypeOK
  <1>4. Backed'
    BY <1>3 DEF TInv, Backed
  <1> QED
    BY <1>2, <1>4 DEF TInv

\* A step that changes campaigns and keeps them where they are.
LEMMA CampaignType ==
  ASSUME TInv, campaign' \in [Campaigns -> Campaign \cup {NoCampaign}],
         \A c \in Campaigns : campaign[c] \in Campaign => campaign'[c] \in Campaign,
         now' \in Times, cron' \in Times \cup {-1}, req' \in [Requests -> Job],
         started' \in 0 .. MaxRequests, moved' \cup patched' \subseteq Campaigns,
         UNCHANGED <<item, reviewed, contested, crossed>>
  PROVE  TInv'
  <1>1. TypeOK'
    BY DEF TInv, TypeOK
  <1>2. \A i \in Items : item[i] # NoItem => item[i].campaign \in Campaigns
    BY ItemIsRow DEF TInv, Registration
  <1>3. Backed'
    BY <1>2 DEF TInv, Backed
  <1> QED
    BY <1>1, <1>3 DEF TInv

LEMMA CreateCampaignType ==
  ASSUME TInv, NEW r \in Requests, NEW c \in Campaigns, NEW w \in Windows, CreateCampaign(r, c, w)
  PROVE  TInv'
  <1> DEFINE row == [status |-> StatusAt(w, now), isActive |-> TRUE, window |-> w]
  <1>1. row \in Campaign
    BY FlashSaleAssumption DEF Campaign, StatusAt, Window
  <1>2. campaign' = [campaign EXCEPT ![c] = row]
    BY DEF CreateCampaign
  <1> HIDE DEF row
  <1>3. /\ campaign' \in [Campaigns -> Campaign \cup {NoCampaign}]
        /\ \A d \in Campaigns : campaign[d] \in Campaign => campaign'[d] \in Campaign
    BY <1>1, <1>2 DEF TInv, TypeOK
  <1>4. started' \in 0 .. MaxRequests
    BY FlashSaleAssumption DEF CreateCampaign, TInv, TypeOK
  <1> QED
    BY <1>3, <1>4, CampaignType DEF CreateCampaign, history, TInv, TypeOK

LEMMA ReadCampaignType ==
  ASSUME TInv, NEW r \in Requests, NEW c \in Campaigns, NEW p \in Patches, ReadCampaign(r, c, p)
  PROVE  TInv'
  <1> DEFINE merged == [e \in Edges |-> IF e \in DOMAIN p THEN p[e] ELSE campaign[c].window[e]]
  <1> DEFINE job == [op |-> "update", campaign |-> c, patch |-> p, window |-> merged]
  <1>1. campaign[c] \in Campaign
    BY CampaignIsRow DEF ReadCampaign, TInv
  <1>2. campaign[c].window \in Window
    BY <1>1 DEF Campaign
  <1>3. merged \in Window
    BY <1>2, FlashSaleAssumption DEF Window
  <1>4. job \in Job
    BY <1>3 DEF Job
  <1>5. Begin(r, job) /\ UNCHANGED <<now, rows, cron, reviewed, contested, crossed, moved>>
    BY DEF ReadCampaign
  <1> HIDE DEF job
  <1>6. patched' \subseteq Campaigns
    BY DEF ReadCampaign, TInv, TypeOK
  <1>7. started' \in 0 .. MaxRequests /\ Goto(r, job)
    BY <1>5, BeginCounts DEF TInv
  <1> QED
    BY <1>4, <1>5, <1>6, <1>7, GotoType DEF TInv, TypeOK

LEMMA UpdateCampaignType ==
  ASSUME TInv, NEW r \in Requests, UpdateCampaign(r)
  PROVE  TInv'
  <1> PICK job \in Job : job = req[r]
    BY DEF TInv, TypeOK
  <1> DEFINE c == job.campaign
             p == job.patch
             row == [status |-> IF DOMAIN p \cap {"from", "to"} # {}
                                THEN StatusAt(job.window, now) ELSE campaign[c].status,
                     isActive |-> IF "isActive" \in DOMAIN p THEN p["isActive"]
                                  ELSE campaign[c].isActive,
                     window |-> [e \in Edges |-> IF e \in DOMAIN p THEN p[e]
                                                 ELSE campaign[c].window[e]]]
  <1>1. job.op = "update"
    BY DEF UpdateCampaign
  <1>2. c \in Campaigns /\ p \in Patches /\ job.window \in Window
    BY <1>1, JobFacts
  <1>3. campaign' = IF ~Exists(c) THEN campaign ELSE [campaign EXCEPT ![c] = row]
    BY DEF UpdateCampaign
  <1>4. ASSUME Exists(c) PROVE row \in Campaign
    <2>1. campaign[c] \in Campaign
      BY <1>2, <1>4, CampaignIsRow DEF TInv
    <2>2. campaign[c].window \in Window /\ campaign[c].isActive \in BOOLEAN
          /\ campaign[c].status \in {"scheduled", "active", "ended"}
      BY <2>1 DEF Campaign
    <2>3. row.window \in Window
      BY <1>2, <2>2, FlashSaleAssumption DEF Window
    <2>4. row.isActive \in BOOLEAN
      BY <1>2, <2>2, FlashSaleAssumption
    <2>5. row.status \in {"scheduled", "active", "ended"}
      BY <2>2 DEF StatusAt
    <2> QED
      BY <2>3, <2>4, <2>5 DEF Campaign
  <1> HIDE DEF row
  <1>5. /\ campaign' \in [Campaigns -> Campaign \cup {NoCampaign}]
        /\ \A d \in Campaigns : campaign[d] \in Campaign => campaign'[d] \in Campaign
    BY <1>2, <1>3, <1>4 DEF TInv, TypeOK
  <1>6. req' \in [Requests -> Job]
    BY IdleIsJob DEF UpdateCampaign, Done, Goto, TInv, TypeOK
  <1>7. moved' \subseteq Campaigns
    BY <1>2 DEF UpdateCampaign, TInv, TypeOK
  <1> QED
    BY <1>5, <1>6, <1>7, CampaignType DEF UpdateCampaign, TInv, TypeOK

LEMMA DeleteCampaignType ==
  ASSUME TInv, NEW r \in Requests, NEW c \in Campaigns, DeleteCampaign(r, c)
  PROVE  TInv'
  <1>1. started' \in 0 .. MaxRequests
    BY FlashSaleAssumption DEF DeleteCampaign, TInv, TypeOK
  <1>2. /\ campaign' = [campaign EXCEPT ![c] = NoCampaign]
        /\ item' = [i \in Items |-> IF item[i] # NoItem /\ item[i].campaign = c
                                    THEN NoItem ELSE item[i]]
        /\ UNCHANGED <<now, cron, req, history>>
    BY DEF DeleteCampaign
  <1>3. TypeOK'
    BY <1>1, <1>2 DEF TInv, TypeOK, history
  <1>4. Backed'
    BY <1>2 DEF Backed, TInv, TypeOK
  <1> QED
    BY <1>3, <1>4 DEF TInv

LEMMA RegisterType ==
  ASSUME TInv, NEW r \in Requests, NEW c \in Campaigns, NEW v \in Variants, NEW n \in Quantities,
         Register(r, c, v, n)
  PROVE  TInv'
  <1> DEFINE job == [op |-> "exists", campaign |-> c, variant |-> v, quantity |-> n]
  <1>1. job \in Job
    BY DEF Job
  <1>2. Begin(r, job) /\ UNCHANGED <<now, rows, cron, history>>
    BY DEF Register
  <1> HIDE DEF job
  <1>3. started' \in 0 .. MaxRequests /\ Goto(r, job)
    BY <1>2, BeginCounts DEF TInv
  <1> QED
    BY <1>1, <1>2, <1>3, GotoType DEF TInv, TypeOK, history

\* A handler that only moves on to job.
LEMMA MoveOnType ==
  ASSUME TInv, NEW r \in Requests, NEW job \in Job, Goto(r, job),
         UNCHANGED <<now, rows, cron, started, history>>
  PROVE  TInv'
  BY GotoType DEF TInv, TypeOK, history

LEMMA CheckExistsType ==
  ASSUME TInv, NEW r \in Requests, CheckExists(r)
  PROVE  TInv'
  <1> PICK job \in Job : job = req[r]
    BY DEF TInv, TypeOK
  <1>1. /\ job.op = "exists"
        /\ Done(r) \/ Goto(r, [job EXCEPT !.op = "insert"])
        /\ UNCHANGED <<now, rows, cron, started, history>>
    BY DEF CheckExists
  <1>2. [job EXCEPT !.op = "insert"] \in Job
    BY <1>1 DEF Job, Idle
  <1> QED
    BY <1>1, <1>2, IdleIsJob, MoveOnType DEF Done

\* A handler that ends, having changed one registration or none.
LEMMA WriteType ==
  ASSUME TInv, NEW r \in Requests, Done(r), NEW i \in Items, NEW row \in Registration \cup {NoItem},
         item' = item \/ item' = [item EXCEPT ![i] = row],
         item' = [item EXCEPT ![i] = row] /\ row # NoItem => campaign[row.campaign] \in Campaign,
         reviewed' \in [Items -> Nat],
         UNCHANGED <<now, campaign, cron, started, contested, crossed, moved, patched>>
  PROVE  TInv'
  <1>1. req' \in [Requests -> Job]
    BY IdleIsJob DEF Done, Goto, TInv, TypeOK
  <1>2. CASE item' = item
    BY <1>1, <1>2 DEF TInv, TypeOK, Backed
  <1>3. CASE item' = [item EXCEPT ![i] = row]
    BY <1>1, <1>3, ItemType DEF TInv, TypeOK
  <1> QED
    BY <1>2, <1>3

LEMMA InsertItemType ==
  ASSUME TInv, NEW r \in Requests, InsertItem(r)
  PROVE  TInv'
  <1> PICK job \in Job : job = req[r]
    BY DEF TInv, TypeOK
  <1> DEFINE row == [status |-> "pending", campaign |-> job.campaign, variant |-> job.variant,
                     quantity |-> job.quantity, sold |-> 0]
  <1>1. /\ job.op = "insert"
        /\ Done(r)
        /\ UNCHANGED <<now, campaign, cron, started, history>>
    BY DEF InsertItem
  <1>2. row \in Registration
    BY <1>1, JobFacts, FlashSaleAssumption DEF Registration
  <1>3. item' = item \/ \E i \in Items : item' = [item EXCEPT ![i] = row] /\ Exists(job.campaign)
    BY DEF InsertItem
  <1>4. CASE item' = item
    BY <1>1, <1>4, IdleIsJob DEF TInv, TypeOK, Backed, history, Done, Goto
  <1>5. CASE \E i \in Items : item' = [item EXCEPT ![i] = row] /\ Exists(job.campaign)
    <2> PICK i \in Items : item' = [item EXCEPT ![i] = row] /\ Exists(job.campaign)
      BY <1>5
    <2>1. campaign[row.campaign] \in Campaign
      BY <1>1, JobFacts, CampaignIsRow DEF TInv
    <2> HIDE DEF row
    <2> QED
      BY <1>1, <1>2, <2>1, WriteType DEF TInv, TypeOK, history
  <1> QED
    BY <1>3, <1>4, <1>5

LEMMA ReadPendingType ==
  ASSUME TInv, NEW r \in Requests, NEW i \in Items, ReadPending(r, i)
  PROVE  TInv'
  <1>1. PICK job \in Job : Begin(r, job)
    BY DEF ReadPending, Job
  <1>2. started' \in 0 .. MaxRequests /\ Goto(r, job)
    BY <1>1, BeginCounts DEF TInv
  <1>3. contested' \subseteq Items
    BY DEF ReadPending, TInv, TypeOK
  <1> QED
    BY <1>2, <1>3, GotoType DEF ReadPending, TInv, TypeOK

LEMMA EditItemType ==
  ASSUME TInv, NEW r \in Requests, EditItem(r)
  PROVE  TInv'
  <1> PICK job \in Job : job = req[r]
    BY DEF TInv, TypeOK
  <1> PICK i : i = job.item
    OBVIOUS
  <1> PICK n : n = job.quantity
    OBVIOUS
  <1>1. /\ job.op = "edit"
        /\ item' = IF item[i] = NoItem THEN item ELSE [item EXCEPT ![i].quantity = n]
        /\ Done(r)
        /\ UNCHANGED <<now, campaign, cron, started, history>>
    BY DEF EditItem
  <1>2. i \in Items /\ n \in Nat
    BY <1>1, JobFacts, FlashSaleAssumption
  <1> PICK row : row = IF item[i] = NoItem THEN NoItem ELSE [item[i] EXCEPT !.quantity = n]
    OBVIOUS
  <1>3. item' = item \/ item' = [item EXCEPT ![i] = row]
    BY <1>1
  <1>4. row \in Registration \cup {NoItem}
    BY <1>2, ItemIsRow, QuantityKeepsRow DEF TInv
  <1>5. row # NoItem => campaign[row.campaign] \in Campaign
    BY <1>2, ItemIsRow, QuantityKeepsRow DEF TInv, Backed
  <1> QED
    BY <1>1, <1>2, <1>3, <1>4, <1>5, WriteType DEF TInv, TypeOK, history

LEMMA WithdrawItemType ==
  ASSUME TInv, NEW r \in Requests, WithdrawItem(r)
  PROVE  TInv'
  <1> PICK job \in Job : job = req[r]
    BY DEF TInv, TypeOK
  <1>1. /\ job.op = "withdraw"
        /\ item' = [item EXCEPT ![job.item] = NoItem]
        /\ Done(r)
        /\ UNCHANGED <<now, campaign, cron, started, history>>
    BY DEF WithdrawItem
  <1> QED
    BY <1>1, JobFacts, WriteType DEF TInv, TypeOK, history

LEMMA ApproveReadType ==
  ASSUME TInv, NEW r \in Requests, NEW i \in Items, ApproveRead(r, i)
  PROVE  TInv'
  <1> PICK row : row = item[i]
    OBVIOUS
  <1> DEFINE job == [op |-> "overlap", item |-> i, campaign |-> row.campaign,
                     variant |-> row.variant, window |-> campaign[row.campaign].window,
                     quantity |-> row.quantity]
  <1>1. Begin(r, job) /\ UNCHANGED <<now, rows, cron, reviewed, moved, patched>>
    BY DEF ApproveRead
  <1>2. row \in Registration /\ campaign[row.campaign] \in Campaign
    BY ItemIsRow DEF ApproveRead, TInv, Backed, NoItem
  <1>3. job \in Job
    BY <1>2 DEF Job, Registration, Campaign
  <1>4. contested' \subseteq Items /\ crossed' \subseteq Variants
    BY <1>2 DEF ApproveRead, Registration, TInv, TypeOK
  <1> HIDE DEF job
  <1>5. started' \in 0 .. MaxRequests /\ Goto(r, job)
    BY <1>1, BeginCounts DEF TInv
  <1> QED
    BY <1>1, <1>3, <1>4, <1>5, GotoType DEF TInv, TypeOK

LEMMA ApproveCheckType ==
  ASSUME TInv, NEW r \in Requests, ApproveCheck(r)
  PROVE  TInv'
  <1> PICK job \in Job : job = req[r]
    BY DEF TInv, TypeOK
  <1> DEFINE next == [op |-> "approve", item |-> job.item, variant |-> job.variant,
                      quantity |-> job.quantity]
  <1>1. /\ job.op = "overlap"
        /\ Done(r) \/ Goto(r, next)
        /\ UNCHANGED <<now, rows, cron, started, history>>
    BY DEF ApproveCheck
  <1>2. next \in Job
    BY <1>1, JobFacts DEF Job
  <1> QED
    BY <1>1, <1>2, IdleIsJob, MoveOnType DEF Done

LEMMA ApproveType ==
  ASSUME TInv, NEW r \in Requests, Approve(r)
  PROVE  TInv'
  <1> PICK job \in Job : job = req[r]
    BY DEF TInv, TypeOK
  <1> PICK i : i = job.item
    OBVIOUS
  <1>1. /\ job.op = "approve"
        /\ \/ UNCHANGED <<item, reviewed>>
           \/ /\ item[i] # NoItem
              /\ item' = [item EXCEPT ![i].status = "approved"]
              /\ reviewed' = [reviewed EXCEPT ![i] = job.quantity]
        /\ Done(r)
        /\ UNCHANGED <<now, campaign, cron, started, contested, crossed, moved, patched>>
    BY DEF Approve
  <1>2. i \in Items /\ job.quantity \in Nat
    BY <1>1, JobFacts
  <1>3. reviewed' \in [Items -> Nat]
    BY <1>1, <1>2 DEF TInv, TypeOK
  <1> PICK row : row = IF item[i] = NoItem THEN NoItem ELSE [item[i] EXCEPT !.status = "approved"]
    OBVIOUS
  <1>4. item' = item \/ item' = [item EXCEPT ![i] = row]
    BY <1>1
  <1>5. row \in Registration \cup {NoItem}
    BY <1>2, ItemIsRow, StatusKeepsRow DEF TInv
  <1>6. row # NoItem => campaign[row.campaign] \in Campaign
    BY <1>2, ItemIsRow, StatusKeepsRow DEF TInv, Backed
  <1> QED
    BY <1>1, <1>2, <1>3, <1>4, <1>5, <1>6, WriteType DEF TInv, TypeOK

LEMMA RejectReadType ==
  ASSUME TInv, NEW r \in Requests, NEW i \in Items, RejectRead(r, i)
  PROVE  TInv'
  <1>1. PICK job \in Job : Begin(r, job)
    BY DEF RejectRead, Job
  <1>2. started' \in 0 .. MaxRequests /\ Goto(r, job)
    BY <1>1, BeginCounts DEF TInv
  <1> QED
    BY <1>2, GotoType DEF RejectRead, TInv, TypeOK

LEMMA RejectType ==
  ASSUME TInv, NEW r \in Requests, Reject(r)
  PROVE  TInv'
  <1> PICK job \in Job : job = req[r]
    BY DEF TInv, TypeOK
  <1> PICK i : i = job.item
    OBVIOUS
  <1>1. /\ job.op = "reject"
        /\ item' = IF item[i] = NoItem THEN item ELSE [item EXCEPT ![i].status = "rejected"]
        /\ Done(r)
        /\ UNCHANGED <<now, campaign, cron, started, history>>
    BY DEF Reject
  <1>2. i \in Items
    BY <1>1, JobFacts
  <1> PICK row : row = IF item[i] = NoItem THEN NoItem ELSE [item[i] EXCEPT !.status = "rejected"]
    OBVIOUS
  <1>3. item' = item \/ item' = [item EXCEPT ![i] = row]
    BY <1>1
  <1>4. row \in Registration \cup {NoItem}
    BY <1>2, ItemIsRow, StatusKeepsRow DEF TInv
  <1>5. row # NoItem => campaign[row.campaign] \in Campaign
    BY <1>2, ItemIsRow, StatusKeepsRow DEF TInv, Backed
  <1> QED
    BY <1>1, <1>2, <1>3, <1>4, <1>5, WriteType DEF TInv, TypeOK, history

LEMMA RemoveItemType ==
  ASSUME TInv, NEW r \in Requests, NEW i \in Items, RemoveItem(r, i)
  PROVE  TInv'
  <1>1. started' \in 0 .. MaxRequests
    BY FlashSaleAssumption DEF RemoveItem, TInv, TypeOK
  <1> QED
    BY <1>1, ItemType DEF RemoveItem, history, TInv, TypeOK

LEMMA ConsumeType ==
  ASSUME TInv, NEW i \in Items, Consume(i)
  PROVE  TInv'
  <1>1. item[i] \in Registration
    BY ItemIsRow DEF Consume, OnSale, TInv
  <1>2. PICK row : row = [item[i] EXCEPT !.sold = item[i].sold + 1]
    OBVIOUS
  <1>3. row \in Registration /\ row.campaign = item[i].campaign
    BY <1>1, <1>2, SoldKeepsRow DEF Registration
  <1>4. item' = [item EXCEPT ![i] = row]
    BY <1>2 DEF Consume
  <1> QED
    BY <1>1, <1>3, <1>4, ItemType, NoRows DEF Consume, history, TInv, TypeOK, Backed

LEMMA ReverseType ==
  ASSUME TInv, NEW i \in Items, Reverse(i)
  PROVE  TInv'
  <1>1. item[i] \in Registration
    BY ItemIsRow DEF Reverse, TInv
  <1>2. PICK row : row = [item[i] EXCEPT !.sold = item[i].sold - 1]
    OBVIOUS
  <1>3. item[i].sold - 1 \in Nat
    BY <1>1 DEF Reverse, Registration
  <1>4. row \in Registration /\ row.campaign = item[i].campaign
    BY <1>1, <1>2, <1>3, SoldKeepsRow
  <1>5. item' = [item EXCEPT ![i] = row]
    BY <1>2 DEF Reverse
  <1> QED
    BY <1>1, <1>4, <1>5, ItemType, NoRows DEF Reverse, history, TInv, TypeOK, Backed

\* The two UPDATEs of the cron, and the clock.
LEMMA CronType ==
  ASSUME TInv, Tick \/ EndDue \/ ActivateDue
  PROVE  TInv'
  <1>1. CASE Tick
    <2>1. now' \in Times
      BY <1>1, FlashSaleAssumption DEF Tick, Times, TInv, TypeOK
    <2> QED
      BY <1>1, <2>1, CampaignType DEF Tick, rows, history, TInv, TypeOK
  <1>2. ASSUME NEW row \in Campaign, NEW st \in {"active", "ended"}
        PROVE  [row EXCEPT !.status = st] \in Campaign
    BY DEF Campaign
  <1>3. CASE EndDue
    <2>1. /\ campaign' \in [Campaigns -> Campaign \cup {NoCampaign}]
          /\ \A c \in Campaigns : campaign[c] \in Campaign => campaign'[c] \in Campaign
      BY <1>2, <1>3, CampaignIsRow DEF EndDue, TInv, TypeOK
    <2> QED
      BY <1>3, <2>1, CampaignType DEF EndDue, history, TInv, TypeOK
  <1>4. CASE ActivateDue
    <2>1. /\ campaign' \in [Campaigns -> Campaign \cup {NoCampaign}]
          /\ \A c \in Campaigns : campaign[c] \in Campaign => campaign'[c] \in Campaign
      BY <1>2, <1>4, CampaignIsRow DEF ActivateDue, TInv, TypeOK
    <2> QED
      BY <1>4, <2>1, CampaignType DEF ActivateDue, history, TInv, TypeOK
  <1> QED
    BY <1>1, <1>3, <1>4

LEMMA FailType ==
  ASSUME TInv, NEW r \in Requests, Fail(r)
  PROVE  TInv'
  BY IdleIsJob, MoveOnType DEF Fail, Done

LEMMA InitType == Init => TInv
  <1> SUFFICES ASSUME Init PROVE TInv
    OBVIOUS
  <1>1. campaign \in [Campaigns -> Campaign]
    <2>1. \A c \in Campaigns : Announced[c] \in Window
      BY FlashSaleAssumption DEF Window
    <2> QED
      BY <2>1 DEF Init, Campaign
  <1>2. item \in [Items -> Registration \cup {NoItem}]
    <2>1. Quantities \subseteq Nat
      BY FlashSaleAssumption
    <2>2. [status : {"pending"}, campaign : Campaigns, variant : Variants,
           quantity : Quantities, sold : {0}] \subseteq Registration
      <3> SUFFICES ASSUME NEW row \in [status : {"pending"}, campaign : Campaigns,
                                       variant : Variants, quantity : Quantities, sold : {0}]
                   PROVE  row \in Registration
        OBVIOUS
      <3>1. /\ row = [status |-> row.status, campaign |-> row.campaign, variant |-> row.variant,
                      quantity |-> row.quantity, sold |-> row.sold]
            /\ row.status = "pending" /\ row.campaign \in Campaigns /\ row.variant \in Variants
            /\ row.quantity \in Quantities /\ row.sold = 0
        OBVIOUS
      <3>2. row.quantity \in Nat
        BY <2>1, <3>1
      <3> QED
        BY <3>1, <3>2 DEF Registration
    <2>3. item \in [Items -> {NoItem} \cup
            [status : {"pending"}, campaign : Campaigns, variant : Variants,
             quantity : Quantities, sold : {0}]]
      BY DEF Init
    <2> QED
      BY <2>2, <2>3
  <1>3. now \in Times /\ started \in 0 .. MaxRequests
    BY FlashSaleAssumption DEF Init, Times
  <1>4. TypeOK
    BY <1>1, <1>2, <1>3, IdleIsJob DEF Init, TypeOK
  <1>5. Backed
    BY <1>1, <1>4, ItemIsRow DEF Backed, Registration
  <1> QED
    BY <1>4, <1>5 DEF TInv

LEMMA NextType == TInv /\ [Next]_vars => TInv'
  <1> SUFFICES ASSUME TInv, [Next]_vars PROVE TInv'
    OBVIOUS
  <1>1. ASSUME NEW r \in Requests, Admin(r) PROVE TInv'
    BY <1>1, CreateCampaignType, ReadCampaignType, DeleteCampaignType, UpdateCampaignType,
       ApproveReadType, RejectReadType, RemoveItemType, ApproveCheckType, ApproveType, RejectType
       DEF Admin
  <1>2. ASSUME NEW r \in Requests, Seller(r) PROVE TInv'
    BY <1>2, RegisterType, CheckExistsType, InsertItemType, ReadPendingType, EditItemType,
       WithdrawItemType DEF Seller
  <1>3. CASE UNCHANGED vars
    BY <1>3 DEF vars, rows, history, TInv, TypeOK, Backed
  <1> QED
    BY <1>1, <1>2, <1>3, FailType, ConsumeType, ReverseType, CronType DEF Next

\* Registrations, campaigns and requests keep their form: a registration on sale
\* always has its campaign, although campaigns are deleted.
THEOREM TypeCorrect == Spec => []TypeOK
  <1>1. TInv => TypeOK
    BY DEF TInv
  <1> QED
    BY <1>1, InitType, NextType, PTL DEF Spec

-----------------------------------------------------------------------------
(* Quantities.  What a deal sells is bounded by what a handler read of it  *)
(* some awaits ago, so the invariant says of every handler what its        *)
(* reading is still good for.                                              *)

Writing(job) == job.op \in {"edit", "withdraw"}
Deciding(job) == job.op \in {"overlap", "approve"}

\* A registration nobody raced for is within its quota and as it was reviewed.
Stored(i) ==
  item[i] # NoItem /\ i \notin contested =>
    /\ item[i].sold <= item[i].quantity
    /\ item[i].status = "approved" => item[i].quantity = reviewed[i]

\* A seller's request still finds the row unapproved and its new quantity enough;
\* an admin's still finds the quantity it read.
Sound(job) ==
  (Writing(job) \/ Deciding(job)) /\ job.item \notin contested /\ item[job.item] # NoItem =>
    /\ Writing(job) => item[job.item].status # "approved"
    /\ job.op = "edit" => item[job.item].sold <= job.quantity
    /\ Deciding(job) => item[job.item].quantity = job.quantity

\* Two requests at one registration, a seller's and an admin's, are known.
Apart(job, other) ==
  Writing(job) /\ Deciding(other) /\ job.item = other.item => job.item \in contested

BInv ==
  /\ \A i \in Items : Stored(i)
  /\ \A r \in Requests : Sound(req[r])
  /\ \A r, s \in Requests : Apart(req[r], req[s])

\* A handler that moves on to a job, perhaps marking items as raced for.
LEMMA GotoKeeps ==
  ASSUME TInv, BInv, NEW r \in Requests, NEW job, Goto(r, job),
         UNCHANGED <<item, reviewed>>, contested \subseteq contested',
         Sound(job)',
         \A s \in Requests : s # r =>
           /\ Writing(job) /\ Deciding(req[s]) /\ job.item = req[s].item => job.item \in contested'
           /\ Writing(req[s]) /\ Deciding(job) /\ job.item = req[s].item => job.item \in contested'
  PROVE  BInv'
  <1>1. \A s \in Requests : req'[s] = IF s = r THEN job ELSE req[s]
    BY DEF Goto, TInv, TypeOK
  <1>2. \A i \in Items : Stored(i)'
    BY DEF BInv, Stored
  <1>3. \A s \in Requests : Sound(req[s])'
    BY <1>1 DEF BInv, Sound
  <1>4. \A s, t \in Requests : Apart(req[s], req[t])'
    BY <1>1 DEF BInv, Apart, Writing, Deciding
  <1> QED
    BY <1>2, <1>3, <1>4 DEF BInv

\* A job that is at no registration's quantity.
LEMMA OtherJob ==
  ASSUME TInv, BInv, NEW r \in Requests, NEW job, Goto(r, job),
         ~Writing(job), ~Deciding(job), UNCHANGED <<item, reviewed, contested>>
  PROVE  BInv'
  BY GotoKeeps DEF Sound

\* Registrations that go away, and handlers that end.
LEMMA DropKeeps ==
  ASSUME BInv, \A i \in Items : item'[i] \in {item[i], NoItem},
         \A s \in Requests : req'[s] \in {req[s], Idle},
         TInv, UNCHANGED <<reviewed, contested>>
  PROVE  BInv'
  <1>1. \A i \in Items : Stored(i)'
    BY DEF BInv, Stored
  <1>2. ~Writing(Idle) /\ ~Deciding(Idle)
    BY DEF Writing, Deciding, Idle
  <1>3. ASSUME NEW s \in Requests PROVE Sound(req[s])'
    <2>1. Writing(req[s]) \/ Deciding(req[s]) => req[s].item \in Items
      BY JobFacts DEF TInv, TypeOK, Writing, Deciding
    <2> QED
      BY <1>2, <2>1 DEF BInv, Sound
  <1>4. \A s, t \in Requests : Apart(req[s], req[t])'
    BY <1>2 DEF BInv, Apart
  <1> QED
    BY <1>1, <1>3, <1>4 DEF BInv

\* A registration that is written, with what the requests at it see.
LEMMA WriteKeeps ==
  ASSUME TInv, BInv, NEW i \in Items, UNCHANGED contested,
         \A j \in Items : j # i => item'[j] = item[j] /\ reviewed'[j] = reviewed[j],
         \A s \in Requests : req'[s] \in {req[s], Idle},
         Stored(i)',
         \A s \in Requests : (Writing(req[s]) \/ Deciding(req[s])) /\ req[s].item = i /\ req'[s] = req[s]
           => Sound(req[s])'
  PROVE  BInv'
  <1>1. \A j \in Items : Stored(j)'
    BY DEF BInv, Stored
  <1>2. ~Writing(Idle) /\ ~Deciding(Idle)
    BY DEF Writing, Deciding, Idle
  <1>3. ASSUME NEW s \in Requests PROVE Sound(req[s])'
    <2>1. CASE req'[s] = Idle
      BY <1>2, <2>1 DEF Sound
    <2>2. CASE req'[s] = req[s] /\ ~(Writing(req[s]) \/ Deciding(req[s]))
      BY <2>2 DEF Sound
    <2>3. CASE req'[s] = req[s] /\ (Writing(req[s]) \/ Deciding(req[s])) /\ req[s].item # i
      <3>1. req[s].item \in Items
        BY <2>3, JobFacts DEF TInv, TypeOK, Writing, Deciding
      <3> QED
        BY <2>3, <3>1 DEF BInv, Sound
    <2> QED
      BY <2>1, <2>2, <2>3
  <1>4. \A s, t \in Requests : Apart(req[s], req[t])'
    BY <1>2 DEF BInv, Apart
  <1> QED
    BY <1>1, <1>3, <1>4 DEF BInv

LEMMA ReadPendingKeeps ==
  ASSUME TInv, BInv, NEW r \in Requests, NEW i \in Items, ReadPending(r, i)
  PROVE  BInv'
  <1>1. PICK job \in Job :
          /\ Begin(r, job) /\ Writing(job) /\ job.item = i
          /\ job.op = "edit" => job.quantity >= item[i].sold
    <2>1. CASE \E n \in Quantities :
                 n >= item[i].sold /\ Begin(r, [op |-> "edit", item |-> i, quantity |-> n])
      <3> PICK n \in Quantities :
                 n >= item[i].sold /\ Begin(r, [op |-> "edit", item |-> i, quantity |-> n])
        BY <2>1
      <3> PICK job : job = [op |-> "edit", item |-> i, quantity |-> n]
        OBVIOUS
      <3>1. job \in Job /\ Writing(job) /\ job.item = i /\ job.quantity = n
        BY DEF Job, Writing
      <3> QED
        BY <3>1
    <2>2. CASE Begin(r, [op |-> "withdraw", item |-> i])
      <3> PICK job : job = [op |-> "withdraw", item |-> i]
        OBVIOUS
      <3>1. job \in Job /\ Writing(job) /\ job.item = i /\ job.op # "edit"
        BY DEF Job, Writing
      <3> QED
        BY <2>2, <3>1
    <2> QED
      BY <2>1, <2>2 DEF ReadPending
  <1>2. Goto(r, job) /\ UNCHANGED <<item, reviewed>> /\ contested \subseteq contested'
        /\ item[i].status = "pending"
        /\ (Approving(i) => i \in contested')
    BY <1>1, BeginCounts DEF ReadPending, rows, TInv
  <1>3. ~Deciding(job)
    BY <1>1 DEF Writing, Deciding
  <1>4. item[i] \in Registration
    BY <1>2, ItemIsRow DEF TInv
  <1>5. job.op = "edit" => job.quantity \in Nat
    BY JobFacts, FlashSaleAssumption
  <1>6. Sound(job)'
    BY <1>1, <1>2, <1>3, <1>4, <1>5 DEF Sound, Registration
  <1>7. \A s \in Requests : Deciding(req[s]) /\ i = req[s].item => i \in contested'
    BY <1>2 DEF Approving, Deciding
  <1> QED
    BY <1>1, <1>2, <1>3, <1>6, <1>7, GotoKeeps

LEMMA ApproveReadKeeps ==
  ASSUME TInv, BInv, NEW r \in Requests, NEW i \in Items, ApproveRead(r, i)
  PROVE  BInv'
  <1>1. PICK job :
          Begin(r, job) /\ job.op = "overlap" /\ job.item = i /\ job.quantity = item[i].quantity
    BY DEF ApproveRead
  <1>2. Goto(r, job) /\ UNCHANGED <<item, reviewed>> /\ contested \subseteq contested'
        /\ (SellerWrites(i) => i \in contested')
    BY <1>1, BeginCounts DEF ApproveRead, rows, TInv
  <1>3. ~Writing(job)
    BY <1>1 DEF Writing
  <1>4. Sound(job)'
    BY <1>1, <1>2, <1>3 DEF Sound
  <1>5. \A s \in Requests : Writing(req[s]) /\ i = req[s].item => i \in contested'
    BY <1>2 DEF SellerWrites, Writing
  <1> QED
    BY <1>1, <1>2, <1>3, <1>4, <1>5, GotoKeeps

LEMMA ApproveCheckKeeps ==
  ASSUME TInv, BInv, NEW r \in Requests, ApproveCheck(r)
  PROVE  BInv'
  <1> PICK job \in Job : job = req[r]
    BY DEF TInv, TypeOK
  <1> PICK next : next = [op |-> "approve", item |-> job.item, variant |-> job.variant,
                          quantity |-> job.quantity]
    OBVIOUS
  <1>1. /\ job.op = "overlap"
        /\ Done(r) \/ Goto(r, next)
        /\ UNCHANGED <<item, reviewed, contested>>
    BY DEF ApproveCheck, rows, history
  <1>2. CASE Done(r)
    BY <1>1, <1>2, OtherJob DEF Done, Writing, Deciding, Idle
  <1>3. CASE Goto(r, next)
    <2>1. Sound(job)
      BY DEF BInv
    <2>2. Deciding(job) /\ Deciding(next) /\ ~Writing(job) /\ ~Writing(next)
          /\ next.op # "edit" /\ next.item = job.item /\ next.quantity = job.quantity
      BY <1>1 DEF Deciding, Writing
    <2>3. Sound(next)'
      BY <1>1, <2>1, <2>2 DEF Sound
    <2>4. \A s \in Requests : Writing(req[s]) /\ next.item = req[s].item => next.item \in contested'
      BY <1>1, <2>2 DEF BInv, Apart
    <2> QED
      BY <1>1, <1>3, <2>2, <2>3, <2>4, GotoKeeps
  <1> QED
    BY <1>1, <1>2, <1>3

LEMMA ApproveKeeps ==
  ASSUME TInv, BInv, NEW r \in Requests, Approve(r)
  PROVE  BInv'
  <1> PICK job \in Job : job = req[r]
    BY DEF TInv, TypeOK
  <1> PICK i : i = job.item
    OBVIOUS
  <1>1. /\ job.op = "approve"
        /\ \/ UNCHANGED <<item, reviewed>>
           \/ /\ item[i] # NoItem
              /\ item' = [item EXCEPT ![i].status = "approved"]
              /\ reviewed' = [reviewed EXCEPT ![i] = job.quantity]
        /\ Done(r)
        /\ UNCHANGED contested
    BY DEF Approve
  <1>2. i \in Items
    BY <1>1, JobFacts
  <1>3. CASE UNCHANGED <<item, reviewed>>
    BY <1>1, <1>3, OtherJob DEF Done, Writing, Deciding, Idle
  <1>4. CASE /\ item[i] # NoItem
             /\ item' = [item EXCEPT ![i].status = "approved"]
             /\ reviewed' = [reviewed EXCEPT ![i] = job.quantity]
    <2> PICK row : row = [item[i] EXCEPT !.status = "approved"]
      OBVIOUS
    <2>1. item[i] \in Registration
      BY <1>2, <1>4, ItemIsRow DEF TInv
    <2>2. row.status = "approved" /\ row.quantity = item[i].quantity /\ row.sold = item[i].sold
      BY <2>1, StatusKeepsRow
    <2>3. item'[i] = row /\ reviewed'[i] = job.quantity
      BY <1>2, <1>4 DEF TInv, TypeOK
    <2>4. \A j \in Items : j # i => item'[j] = item[j] /\ reviewed'[j] = reviewed[j]
      BY <1>2, <1>4 DEF TInv, TypeOK
    <2>5. Deciding(job) /\ ~Writing(job)
      BY <1>1 DEF Deciding, Writing
    <2>6. i \notin contested => item[i].quantity = job.quantity
      BY <1>4, <2>5 DEF BInv, Sound
    <2>7. Stored(i)'
      BY <1>1, <1>2, <1>4, <2>2, <2>3, <2>6 DEF BInv, Stored
    <2>8. \A s \in Requests : req'[s] \in {req[s], Idle}
      BY <1>1 DEF Done, Goto, TInv, TypeOK
    <2>9. ASSUME NEW s \in Requests, Writing(req[s]) \/ Deciding(req[s]), req[s].item = i,
                 req'[s] = req[s]
          PROVE  Sound(req[s])'
      <3>1. i \notin contested => ~Writing(req[s])
        BY <2>5, <2>9 DEF BInv, Apart
      <3>2. req[s].op = "edit" => Writing(req[s])
        BY DEF Writing
      <3>3. Deciding(req[s]) /\ i \notin contested => item[i].quantity = req[s].quantity
        BY <1>4, <2>9 DEF BInv, Sound
      <3> PICK other : other = req[s]
        OBVIOUS
      <3>4. Sound(other)'
        BY <1>1, <2>2, <2>3, <2>9, <3>1, <3>2, <3>3 DEF Sound
      <3> QED
        BY <2>9, <3>4 DEF Sound
    <2> QED
      BY <1>1, <1>2, <2>4, <2>7, <2>8, <2>9, WriteKeeps
  <1> QED
    BY <1>1, <1>3, <1>4

LEMMA EditItemKeeps ==
  ASSUME TInv, BInv, NEW r \in Requests, EditItem(r)
  PROVE  BInv'
  <1> PICK job \in Job : job = req[r]
    BY DEF TInv, TypeOK
  <1> PICK i : i = job.item
    OBVIOUS
  <1> PICK n : n = job.quantity
    OBVIOUS
  <1>1. /\ job.op = "edit"
        /\ item' = IF item[i] = NoItem THEN item ELSE [item EXCEPT ![i].quantity = n]
        /\ Done(r)
        /\ UNCHANGED <<reviewed, contested>>
    BY DEF EditItem, history
  <1>2. i \in Items /\ n \in Nat
    BY <1>1, JobFacts, FlashSaleAssumption
  <1>3. CASE item' = item
    BY <1>1, <1>3, OtherJob DEF Done, Writing, Deciding, Idle
  <1>4. CASE item[i] # NoItem /\ item' = [item EXCEPT ![i].quantity = n]
    <2> PICK row : row = [item[i] EXCEPT !.quantity = n]
      OBVIOUS
    <2>1. item[i] \in Registration
      BY <1>2, <1>4, ItemIsRow DEF TInv
    <2>2. row.status = item[i].status /\ row.quantity = n /\ row.sold = item[i].sold
      BY <1>2, <2>1, QuantityKeepsRow
    <2>3. item'[i] = row
      BY <1>2, <1>4 DEF TInv, TypeOK
    <2>4. \A j \in Items : j # i => item'[j] = item[j] /\ reviewed'[j] = reviewed[j]
      BY <1>1, <1>2, <1>4 DEF TInv, TypeOK
    <2>5. Writing(job)
      BY <1>1 DEF Writing
    <2>6. i \notin contested => item[i].status # "approved" /\ item[i].sold <= n
      BY <1>1, <1>4, <2>5 DEF BInv, Sound
    <2>7. Stored(i)'
      BY <1>1, <2>2, <2>3, <2>6 DEF Stored
    <2>8. \A s \in Requests : req'[s] \in {req[s], Idle}
      BY <1>1 DEF Done, Goto, TInv, TypeOK
    <2>9. ASSUME NEW s \in Requests, Writing(req[s]) \/ Deciding(req[s]), req[s].item = i,
                 req'[s] = req[s]
          PROVE  Sound(req[s])'
      <3>1. i \notin contested => ~Deciding(req[s])
        BY <2>5, <2>9 DEF BInv, Apart
      <3>2. i \notin contested /\ req[s].op = "edit" => item[i].sold <= req[s].quantity
        BY <1>4, <2>9 DEF BInv, Sound
      <3> PICK other : other = req[s]
        OBVIOUS
      <3>3. Sound(other)'
        BY <1>1, <2>2, <2>3, <2>6, <2>9, <3>1, <3>2 DEF Sound
      <3> QED
        BY <2>9, <3>3 DEF Sound
    <2> QED
      BY <1>1, <1>2, <2>4, <2>7, <2>8, <2>9, WriteKeeps
  <1> QED
    BY <1>1, <1>3, <1>4

\* A new registration has an id no request is at.
LEMMA InsertItemKeeps ==
  ASSUME TInv, BInv, NEW r \in Requests, InsertItem(r)
  PROVE  BInv'
  <1> PICK job \in Job : job = req[r]
    BY DEF TInv, TypeOK
  <1> PICK row : row = [status |-> "pending", campaign |-> job.campaign,
                        variant |-> job.variant, quantity |-> job.quantity, sold |-> 0]
    OBVIOUS
  <1>1. /\ job.op = "insert"
        /\ item' = item \/ \E i \in Items : Fresh(i) /\ item' = [item EXCEPT ![i] = row]
        /\ Done(r)
        /\ UNCHANGED <<reviewed, contested>>
    BY DEF InsertItem, history
  <1>2. CASE item' = item
    BY <1>1, <1>2, OtherJob DEF Done, Writing, Deciding, Idle
  <1>3. CASE \E i \in Items : Fresh(i) /\ item' = [item EXCEPT ![i] = row]
    <2> PICK i \in Items : Fresh(i) /\ item' = [item EXCEPT ![i] = row]
      BY <1>3
    <2>1. row.quantity \in Nat /\ row.sold = 0 /\ row.status = "pending"
      BY <1>1, JobFacts, FlashSaleAssumption
    <2>2. item'[i] = row
      BY DEF TInv, TypeOK
    <2>3. \A j \in Items : j # i => item'[j] = item[j] /\ reviewed'[j] = reviewed[j]
      BY <1>1 DEF TInv, TypeOK
    <2>4. Stored(i)'
      BY <2>1, <2>2 DEF Stored
    <2>5. \A s \in Requests : req'[s] \in {req[s], Idle}
      BY <1>1 DEF Done, Goto, TInv, TypeOK
    <2>6. \A s \in Requests : Writing(req[s]) \/ Deciding(req[s]) => req[s].item # i
      <3> SUFFICES ASSUME NEW s \in Requests, Writing(req[s]) \/ Deciding(req[s])
                   PROVE  req[s].item # i
        OBVIOUS
      <3>1. "item" \in DOMAIN req[s]
        BY DEF Writing, Deciding, Job, Idle, TInv, TypeOK
      <3> QED
        BY <3>1 DEF Fresh
    <2> QED
      BY <1>1, <2>3, <2>4, <2>5, <2>6, WriteKeeps
  <1> QED
    BY <1>1, <1>2, <1>3

LEMMA RejectKeeps ==
  ASSUME TInv, BInv, NEW r \in Requests, Reject(r)
  PROVE  BInv'
  <1> PICK job \in Job : job = req[r]
    BY DEF TInv, TypeOK
  <1> PICK i : i = job.item
    OBVIOUS
  <1>1. /\ job.op = "reject"
        /\ item' = IF item[i] = NoItem THEN item ELSE [item EXCEPT ![i].status = "rejected"]
        /\ Done(r)
        /\ UNCHANGED <<reviewed, contested>>
    BY DEF Reject, history
  <1>2. i \in Items
    BY <1>1, JobFacts
  <1>3. CASE item' = item
    BY <1>1, <1>3, OtherJob DEF Done, Writing, Deciding, Idle
  <1>4. CASE item[i] # NoItem /\ item' = [item EXCEPT ![i].status = "rejected"]
    <2> PICK row : row = [item[i] EXCEPT !.status = "rejected"]
      OBVIOUS
    <2>1. item[i] \in Registration
      BY <1>2, <1>4, ItemIsRow DEF TInv
    <2>2. row.status = "rejected" /\ row.quantity = item[i].quantity /\ row.sold = item[i].sold
      BY <2>1, StatusKeepsRow
    <2>3. item'[i] = row
      BY <1>2, <1>4 DEF TInv, TypeOK
    <2>4. \A j \in Items : j # i => item'[j] = item[j] /\ reviewed'[j] = reviewed[j]
      BY <1>1, <1>2, <1>4 DEF TInv, TypeOK
    <2>5. Stored(i)'
      BY <1>1, <1>2, <1>4, <2>2, <2>3 DEF BInv, Stored
    <2>6. \A s \in Requests : req'[s] \in {req[s], Idle}
      BY <1>1 DEF Done, Goto, TInv, TypeOK
    <2>7. ASSUME NEW s \in Requests, req[s].item = i, req'[s] = req[s]
          PROVE  Sound(req[s])'
      <3> PICK other : other = req[s]
        OBVIOUS
      <3>1. Sound(other)
        BY DEF BInv
      <3>2. Sound(other)'
        BY <1>1, <1>4, <2>2, <2>3, <2>7, <3>1 DEF Sound
      <3> QED
        BY <2>7, <3>2 DEF Sound
    <2> QED
      BY <1>1, <1>2, <2>4, <2>5, <2>6, <2>7, WriteKeeps
  <1> QED
    BY <1>1, <1>3, <1>4

\* Units sold: an uncontested deal on sale has no seller's request at it.
LEMMA ConsumeKeeps ==
  ASSUME TInv, BInv, NEW i \in Items, Consume(i)
  PROVE  BInv'
  <1> PICK row : row = [item[i] EXCEPT !.sold = item[i].sold + 1]
    OBVIOUS
  <1>1. /\ item[i].status = "approved"
        /\ item[i].sold + 1 <= item[i].quantity
        /\ item' = [item EXCEPT ![i] = row]
        /\ UNCHANGED <<req, reviewed, contested>>
    BY DEF Consume, OnSale, history
  <1>2. item[i] \in Registration /\ item[i] # NoItem
    BY <1>1, ItemIsRow, NoRows DEF TInv
  <1>3. item[i].sold + 1 \in Nat
    BY <1>2 DEF Registration
  <1>4. row.status = "approved" /\ row.quantity = item[i].quantity /\ row.sold = item[i].sold + 1
    BY <1>1, <1>2, <1>3, SoldKeepsRow
  <1>5. item'[i] = row
    BY <1>1 DEF TInv, TypeOK
  <1>6. \A j \in Items : j # i => item'[j] = item[j] /\ reviewed'[j] = reviewed[j]
    BY <1>1 DEF TInv, TypeOK
  <1>7. Stored(i)'
    BY <1>1, <1>2, <1>4, <1>5 DEF BInv, Stored
  <1>8. ASSUME NEW s \in Requests, Writing(req[s]) \/ Deciding(req[s]), req[s].item = i
        PROVE  Sound(req[s])'
    <2> PICK other : other = req[s]
      OBVIOUS
    <2>1. Sound(other)
      BY DEF BInv
    <2>2. i \notin contested => ~Writing(other)
      BY <1>1, <1>2, <1>8, <2>1 DEF Sound
    <2>3. Sound(other)'
      BY <1>1, <1>2, <1>4, <1>5, <1>8, <2>1, <2>2 DEF Sound, Writing
    <2> QED
      BY <1>1, <2>3 DEF Sound
  <1> QED
    BY <1>1, <1>6, <1>7, <1>8, WriteKeeps

LEMMA ReverseKeeps ==
  ASSUME TInv, BInv, NEW i \in Items, Reverse(i)
  PROVE  BInv'
  <1> PICK row : row = [item[i] EXCEPT !.sold = item[i].sold - 1]
    OBVIOUS
  <1>1. /\ item[i] # NoItem
        /\ item[i].sold > 0
        /\ item' = [item EXCEPT ![i] = row]
        /\ UNCHANGED <<req, reviewed, contested>>
    BY DEF Reverse, history
  <1>2. item[i] \in Registration
    BY <1>1, ItemIsRow DEF TInv
  <1>3. item[i].sold \in Nat /\ item[i].quantity \in Nat /\ item[i].sold - 1 \in Nat
    BY <1>1, <1>2 DEF Registration
  <1>4. /\ row.status = item[i].status /\ row.quantity = item[i].quantity
        /\ row.sold = item[i].sold - 1
    BY <1>2, <1>3, SoldKeepsRow
  <1>5. item'[i] = row
    BY <1>1 DEF TInv, TypeOK
  <1>6. \A j \in Items : j # i => item'[j] = item[j] /\ reviewed'[j] = reviewed[j]
    BY <1>1 DEF TInv, TypeOK
  <1>7. Stored(i)'
    BY <1>1, <1>3, <1>4, <1>5 DEF BInv, Stored
  <1>8. ASSUME NEW s \in Requests, req[s].item = i
        PROVE  Sound(req[s])'
    <2> PICK other \in Job : other = req[s]
      BY DEF TInv, TypeOK
    <2>1. Sound(other)
      BY DEF BInv
    <2>2. other.op = "edit" => other.quantity \in Nat
      BY JobFacts, FlashSaleAssumption
    <2>3. Sound(other)'
      BY <1>1, <1>3, <1>4, <1>5, <1>8, <2>1, <2>2 DEF Sound
    <2> QED
      BY <1>1, <2>3 DEF Sound
  <1> QED
    BY <1>1, <1>6, <1>7, <1>8, WriteKeeps

\* Steps at no registration's quantity.
LEMMA AdminKeeps ==
  ASSUME TInv, BInv, NEW r \in Requests, Admin(r)
  PROVE  BInv'
  <1>1. ASSUME NEW c \in Campaigns, NEW w \in Windows, CreateCampaign(r, c, w) PROVE BInv'
    BY <1>1, DropKeeps DEF CreateCampaign, history
  <1>2. ASSUME NEW c \in Campaigns, NEW p \in Patches, ReadCampaign(r, c, p) PROVE BInv'
    <2>1. PICK job : Begin(r, job) /\ job.op = "update"
      BY <1>2 DEF ReadCampaign
    <2> QED
      BY <1>2, <2>1, BeginCounts, OtherJob DEF ReadCampaign, rows, Writing, Deciding, TInv
  <1>3. ASSUME NEW c \in Campaigns, DeleteCampaign(r, c) PROVE BInv'
    <2>1. \A i \in Items : item'[i] \in {item[i], NoItem}
      BY <1>3 DEF DeleteCampaign
    <2> QED
      BY <1>3, <2>1, DropKeeps DEF DeleteCampaign, history
  <1>4. ASSUME UpdateCampaign(r) PROVE BInv'
    <2>1. \A s \in Requests : req'[s] \in {req[s], Idle}
      BY <1>4 DEF UpdateCampaign, Done, Goto, TInv, TypeOK
    <2> QED
      BY <1>4, <2>1, DropKeeps DEF UpdateCampaign
  <1>5. ASSUME NEW i \in Items, RejectRead(r, i) PROVE BInv'
    <2>1. PICK job : Begin(r, job) /\ job.op = "reject"
      BY <1>5 DEF RejectRead
    <2> QED
      BY <1>5, <2>1, BeginCounts, OtherJob DEF RejectRead, rows, Writing, Deciding, TInv
  <1>6. ASSUME NEW i \in Items, RemoveItem(r, i) PROVE BInv'
    <2>1. \A j \in Items : item'[j] \in {item[j], NoItem}
      BY <1>6 DEF RemoveItem, TInv, TypeOK
    <2> QED
      BY <1>6, <2>1, DropKeeps DEF RemoveItem, history
  <1> QED
    BY <1>1, <1>2, <1>3, <1>4, <1>5, <1>6, ApproveReadKeeps, ApproveCheckKeeps, ApproveKeeps,
       RejectKeeps DEF Admin

LEMMA SellerKeeps ==
  ASSUME TInv, BInv, NEW r \in Requests, Seller(r)
  PROVE  BInv'
  <1>1. ASSUME NEW c \in Campaigns, NEW v \in Variants, NEW n \in Quantities, Register(r, c, v, n)
        PROVE  BInv'
    <2>1. PICK job : Begin(r, job) /\ job.op = "exists"
      BY <1>1 DEF Register
    <2> QED
      BY <1>1, <2>1, BeginCounts, OtherJob DEF Register, rows, history, Writing, Deciding, TInv
  <1>2. ASSUME CheckExists(r) PROVE BInv'
    <2> PICK job \in Job : job = req[r]
      BY DEF TInv, TypeOK
    <2> PICK next : next = [job EXCEPT !.op = "insert"]
      OBVIOUS
    <2>1. job.op = "exists" /\ (Done(r) \/ Goto(r, next)) /\ UNCHANGED <<item, reviewed, contested>>
      BY <1>2 DEF CheckExists, rows, history
    <2>2. next.op = "insert"
      BY <2>1 DEF Job, Idle
    <2> QED
      BY <2>1, <2>2, OtherJob DEF Done, Writing, Deciding, Idle
  <1>3. ASSUME WithdrawItem(r) PROVE BInv'
    <2>1. /\ \A j \in Items : item'[j] \in {item[j], NoItem}
          /\ \A s \in Requests : req'[s] \in {req[s], Idle}
      BY <1>3 DEF WithdrawItem, Done, Goto, TInv, TypeOK
    <2> QED
      BY <1>3, <2>1, DropKeeps DEF WithdrawItem, history
  <1> QED
    BY <1>1, <1>2, <1>3, InsertItemKeeps, ReadPendingKeeps, EditItemKeeps DEF Seller

LEMMA NextKeeps == TInv /\ BInv /\ [Next]_vars => BInv'
  <1> SUFFICES ASSUME TInv, BInv, [Next]_vars PROVE BInv'
    OBVIOUS
  <1>1. ASSUME NEW r \in Requests, Fail(r) PROVE BInv'
    BY <1>1, OtherJob DEF Fail, Done, rows, history, Writing, Deciding, Idle
  <1>2. CASE Tick \/ EndDue \/ ActivateDue
    BY <1>2, DropKeeps DEF Tick, EndDue, ActivateDue, rows, history
  <1>3. CASE UNCHANGED vars
    BY <1>3, DropKeeps DEF vars, rows, history
  <1> QED
    BY <1>1, <1>2, <1>3, AdminKeeps, SellerKeeps, ConsumeKeeps, ReverseKeeps DEF Next

LEMMA InitKeeps == Init => BInv
  <1> SUFFICES ASSUME Init PROVE BInv
    OBVIOUS
  <1>1. \A i \in Items : item[i] # NoItem =>
          item[i].status = "pending" /\ item[i].sold = 0 /\ item[i].quantity \in Quantities
    BY DEF Init
  <1>2. \A i \in Items : Stored(i)
    <2>1. \A n \in Quantities : 0 <= n
      BY FlashSaleAssumption
    <2>2. "pending" # "approved"
      OBVIOUS
    <2> QED
      BY <1>1, <2>1, <2>2 DEF Stored
  <1>3. \A r \in Requests : ~Writing(req[r]) /\ ~Deciding(req[r])
    BY DEF Init, Writing, Deciding, Idle
  <1> QED
    BY <1>2, <1>3 DEF BInv, Sound, Apart

LEMMA Quantified == Spec => [](TInv /\ BInv)
  BY InitType, NextType, InitKeeps, NextKeeps, PTL DEF Spec

\* Edits, decisions, removals and checkouts in any order never sell more of a deal
\* than its quantity, unless an edit was in flight during the approval.
THEOREM WithinQuota == Spec => []SoldWithinQuota
  <1>1. BInv => SoldWithinQuota
    BY DEF BInv, Stored, SoldWithinQuota
  <1> QED
    BY <1>1, Quantified, PTL

\* What is on sale is what its approval had read, unless the seller changed it
\* meanwhile.
THEOREM AsReviewed == Spec => []ApprovedAsReviewed
  <1>1. BInv => ApprovedAsReviewed
    BY DEF BInv, Stored, ApprovedAsReviewed, NoItem
  <1> QED
    BY <1>1, Quantified, PTL

-----------------------------------------------------------------------------
(* Windows.  An update writes what it checked unless the row changed under *)
(* it, and the only steps that move a window are updates.                  *)

Merged(job) == [e \in Edges |-> IF e \in DOMAIN job.patch THEN job.patch[e]
                                ELSE campaign[job.campaign].window[e]]

\* What an update will leave of the row is still a valid window.
Checks(job) ==
  job.op = "update" /\ Exists(job.campaign) /\ job.campaign \notin patched
    => ValidWindow(Merged(job))

\* Two updates of a campaign are known.
Single(job, other) ==
  job.op = "update" /\ other.op = "update" /\ job.campaign = other.campaign
    => job.campaign \in patched

UInv ==
  /\ WindowIsValid
  /\ \A r \in Requests : Checks(req[r])
  /\ \A r, s \in Requests : r # s => Single(req[r], req[s])

\* Steps that move no window and begin no update.
LEMMA WindowsKept ==
  ASSUME TInv, UInv, UNCHANGED patched,
         \A c \in Campaigns : Exists(c)' => Exists(c) /\ campaign'[c].window = campaign[c].window,
         \A s \in Requests : req'[s].op = "update" => req'[s] = req[s]
  PROVE  UInv'
  <1>1. WindowIsValid'
    BY DEF UInv, WindowIsValid, ValidWindow
  <1>2. ASSUME NEW s \in Requests PROVE Checks(req[s])'
    <2> SUFFICES ASSUME req'[s].op = "update", Exists(req[s].campaign)', req'[s].campaign \notin patched
                 PROVE  ValidWindow(Merged(req[s]))'
      BY DEF Checks
    <2> PICK job \in Job : job = req[s]
      BY DEF TInv, TypeOK
    <2>1. req'[s] = job /\ job.op = "update"
      OBVIOUS
    <2>2. job.campaign \in Campaigns
      BY <2>1, JobFacts
    <2>3. Exists(job.campaign)'
      BY <2>1 DEF Exists
    <2>4. Exists(job.campaign) /\ campaign'[job.campaign].window = campaign[job.campaign].window
      BY <2>2, <2>3
    <2>5. ValidWindow(Merged(job))
      BY <2>1, <2>4 DEF UInv, Checks
    <2>6. Merged(job)' = Merged(job)
      BY <2>4 DEF Merged
    <2>7. Merged(req[s])' = Merged(job)
      BY <2>1, <2>6 DEF Merged
    <2> QED
      BY <2>5, <2>7 DEF ValidWindow
  <1>3. ASSUME NEW s \in Requests, NEW t \in Requests, s # t PROVE Single(req[s], req[t])'
    BY <1>3 DEF UInv, Single
  <1> QED
    BY <1>1, <1>2, <1>3 DEF UInv

\* A handler that moves on to something other than an update.
LEMMA OtherUpdate ==
  ASSUME TInv, UInv, NEW r \in Requests, NEW job, Goto(r, job), job.op # "update",
         UNCHANGED <<campaign, patched>>
  PROVE  UInv'
  <1>1. \A s \in Requests : req'[s] = IF s = r THEN job ELSE req[s]
    BY DEF Goto, TInv, TypeOK
  <1> QED
    BY <1>1, WindowsKept DEF Exists

LEMMA CreateCampaignWindows ==
  ASSUME TInv, UInv, NEW r \in Requests, NEW c \in Campaigns, NEW w \in Windows,
         CreateCampaign(r, c, w)
  PROVE  UInv'
  <1>1. campaign'[c].window = w /\ \A d \in Campaigns : d # c => campaign'[d] = campaign[d]
    BY DEF CreateCampaign, TInv, TypeOK
  <1>2. ValidWindow(w) /\ UNCHANGED <<req, patched>>
    BY DEF CreateCampaign, history
  <1>3. WindowIsValid'
    BY <1>1, <1>2 DEF UInv, WindowIsValid, Exists, ValidWindow
  <1>4. ASSUME NEW s \in Requests PROVE Checks(req[s])'
    <2> PICK job \in Job : job = req[s]
      BY DEF TInv, TypeOK
    <2>1. job.op = "update" => job.campaign \in Campaigns /\ "campaign" \in DOMAIN job
      BY JobFacts DEF Job, Idle
    <2>2. job.op = "update" => campaign'[job.campaign] = campaign[job.campaign]
      BY <1>1, <2>1 DEF CreateCampaign
    <2>3. Checks(job)
      BY DEF UInv
    <2>4. Checks(job)'
      BY <1>2, <2>2, <2>3 DEF Checks, Merged, Exists
    <2> QED
      BY <1>2, <2>4 DEF Checks, Merged, Exists
  <1>5. \A s, t \in Requests : s # t => Single(req[s], req[t])'
    BY <1>2 DEF UInv, Single
  <1> QED
    BY <1>3, <1>4, <1>5 DEF UInv

LEMMA ReadCampaignWindows ==
  ASSUME TInv, UInv, NEW r \in Requests, NEW c \in Campaigns, NEW p \in Patches,
         ReadCampaign(r, c, p)
  PROVE  UInv'
  <1> DEFINE merged == [e \in Edges |-> IF e \in DOMAIN p THEN p[e] ELSE campaign[c].window[e]]
  <1>1. PICK job : job = [op |-> "update", campaign |-> c, patch |-> p, window |-> merged]
    OBVIOUS
  <1>2. Begin(r, job) /\ ValidWindow(merged) /\ UNCHANGED campaign
    BY <1>1 DEF ReadCampaign, rows
  <1>3. job.op = "update" /\ job.campaign = c /\ Merged(job) = merged
    BY <1>1 DEF Merged
  <1>4. \A s \in Requests : req'[s] = IF s = r THEN job ELSE req[s]
    BY <1>2 DEF Begin, Goto, TInv, TypeOK
  <1>5. /\ patched \subseteq patched'
        /\ \A s \in Requests : req[s].op = "update" /\ req[s].campaign = c => c \in patched'
    BY DEF ReadCampaign
  <1>6. WindowIsValid'
    BY <1>2, <1>5 DEF UInv, WindowIsValid, Exists
  <1>7. ASSUME NEW s \in Requests PROVE Checks(req[s])'
    <2>1. CASE s = r
      <3>1. ValidWindow(Merged(job))'
        BY <1>2, <1>3 DEF Merged
      <3>2. Merged(req[s])' = Merged(job)'
        BY <1>4, <2>1 DEF Merged
      <3> QED
        BY <3>1, <3>2 DEF Checks, ValidWindow
    <2>2. CASE s # r
      <3>1. req'[s] = req[s]
        BY <1>4, <2>2
      <3>2. Checks(req[s])
        BY DEF UInv
      <3> QED
        BY <1>2, <1>5, <3>1, <3>2 DEF Checks, Merged, Exists
    <2> QED
      BY <2>1, <2>2
  <1>8. \A s, t \in Requests : s # t => Single(req[s], req[t])'
    BY <1>3, <1>4, <1>5 DEF UInv, Single
  <1> QED
    BY <1>6, <1>7, <1>8 DEF UInv

LEMMA UpdateCampaignWindows ==
  ASSUME TInv, UInv, NEW r \in Requests, UpdateCampaign(r)
  PROVE  UInv'
  <1> PICK job \in Job : job = req[r]
    BY DEF TInv, TypeOK
  <1> PICK c : c = job.campaign
    OBVIOUS
  <1>1. job.op = "update" /\ UNCHANGED patched /\ Done(r)
    BY DEF UpdateCampaign
  <1>2. c \in Campaigns
    BY <1>1, JobFacts
  <1>3. \A d \in Campaigns : d # c => campaign'[d] = campaign[d]
    BY DEF UpdateCampaign, TInv, TypeOK
  <1>4. IF Exists(c) THEN campaign'[c].window = Merged(job) ELSE campaign'[c] = NoCampaign
    BY <1>2 DEF UpdateCampaign, Merged, Exists, TInv, TypeOK
  <1>5. Exists(c) /\ c \notin patched => ValidWindow(Merged(job))
    BY <1>1 DEF UInv, Checks
  <1>6. WindowIsValid'
    BY <1>1, <1>2, <1>3, <1>4, <1>5 DEF UInv, WindowIsValid, Exists, ValidWindow
  <1>7. \A s \in Requests : req'[s] = IF s = r THEN Idle ELSE req[s]
    BY <1>1 DEF Done, Goto, TInv, TypeOK
  <1>8. Idle.op # "update"
    BY DEF Idle
  <1>9. ASSUME NEW s \in Requests PROVE Checks(req[s])'
    <2>1. CASE s = r
      BY <1>7, <1>8, <2>1 DEF Checks
    <2>2. CASE s # r
      <3> PICK other \in Job : other = req[s]
        BY DEF TInv, TypeOK
      <3>1. req'[s] = other
        BY <1>7, <2>2
      <3>2. other.op = "update" /\ other.campaign \notin patched =>
              other.campaign \in Campaigns /\ other.campaign # c
        BY <1>1, <2>2, JobFacts DEF UInv, Single
      <3>3. Checks(other)
        BY DEF UInv
      <3>4. Checks(other)'
        BY <1>1, <1>3, <3>2, <3>3 DEF Checks, Merged, Exists
      <3> QED
        BY <3>1, <3>4 DEF Checks, Merged, Exists
    <2> QED
      BY <2>1, <2>2
  <1>10. \A s, t \in Requests : s # t => Single(req[s], req[t])'
    BY <1>1, <1>7, <1>8 DEF UInv, Single
  <1> QED
    BY <1>6, <1>9, <1>10 DEF UInv

LEMMA DeleteCampaignWindows ==
  ASSUME TInv, UInv, NEW r \in Requests, NEW c \in Campaigns, DeleteCampaign(r, c)
  PROVE  UInv'
  <1>1. campaign' = [campaign EXCEPT ![c] = NoCampaign] /\ UNCHANGED <<req, patched>>
    BY DEF DeleteCampaign, history
  <1>2. \A d \in Campaigns : Exists(d)' => d # c /\ campaign'[d] = campaign[d]
    BY <1>1 DEF Exists, TInv, TypeOK
  <1>3. \A d \in Campaigns : Exists(d)' => Exists(d) /\ campaign'[d].window = campaign[d].window
    BY <1>2 DEF Exists
  <1> QED
    BY <1>1, <1>3, WindowsKept

\* The cron changes statuses only.
LEMMA CronWindows ==
  ASSUME TInv, UInv, EndDue \/ ActivateDue
  PROVE  UInv'
  <1>1. UNCHANGED <<req, patched>>
    BY DEF EndDue, ActivateDue, history
  <1>2. ASSUME NEW row \in Campaign, NEW st \in {"active", "ended"}
        PROVE  [row EXCEPT !.status = st].window = row.window
    BY DEF Campaign
  <1>3. \A c \in Campaigns : Exists(c)' => Exists(c)
    BY DEF EndDue, ActivateDue, Exists
  <1>4. ASSUME NEW c \in Campaigns, Exists(c) PROVE campaign'[c].window = campaign[c].window
    <2>1. campaign[c] \in Campaign
      BY <1>4, CampaignIsRow DEF TInv
    <2>2. \/ campaign'[c] = campaign[c]
          \/ campaign'[c] = [campaign[c] EXCEPT !.status = "ended"]
          \/ campaign'[c] = [campaign[c] EXCEPT !.status = "active"]
      BY DEF EndDue, ActivateDue
    <2>3. /\ [campaign[c] EXCEPT !.status = "ended"].window = campaign[c].window
          /\ [campaign[c] EXCEPT !.status = "active"].window = campaign[c].window
      BY <1>2, <2>1
    <2> QED
      BY <2>2, <2>3
  <1> QED
    BY <1>1, <1>3, <1>4, WindowsKept

\* A request that begins with, or ends in, something other than an update.
LEMMA BeginsOther ==
  ASSUME TInv, UInv, NEW r, NEW job, Begin(r, job), r \in Requests, job.op # "update",
         UNCHANGED <<campaign, patched>>
  PROVE  UInv'
  BY BeginCounts, OtherUpdate DEF TInv

LEMMA EndsUpdate ==
  ASSUME TInv, UInv, NEW r \in Requests, Done(r), UNCHANGED <<campaign, patched>>
  PROVE  UInv'
  BY OtherUpdate DEF Done, Idle

LEMMA AdminWindows ==
  ASSUME TInv, UInv, NEW r \in Requests, Admin(r)
  PROVE  UInv'
  <1>1. ASSUME NEW i \in Items, ApproveRead(r, i) PROVE UInv'
    <2>1. PICK job : Begin(r, job) /\ job.op = "overlap"
      BY <1>1 DEF ApproveRead
    <2> QED
      BY <1>1, <2>1, BeginsOther DEF ApproveRead, rows
  <1>2. ASSUME NEW i \in Items, RejectRead(r, i) PROVE UInv'
    <2>1. PICK job : Begin(r, job) /\ job.op = "reject"
      BY <1>2 DEF RejectRead
    <2> QED
      BY <1>2, <2>1, BeginsOther DEF RejectRead, rows
  <1>3. ASSUME NEW i \in Items, RemoveItem(r, i) PROVE UInv'
    BY <1>3, WindowsKept DEF RemoveItem, history, Exists
  <1>4. ASSUME ApproveCheck(r) PROVE UInv'
    <2>1. PICK job : Goto(r, job) /\ job.op # "update"
      BY <1>4 DEF ApproveCheck, Done, Idle
    <2> QED
      BY <1>4, <2>1, OtherUpdate DEF ApproveCheck, rows, history
  <1>5. ASSUME Approve(r) \/ Reject(r) PROVE UInv'
    BY <1>5, EndsUpdate DEF Approve, Reject, history
  <1> QED
    BY <1>1, <1>2, <1>3, <1>4, <1>5, CreateCampaignWindows, ReadCampaignWindows,
       UpdateCampaignWindows, DeleteCampaignWindows DEF Admin

LEMMA SellerWindows ==
  ASSUME TInv, UInv, NEW r \in Requests, Seller(r)
  PROVE  UInv'
  <1>1. ASSUME NEW c \in Campaigns, NEW v \in Variants, NEW n \in Quantities, Register(r, c, v, n)
        PROVE  UInv'
    <2>1. PICK job : Begin(r, job) /\ job.op = "exists"
      BY <1>1 DEF Register
    <2> QED
      BY <1>1, <2>1, BeginsOther DEF Register, rows, history
  <1>2. ASSUME CheckExists(r) PROVE UInv'
    <2> PICK job \in Job : job = req[r]
      BY DEF TInv, TypeOK
    <2> PICK next : next = [job EXCEPT !.op = "insert"]
      OBVIOUS
    <2>1. job.op = "exists" /\ (Done(r) \/ Goto(r, next)) /\ UNCHANGED <<campaign, patched>>
      BY <1>2 DEF CheckExists, rows, history
    <2>2. next.op = "insert"
      BY <2>1 DEF Job, Idle
    <2> QED
      BY <2>1, <2>2, OtherUpdate, EndsUpdate
  <1>3. ASSUME InsertItem(r) \/ EditItem(r) \/ WithdrawItem(r) PROVE UInv'
    BY <1>3, EndsUpdate DEF InsertItem, EditItem, WithdrawItem, history
  <1>4. ASSUME NEW i \in Items, ReadPending(r, i) PROVE UInv'
    <2>1. PICK job : Begin(r, job) /\ job.op \in {"edit", "withdraw"}
      <3>1. CASE \E n \in Quantities : Begin(r, [op |-> "edit", item |-> i, quantity |-> n])
        BY <3>1
      <3>2. CASE Begin(r, [op |-> "withdraw", item |-> i])
        BY <3>2
      <3> QED
        BY <1>4, <3>1, <3>2 DEF ReadPending
    <2> QED
      BY <1>4, <2>1, BeginsOther DEF ReadPending, rows
  <1> QED
    BY <1>1, <1>2, <1>3, <1>4 DEF Seller

LEMMA NextWindows == TInv /\ UInv /\ [Next]_vars => UInv'
  <1> SUFFICES ASSUME TInv, UInv, [Next]_vars PROVE UInv'
    OBVIOUS
  <1>1. ASSUME NEW r \in Requests, Fail(r) PROVE UInv'
    BY <1>1, EndsUpdate DEF Fail, rows, history
  <1>2. ASSUME NEW i \in Items, Consume(i) \/ Reverse(i) PROVE UInv'
    BY <1>2, WindowsKept DEF Consume, Reverse, history, Exists
  <1>3. CASE Tick \/ UNCHANGED vars
    BY <1>3, WindowsKept DEF Tick, vars, rows, history, Exists
  <1> QED
    BY <1>1, <1>2, <1>3, AdminWindows, SellerWindows, CronWindows DEF Next

LEMMA InitWindows == Init => UInv
  <1> SUFFICES ASSUME Init PROVE UInv
    OBVIOUS
  <1>1. WindowIsValid
    BY FlashSaleAssumption DEF Init, WindowIsValid, ValidWindow
  <1>2. \A r \in Requests : req[r].op # "update"
    BY DEF Init, Idle
  <1> QED
    BY <1>1, <1>2 DEF UInv, Checks, Single

\* Updates write parts of a window they checked as a whole, and the scheduler writes
\* its status; the window stays a valid one unless two updates of one campaign read
\* the same row.
THEOREM WindowsValid == Spec => []WindowIsValid
  <1>1. UInv => WindowIsValid
    BY DEF UInv
  <1> QED
    BY <1>1, InitType, NextType, InitWindows, NextWindows, PTL DEF Spec

-----------------------------------------------------------------------------
(* One price.  The check of an approval is good for as long as neither     *)
(* campaign moves and no other approval of the variant runs.               *)

Dead(d) == ~d.isActive \/ d.status = "ended"
Meet(w, u) == w["from"] < u["to"] /\ w["to"] > u["from"]

\* Two campaigns whose deals are not on at one time.
Clear(c, d) ==
  \/ Dead(campaign[c])
  \/ Dead(campaign[d])
  \/ ~Meet(campaign[c].window, campaign[d].window)

Listed(i) == item[i].status \in {"pending", "approved"}
Approved(i) == item[i].status = "approved"

\* uq_flash_sale_items_sale_variant.
Unique(i, j) ==
  i # j /\ Listed(i) /\ Listed(j) /\ item[i].variant = item[j].variant
    => item[i].campaign # item[j].campaign

\* Two registrations of a variant nothing excuses.
ClearOf(i, j) ==
  /\ item[i].campaign # item[j].campaign
  /\ item[i].variant = item[j].variant
  /\ item[i].variant \notin crossed
  /\ item[i].campaign \notin moved
  /\ item[j].campaign \notin moved
  => Clear(item[i].campaign, item[j].campaign)

\* What an approval has read of its registration and campaign is still there.
Named(job) ==
  Deciding(job) /\ item[job.item] # NoItem =>
    /\ item[job.item].variant = job.variant
    /\ job.op = "overlap" =>
         /\ item[job.item].campaign = job.campaign
         /\ job.campaign \notin moved => campaign[job.campaign].window = job.window

\* What its check has found still holds.
Checked(job) ==
  job.op = "approve" /\ item[job.item] # NoItem =>
    \A j \in Items : Approved(j) => ClearOf(job.item, j)

\* Two approvals of a variant are known.
Crossing(job, other) ==
  Deciding(job) /\ Deciding(other) /\ job.variant = other.variant => job.variant \in crossed

DInv ==
  /\ \A i, j \in Items : Unique(i, j)
  /\ \A i, j \in Items : Approved(i) /\ Approved(j) => ClearOf(i, j)
  /\ \A r \in Requests : Named(req[r]) /\ Checked(req[r])
  /\ \A r, s \in Requests : r # s => Crossing(req[r], req[s])

\* A registration an approval or a check is about.
Minded(i) == Approved(i) \/ \E s \in Requests : Deciding(req[s]) /\ req[s].item = i

\* Such a registration's campaign stays where it is or is known to have moved.
Stays(i) ==
  item'[i] # NoItem /\ Minded(i) /\ item[i].campaign \notin moved' =>
    /\ campaign'[item[i].campaign].window = campaign[item[i].campaign].window
    /\ Dead(campaign[item[i].campaign]) => Dead(campaign'[item[i].campaign])

\* A registration's row keeps its keys and is not listed or approved by this step.
Kept(i) ==
  item'[i] # NoItem =>
    /\ item[i] # NoItem
    /\ item'[i].campaign = item[i].campaign
    /\ item'[i].variant = item[i].variant
    /\ Approved(i)' => Approved(i)
    /\ Listed(i)' => Listed(i)

LEMMA NoneListed ==
  ASSUME NEW i
  PROVE  /\ Listed(i) => item[i] # NoItem
         /\ Approved(i) => item[i] # NoItem /\ Listed(i)
         /\ Listed(i)' => item'[i] # NoItem
         /\ Approved(i)' => item'[i] # NoItem /\ Listed(i)'
  BY DEF Listed, Approved, NoItem

\* What was clear of another stays so.
LEMMA StaysClear ==
  ASSUME NEW i \in Items, NEW j \in Items, ClearOf(i, j), Kept(i), Kept(j), Stays(i), Stays(j),
         Minded(i), Minded(j), item'[i] # NoItem, item'[j] # NoItem,
         crossed \subseteq crossed', moved \subseteq moved'
  PROVE  ClearOf(i, j)'
  BY DEF ClearOf, Kept, Stays, Clear, Dead, Meet

\* Steps that begin, move on and end no approval, and list no registration.
LEMMA RowsKept ==
  ASSUME TInv, DInv, \A i \in Items : Kept(i) /\ Stays(i),
         \A s \in Requests : Deciding(req'[s]) => req'[s] = req[s],
         crossed \subseteq crossed', moved \subseteq moved'
  PROVE  DInv'
  <1>1. ASSUME NEW i \in Items, NEW j \in Items PROVE Unique(i, j)'
    BY NoneListed DEF DInv, Unique, Kept
  <1>2. ASSUME NEW i \in Items, NEW j \in Items, Approved(i)', Approved(j)' PROVE ClearOf(i, j)'
    <2>1. item'[i] # NoItem /\ item'[j] # NoItem
      BY <1>2, NoneListed
    <2>2. Approved(i) /\ Approved(j)
      BY <1>2, <2>1 DEF Kept
    <2>3. ClearOf(i, j)
      BY <2>2 DEF DInv
    <2> QED
      BY <2>1, <2>2, <2>3, StaysClear DEF Minded
  <1>3. ASSUME NEW s \in Requests, Deciding(req'[s]), item'[req'[s].item] # NoItem
        PROVE  Named(req[s])' /\ Checked(req[s])'
    <2> PICK job \in Job : job = req[s]
      BY DEF TInv, TypeOK
    <2>1. req'[s] = job /\ Deciding(job)
      BY <1>3
    <2> PICK i \in Items : i = job.item
      BY <2>1, JobFacts DEF Deciding
    <2>2. Minded(i) /\ item'[i] # NoItem /\ Kept(i) /\ Stays(i)
      BY <1>3, <2>1 DEF Minded
    <2>3. Named(job) /\ Checked(job)
      BY DEF DInv
    <2>4. Named(job)'
      BY <2>1, <2>2, <2>3 DEF Named, Kept, Stays
    <2>5. ASSUME job.op = "approve", NEW j \in Items, Approved(j)' PROVE ClearOf(i, j)'
      <3>1. item'[j] # NoItem /\ Approved(j)
        BY <2>5, NoneListed DEF Kept
      <3>2. ClearOf(i, j)
        BY <2>2, <2>3, <2>5, <3>1 DEF Checked, Kept
      <3> QED
        BY <2>2, <3>1, <3>2, StaysClear DEF Minded
    <2>6. Checked(job)'
      BY <2>5 DEF Checked
    <2> QED
      BY <2>1, <2>4, <2>6 DEF Named, Checked, ClearOf, Approved, Clear, Dead, Meet
  <1>4. ASSUME NEW s \in Requests PROVE Named(req[s])' /\ Checked(req[s])'
    BY <1>3 DEF Named, Checked, Deciding
  <1>5. ASSUME NEW s \in Requests, NEW t \in Requests, s # t PROVE Crossing(req[s], req[t])'
    BY <1>5 DEF DInv, Crossing
  <1> QED
    BY <1>1, <1>2, <1>4, <1>5 DEF DInv

\* A handler that moves on to something other than an approval.
LEMMA MovesOn ==
  ASSUME TInv, DInv, NEW r \in Requests, NEW job, Goto(r, job), ~Deciding(job),
         UNCHANGED <<item, campaign, crossed, moved>>
  PROVE  DInv'
  <1>1. \A s \in Requests : req'[s] = IF s = r THEN job ELSE req[s]
    BY DEF Goto, TInv, TypeOK
  <1>2. \A i \in Items : Kept(i) /\ Stays(i)
    BY DEF Kept, Stays, Approved, Listed
  <1> QED
    BY <1>1, <1>2, RowsKept

\* A handler that ends, or none, having written registrations' other columns.
LEMMA Writes ==
  ASSUME TInv, DInv, \A i \in Items : Kept(i), UNCHANGED <<campaign, crossed, moved>>,
         \A s \in Requests : req'[s] \in {req[s], Idle}
  PROVE  DInv'
  <1>1. \A i \in Items : Stays(i)
    BY DEF Stays
  <1>2. ~Deciding(Idle)
    BY DEF Deciding, Idle
  <1> QED
    BY <1>1, <1>2, RowsKept

\* What a written row has to keep.
LEMMA RowKept ==
  ASSUME TInv, NEW i \in Items, NEW row, item' = [item EXCEPT ![i] = row], item[i] # NoItem,
         row.campaign = item[i].campaign, row.variant = item[i].variant,
         row.status \in {item[i].status, "rejected"}
  PROVE  \A j \in Items : Kept(j)
  <1>1. \A j \in Items : item'[j] = IF j = i THEN row ELSE item[j]
    BY DEF TInv, TypeOK
  <1> QED
    BY <1>1 DEF Kept, Approved, Listed

LEMMA Ends ==
  ASSUME TInv, NEW r \in Requests, Done(r)
  PROVE  \A s \in Requests : req'[s] \in {req[s], Idle}
  BY DEF Done, Goto, TInv, TypeOK

LEMMA DropsKept ==
  ASSUME \A j \in Items : item'[j] \in {item[j], NoItem}
  PROVE  \A j \in Items : Kept(j)
  BY DEF Kept, Approved, Listed

LEMMA CreateCampaignPrice ==
  ASSUME TInv, DInv, NEW r \in Requests, NEW c \in Campaigns, NEW w \in Windows,
         CreateCampaign(r, c, w)
  PROVE  DInv'
  <1>1. campaign[c] = NoCampaign /\ UNCHANGED <<item, req, crossed, moved>>
    BY DEF CreateCampaign, history
  <1>2. \A d \in Campaigns : d # c => campaign'[d] = campaign[d]
    BY DEF CreateCampaign, TInv, TypeOK
  <1>3. \A i \in Items : item[i] # NoItem => item[i].campaign \in Campaigns /\ item[i].campaign # c
    BY <1>1, NoRows, ItemIsRow DEF TInv, Backed, Registration
  <1>4. \A i \in Items : Stays(i)
    BY <1>1, <1>2, <1>3 DEF Stays
  <1> QED
    BY <1>1, <1>4, RowsKept, DropsKept

LEMMA DeleteCampaignPrice ==
  ASSUME TInv, DInv, NEW r \in Requests, NEW c \in Campaigns, DeleteCampaign(r, c)
  PROVE  DInv'
  <1>1. UNCHANGED <<req, crossed, moved>>
    BY DEF DeleteCampaign, history
  <1>2. \A d \in Campaigns : d # c => campaign'[d] = campaign[d]
    BY DEF DeleteCampaign, TInv, TypeOK
  <1>3. \A i \in Items : item'[i] = IF item[i] # NoItem /\ item[i].campaign = c
                                    THEN NoItem ELSE item[i]
    BY DEF DeleteCampaign
  <1>4. \A i \in Items : item'[i] # NoItem => item[i].campaign \in Campaigns /\ item[i].campaign # c
    BY <1>3, ItemIsRow DEF TInv, Registration
  <1>5. \A i \in Items : Stays(i)
    BY <1>2, <1>4 DEF Stays
  <1>6. \A i \in Items : item'[i] \in {item[i], NoItem}
    BY <1>3
  <1> QED
    BY <1>1, <1>5, <1>6, RowsKept, DropsKept

LEMMA UpdateCampaignPrice ==
  ASSUME TInv, DInv, NEW r \in Requests, UpdateCampaign(r)
  PROVE  DInv'
  <1> PICK job \in Job : job = req[r]
    BY DEF TInv, TypeOK
  <1> PICK c : c = job.campaign
    OBVIOUS
  <1>1. job.op = "update" /\ Done(r) /\ UNCHANGED <<item, crossed>>
    BY DEF UpdateCampaign
  <1>2. \A d \in Campaigns : d # c => campaign'[d] = campaign[d]
    BY DEF UpdateCampaign, TInv, TypeOK
  <1>3. /\ moved \subseteq moved'
        /\ \/ \E i \in Items : Approved(i) /\ item[i].campaign = c
           \/ \E s \in Requests : Deciding(req[s]) /\ item[req[s].item] # NoItem
                                 /\ item[req[s].item].campaign = c
           => c \in moved'
    BY DEF UpdateCampaign, Approved, Deciding
  <1>4. ASSUME NEW i \in Items PROVE Stays(i)
    <2> SUFFICES ASSUME item[i] # NoItem, Minded(i), item[i].campaign \notin moved'
                 PROVE  campaign'[item[i].campaign] = campaign[item[i].campaign]
      BY <1>1 DEF Stays
    <2>1. item[i].campaign # c
      BY <1>3 DEF Minded
    <2>2. item[i].campaign \in Campaigns
      BY ItemIsRow DEF TInv, Registration
    <2> QED
      BY <1>2, <2>1, <2>2
  <1>5. \A s \in Requests : Deciding(req'[s]) => req'[s] = req[s]
    BY <1>1, Ends DEF Deciding, Idle
  <1> QED
    BY <1>1, <1>3, <1>4, <1>5, RowsKept, DropsKept

\* The cron moves no window and revives no campaign.
LEMMA CronPrice ==
  ASSUME TInv, DInv, EndDue \/ ActivateDue
  PROVE  DInv'
  <1>1. UNCHANGED <<item, req, crossed, moved>>
    BY DEF EndDue, ActivateDue, history
  <1>2. ASSUME NEW row \in Campaign, NEW st \in {"active", "ended"}
        PROVE  /\ [row EXCEPT !.status = st].window = row.window
               /\ [row EXCEPT !.status = st].isActive = row.isActive
               /\ [row EXCEPT !.status = st].status = st
    BY DEF Campaign
  <1>3. ASSUME NEW c \in Campaigns, Exists(c)
        PROVE  campaign'[c].window = campaign[c].window
               /\ (Dead(campaign[c]) => Dead(campaign'[c]))
    <2>1. campaign[c] \in Campaign
      BY <1>3, CampaignIsRow DEF TInv
    <2>2. \/ campaign'[c] = campaign[c]
          \/ campaign'[c] = [campaign[c] EXCEPT !.status = "ended"]
          \/ campaign'[c] = [campaign[c] EXCEPT !.status = "active"]
             /\ campaign[c].isActive /\ campaign[c].status = "scheduled"
      BY DEF EndDue, ActivateDue
    <2>3. /\ [campaign[c] EXCEPT !.status = "ended"].window = campaign[c].window
          /\ [campaign[c] EXCEPT !.status = "active"].window = campaign[c].window
          /\ [campaign[c] EXCEPT !.status = "ended"].status = "ended"
      BY <1>2, <2>1
    <2> QED
      BY <2>2, <2>3 DEF Dead
  <1>4. ASSUME NEW i \in Items PROVE Stays(i)
    <2>1. item[i] # NoItem => item[i].campaign \in Campaigns /\ Exists(item[i].campaign)
      BY ItemIsRow, NoRows DEF TInv, Backed, Registration, Exists
    <2> QED
      BY <1>1, <1>3, <2>1 DEF Stays
  <1> QED
    BY <1>1, <1>4, RowsKept, DropsKept

LEMMA EditItemPrice ==
  ASSUME TInv, DInv, NEW r \in Requests, EditItem(r)
  PROVE  DInv'
  <1> PICK job \in Job : job = req[r]
    BY DEF TInv, TypeOK
  <1> PICK i : i = job.item
    OBVIOUS
  <1>1. /\ job.op = "edit" /\ Done(r) /\ UNCHANGED <<campaign, crossed, moved>>
        /\ item' = IF item[i] = NoItem THEN item ELSE [item EXCEPT ![i].quantity = job.quantity]
    BY DEF EditItem, history
  <1>2. i \in Items /\ job.quantity \in Nat
    BY <1>1, JobFacts, FlashSaleAssumption
  <1>3. CASE item[i] = NoItem
    BY <1>1, <1>3, Ends, DropsKept, Writes
  <1>4. CASE item[i] # NoItem
    <2> PICK row : row = [item[i] EXCEPT !.quantity = job.quantity]
      OBVIOUS
    <2>1. row.campaign = item[i].campaign /\ row.variant = item[i].variant
          /\ row.status = item[i].status
      BY <1>2, <1>4, ItemIsRow, QuantityKeepsRow DEF TInv
    <2>2. \A j \in Items : Kept(j)
      BY <1>1, <1>2, <1>4, <2>1, RowKept
    <2> QED
      BY <1>1, <2>2, Ends, Writes
  <1> QED
    BY <1>3, <1>4

LEMMA RejectPrice ==
  ASSUME TInv, DInv, NEW r \in Requests, Reject(r)
  PROVE  DInv'
  <1> PICK job \in Job : job = req[r]
    BY DEF TInv, TypeOK
  <1> PICK i : i = job.item
    OBVIOUS
  <1>1. /\ job.op = "reject" /\ Done(r) /\ UNCHANGED <<campaign, crossed, moved>>
        /\ item' = IF item[i] = NoItem THEN item ELSE [item EXCEPT ![i].status = "rejected"]
    BY DEF Reject, history
  <1>2. i \in Items
    BY <1>1, JobFacts
  <1>3. CASE item[i] = NoItem
    BY <1>1, <1>3, Ends, DropsKept, Writes
  <1>4. CASE item[i] # NoItem
    <2> PICK row : row = [item[i] EXCEPT !.status = "rejected"]
      OBVIOUS
    <2>1. row.campaign = item[i].campaign /\ row.variant = item[i].variant
          /\ row.status = "rejected"
      BY <1>2, <1>4, ItemIsRow, StatusKeepsRow DEF TInv
    <2>2. \A j \in Items : Kept(j)
      BY <1>1, <1>2, <1>4, <2>1, RowKept
    <2> QED
      BY <1>1, <2>2, Ends, Writes
  <1> QED
    BY <1>3, <1>4

\* Units sold and given back.
LEMMA SoldPrice ==
  ASSUME TInv, DInv, NEW i \in Items, Consume(i) \/ Reverse(i)
  PROVE  DInv'
  <1>1. item[i] \in Registration /\ item[i] # NoItem
    BY ItemIsRow, NoRows DEF Consume, Reverse, OnSale, TInv
  <1>2. PICK n : n \in Nat /\ item' = [item EXCEPT ![i].sold = n]
    <2>1. item[i].sold \in Nat /\ item[i].sold + 1 \in Nat
      BY <1>1 DEF Registration
    <2>2. item[i].sold > 0 => item[i].sold - 1 \in Nat
      BY <2>1
    <2>3. CASE Consume(i)
      BY <2>1, <2>3 DEF Consume
    <2>4. CASE Reverse(i)
      BY <2>2, <2>4 DEF Reverse
    <2> QED
      BY <2>3, <2>4
  <1> PICK row : row = [item[i] EXCEPT !.sold = n]
    OBVIOUS
  <1>3. row.campaign = item[i].campaign /\ row.variant = item[i].variant
        /\ row.status = item[i].status
    BY <1>1, <1>2, SoldKeepsRow
  <1>4. \A j \in Items : Kept(j)
    BY <1>1, <1>2, <1>3, RowKept
  <1> QED
    BY <1>4, Writes DEF Consume, Reverse, history

\* A new registration is the only listed one of its variant there, and no approval
\* is at it.
LEMMA InsertItemPrice ==
  ASSUME TInv, DInv, NEW r \in Requests, InsertItem(r)
  PROVE  DInv'
  <1> PICK job \in Job : job = req[r]
    BY DEF TInv, TypeOK
  <1> PICK row : row = [status |-> "pending", campaign |-> job.campaign,
                        variant |-> job.variant, quantity |-> job.quantity, sold |-> 0]
    OBVIOUS
  <1>1. /\ job.op = "insert" /\ Done(r) /\ UNCHANGED <<campaign, crossed, moved>>
        /\ \/ item' = item
           \/ /\ Registered(job.campaign, job.variant) = {}
              /\ \E i \in Items : Fresh(i) /\ item' = [item EXCEPT ![i] = row]
    BY DEF InsertItem, history
  <1>2. CASE item' = item
    BY <1>1, <1>2, Ends, DropsKept, Writes
  <1>3. CASE item' # item
    <2> PICK i \in Items : Fresh(i) /\ item' = [item EXCEPT ![i] = row]
      BY <1>1, <1>3
    <2>1. row.status = "pending" /\ row.campaign = job.campaign /\ row.variant = job.variant
      OBVIOUS
    <2>2. \A j \in Items : item'[j] = IF j = i THEN row ELSE item[j]
      BY DEF TInv, TypeOK
    <2>3. item[i] = NoItem
      BY DEF Fresh
    <2>4. \A j \in Items : Approved(j)' => j # i /\ Approved(j) /\ item'[j] = item[j]
      BY <2>1, <2>2 DEF Approved
    <2>5. \A s \in Requests : Deciding(req'[s]) =>
            req'[s] = req[s] /\ req[s].item \in Items /\ req[s].item # i
      <3> SUFFICES ASSUME NEW s \in Requests, Deciding(req'[s])
                   PROVE  req'[s] = req[s] /\ req[s].item \in Items /\ req[s].item # i
        OBVIOUS
      <3> PICK other \in Job : other = req[s]
        BY DEF TInv, TypeOK
      <3>1. req'[s] = other
        BY <1>1, Ends DEF Deciding, Idle
      <3>2. other.item \in Items /\ "item" \in DOMAIN other
        BY <3>1, JobFacts DEF Deciding, Job, Idle
      <3> QED
        BY <3>1, <3>2 DEF Fresh
    <2>6. ASSUME NEW j \in Items, NEW k \in Items PROVE Unique(j, k)'
      <3>1. \A l \in Items : Listed(l) /\ item[l].campaign = job.campaign =>
              item[l].variant # job.variant
        BY <1>1, <1>3 DEF Registered, Listed
      <3>2. Unique(j, k)
        BY DEF DInv
      <3> QED
        BY <2>1, <2>2, <3>1, <3>2 DEF Unique, Listed
    <2>7. ASSUME NEW j \in Items, NEW k \in Items, Approved(j)', Approved(k)' PROVE ClearOf(j, k)'
      <3>1. ClearOf(j, k)
        BY <2>4, <2>7 DEF DInv
      <3> QED
        BY <1>1, <2>4, <2>7, <3>1 DEF ClearOf, Clear
    <2>8. ASSUME NEW s \in Requests PROVE Named(req[s])' /\ Checked(req[s])'
      <3> PICK other : other = req[s]
        OBVIOUS
      <3>1. Named(other) /\ Checked(other)
        BY DEF DInv
      <3>2. Deciding(req'[s]) => req'[s] = other /\ item'[other.item] = item[other.item]
        BY <2>2, <2>5
      <3>3. Named(req[s])'
        BY <1>1, <3>1, <3>2 DEF Named
      <3>4. ASSUME req'[s].op = "approve", item'[req'[s].item] # NoItem, NEW j \in Items, Approved(j)'
            PROVE  ClearOf(other.item, j)'
        <4>1. ClearOf(other.item, j)
          BY <2>4, <3>1, <3>2, <3>4 DEF Checked, Deciding
        <4> QED
          BY <1>1, <2>4, <3>2, <3>4, <4>1 DEF ClearOf, Clear, Deciding
      <3>5. Checked(req[s])'
        BY <3>2, <3>4 DEF Checked, Deciding, ClearOf, Clear
      <3> QED
        BY <3>3, <3>5
    <2>9. ASSUME NEW s \in Requests, NEW t \in Requests, s # t PROVE Crossing(req[s], req[t])'
      BY <1>1, <2>5, <2>9 DEF DInv, Crossing
    <2> QED
      BY <2>6, <2>7, <2>8, <2>9 DEF DInv
  <1> QED
    BY <1>2, <1>3

\* Steps of an approval that write no row: what the new job knows, and who else is
\* at its variant.
LEMMA DecidesOn ==
  ASSUME TInv, DInv, NEW r \in Requests, NEW job, Goto(r, job), Deciding(job),
         UNCHANGED <<item, campaign, moved>>, crossed \subseteq crossed',
         Named(job)', Checked(job)',
         \A s \in Requests : s # r /\ Deciding(req[s]) /\ req[s].variant = job.variant
           => job.variant \in crossed'
  PROVE  DInv'
  <1>1. \A s \in Requests : req'[s] = IF s = r THEN job ELSE req[s]
    BY DEF Goto, TInv, TypeOK
  <1>2. ASSUME NEW i, NEW j, ClearOf(i, j) PROVE ClearOf(i, j)'
    BY <1>2 DEF ClearOf, Clear
  <1>3. ASSUME NEW i \in Items, NEW j \in Items PROVE Unique(i, j)'
    BY DEF DInv, Unique, Listed
  <1>4. ASSUME NEW i \in Items, NEW j \in Items, Approved(i)', Approved(j)' PROVE ClearOf(i, j)'
    BY <1>2, <1>4 DEF DInv, Approved
  <1>5. ASSUME NEW s \in Requests PROVE Named(req[s])' /\ Checked(req[s])'
    <2>1. CASE s = r
      BY <1>1, <2>1 DEF Named, Checked
    <2>2. CASE s # r
      <3> PICK other : other = req[s]
        OBVIOUS
      <3>1. req'[s] = other
        BY <1>1, <2>2
      <3>2. Named(other) /\ Checked(other)
        BY DEF DInv
      <3>3. Named(other)'
        BY <3>2 DEF Named
      <3>4. Checked(other)'
        BY <1>2, <3>2 DEF Checked, Approved
      <3> QED
        BY <3>1, <3>3, <3>4 DEF Named, Checked
    <2> QED
      BY <2>1, <2>2
  <1>6. ASSUME NEW s \in Requests, NEW t \in Requests, s # t PROVE Crossing(req[s], req[t])'
    BY <1>1, <1>6 DEF DInv, Crossing
  <1> QED
    BY <1>3, <1>4, <1>5, <1>6 DEF DInv

LEMMA ApproveReadPrice ==
  ASSUME TInv, DInv, NEW r \in Requests, NEW i \in Items, ApproveRead(r, i)
  PROVE  DInv'
  <1>1. PICK job : /\ Begin(r, job) /\ job.op = "overlap" /\ job.item = i
                   /\ job.campaign = item[i].campaign /\ job.variant = item[i].variant
                   /\ job.window = campaign[item[i].campaign].window
    BY DEF ApproveRead
  <1>2. Goto(r, job) /\ UNCHANGED <<item, campaign, moved>> /\ crossed \subseteq crossed'
    BY <1>1, BeginCounts DEF ApproveRead, rows, TInv
  <1>3. \A s \in Requests : Deciding(req[s]) /\ req[s].variant = job.variant => job.variant \in crossed'
    BY <1>1 DEF ApproveRead, Deciding
  <1>4. Named(job)'
    BY <1>1, <1>2 DEF Named
  <1>5. Deciding(job) /\ Checked(job)'
    BY <1>1 DEF Deciding, Checked
  <1> QED
    BY <1>2, <1>3, <1>4, <1>5, DecidesOn

LEMMA ApproveCheckPrice ==
  ASSUME TInv, DInv, NEW r \in Requests, ApproveCheck(r)
  PROVE  DInv'
  <1> PICK job \in Job : job = req[r]
    BY DEF TInv, TypeOK
  <1> PICK next : next = [op |-> "approve", item |-> job.item, variant |-> job.variant,
                          quantity |-> job.quantity]
    OBVIOUS
  <1>1. /\ job.op = "overlap" /\ UNCHANGED <<item, campaign, crossed, moved>>
        /\ \/ Done(r)
           \/ /\ Goto(r, next)
              /\ \A j \in Items :
                   Approved(j) /\ item[j].variant = job.variant /\ item[j].campaign # job.campaign
                   => \/ Dead(campaign[item[j].campaign])
                      \/ ~Meet(campaign[item[j].campaign].window, job.window)
    BY DEF ApproveCheck, Approved, Dead, Meet, rows, history
  <1>2. CASE Done(r)
    BY <1>1, <1>2, MovesOn DEF Done, Deciding, Idle
  <1>3. CASE ~Done(r)
    <2>1. next.op = "approve" /\ next.item = job.item /\ next.variant = job.variant
      OBVIOUS
    <2>2. job.item \in Items
      BY <1>1, JobFacts
    <2>3. Deciding(job) /\ Deciding(next) /\ Named(job)
      BY <1>1, <2>1 DEF Deciding, DInv
    <2>4. Named(next)'
      BY <1>1, <2>1, <2>3 DEF Named
    <2>5. ASSUME item[job.item] # NoItem, NEW j \in Items, Approved(j) PROVE ClearOf(job.item, j)
      <3>1. /\ item[job.item].variant = job.variant
            /\ item[job.item].campaign = job.campaign
            /\ job.campaign \notin moved => campaign[job.campaign].window = job.window
        BY <1>1, <2>3, <2>5 DEF Named
      <3>2. ASSUME ~Meet(campaign[item[j].campaign].window, job.window)
            PROVE  ~Meet(job.window, campaign[item[j].campaign].window)
        BY <3>2 DEF Meet
      <3> QED
        BY <1>1, <1>3, <2>5, <3>1, <3>2 DEF ClearOf, Clear
    <2>6. Checked(next)'
      BY <1>1, <2>1, <2>5 DEF Checked, Approved, ClearOf, Clear
    <2>7. \A s \in Requests : s # r /\ Deciding(req[s]) /\ req[s].variant = next.variant
            => next.variant \in crossed
      BY <2>1, <2>3 DEF DInv, Crossing
    <2> QED
      BY <1>1, <1>3, <2>3, <2>4, <2>6, <2>7, DecidesOn
  <1> QED
    BY <1>2, <1>3

\* The approved registration is clear of the others of its variant: its check found
\* it so, and the index keeps a second one out of its campaign.
LEMMA ApprovePrice ==
  ASSUME TInv, DInv, NEW r \in Requests, Approve(r)
  PROVE  DInv'
  <1> PICK job \in Job : job = req[r]
    BY DEF TInv, TypeOK
  <1> PICK i : i = job.item
    OBVIOUS
  <1>1. /\ job.op = "approve" /\ Done(r) /\ UNCHANGED <<campaign, crossed, moved>>
        /\ \/ UNCHANGED item
           \/ /\ item[i] # NoItem
              /\ Registered(item[i].campaign, item[i].variant) \ {i} = {}
              /\ item' = [item EXCEPT ![i].status = "approved"]
    BY DEF Approve
  <1>2. i \in Items /\ Deciding(job)
    BY <1>1, JobFacts DEF Deciding
  <1>3. CASE UNCHANGED item
    BY <1>1, <1>3, Ends, DropsKept, Writes
  <1>4. CASE /\ item[i] # NoItem
             /\ Registered(item[i].campaign, item[i].variant) \ {i} = {}
             /\ item' = [item EXCEPT ![i].status = "approved"]
    <2> PICK row : row = [item[i] EXCEPT !.status = "approved"]
      OBVIOUS
    <2>1. item[i] \in Registration /\ row.status = "approved"
          /\ row.campaign = item[i].campaign /\ row.variant = item[i].variant
      BY <1>2, <1>4, ItemIsRow, StatusKeepsRow DEF TInv
    <2>2. \A j \in Items : item'[j] = IF j = i THEN row ELSE item[j]
      BY <1>2, <1>4 DEF TInv, TypeOK
    <2>3. \A j \in Items : /\ item'[j].campaign = item[j].campaign
                           /\ item'[j].variant = item[j].variant
                           /\ Approved(j)' => j = i \/ Approved(j)
      BY <2>1, <2>2 DEF Approved
    <2>4. ASSUME NEW j \in Items, NEW k \in Items, ClearOf(j, k) PROVE ClearOf(j, k)'
      BY <1>1, <2>3, <2>4 DEF ClearOf, Clear
    <2>5. ASSUME NEW j \in Items, Approved(j) PROVE ClearOf(i, j) /\ ClearOf(j, i)
      <3>1. Named(job) /\ Checked(job)
        BY DEF DInv
      <3>2. ClearOf(i, j)
        BY <1>1, <1>4, <2>5, <3>1 DEF Checked
      <3>3. ASSUME NEW w, NEW u, ~Meet(w, u) PROVE ~Meet(u, w)
        BY <3>3 DEF Meet
      <3> QED
        BY <3>2, <3>3 DEF ClearOf, Clear
    <2>6. ASSUME NEW j \in Items, NEW k \in Items PROVE Unique(j, k)'
      <3>1. \A l \in Items : l # i /\ Listed(l) /\ item[l].campaign = item[i].campaign =>
              item[l].variant # item[i].variant
        BY <1>4 DEF Registered, Listed
      <3>2. Unique(j, k)
        BY DEF DInv
      <3>3. \A l \in Items : l # i /\ Listed(l)' => Listed(l)
        BY <2>2 DEF Listed
      <3>4. CASE j # i /\ k # i
        BY <2>3, <3>2, <3>3, <3>4 DEF Unique
      <3>5. CASE j = i \/ k = i
        BY <2>3, <3>1, <3>3, <3>5 DEF Unique
      <3> QED
        BY <3>4, <3>5
    <2>7. ASSUME NEW j \in Items, NEW k \in Items, Approved(j)', Approved(k)' PROVE ClearOf(j, k)'
      <3>1. (j = i \/ Approved(j)) /\ (k = i \/ Approved(k))
        BY <2>3, <2>7
      <3>2. ClearOf(j, k)
        BY <2>5, <3>1 DEF DInv, ClearOf
      <3> QED
        BY <2>4, <3>2
    <2>8. ASSUME NEW s \in Requests, Deciding(req'[s]) PROVE Named(req[s])' /\ Checked(req[s])'
      <3> PICK other \in Job : other = req[s]
        BY DEF TInv, TypeOK
      <3>1. s # r /\ req'[s] = other /\ Deciding(other)
        BY <1>1, <2>8 DEF Done, Goto, Deciding, Idle, TInv, TypeOK
      <3>2. Named(other) /\ Checked(other) /\ Named(job)
        BY DEF DInv
      <3> PICK k \in Items : k = other.item
        BY <3>1, JobFacts DEF Deciding
      <3>3. item'[k] # NoItem => item[k] # NoItem
        BY <1>4, <2>2
      <3>4. Named(other)'
        BY <1>1, <2>3, <3>1, <3>2, <3>3 DEF Named
      <3>5. ASSUME other.op = "approve", item'[k] # NoItem, NEW j \in Items, Approved(j)'
            PROVE  ClearOf(k, j)'
        <4>1. CASE j # i
          BY <2>3, <2>4, <3>2, <3>3, <3>5, <4>1 DEF Checked
        <4>2. CASE j = i
          <5>1. item[k].variant = other.variant /\ item[i].variant = job.variant
            BY <1>2, <1>4, <3>1, <3>2, <3>3, <3>5 DEF Named
          <5>2. other.variant = job.variant => job.variant \in crossed
            BY <1>2, <3>1 DEF DInv, Crossing
          <5> QED
            BY <1>1, <2>3, <4>2, <5>1, <5>2 DEF ClearOf
        <4> QED
          BY <4>1, <4>2
      <3>6. Checked(other)'
        BY <3>5 DEF Checked
      <3> QED
        BY <3>1, <3>4, <3>6 DEF Named, Checked, Approved, ClearOf, Clear
    <2>9. ASSUME NEW s \in Requests PROVE Named(req[s])' /\ Checked(req[s])'
      BY <2>8 DEF Named, Checked, Deciding
    <2>10. ASSUME NEW s \in Requests, NEW t \in Requests, s # t PROVE Crossing(req[s], req[t])'
      <3>1. \A u \in Requests : Deciding(req'[u]) => req'[u] = req[u]
        BY <1>1, Ends DEF Deciding, Idle
      <3> QED
        BY <1>1, <2>10, <3>1 DEF DInv, Crossing
    <2> QED
      BY <2>6, <2>7, <2>9, <2>10 DEF DInv
  <1> QED
    BY <1>1, <1>3, <1>4

LEMMA AdminPrice ==
  ASSUME TInv, DInv, NEW r \in Requests, Admin(r)
  PROVE  DInv'
  <1>1. ASSUME NEW c \in Campaigns, NEW p \in Patches, ReadCampaign(r, c, p) PROVE DInv'
    <2>1. PICK job : Begin(r, job) /\ job.op = "update"
      BY <1>1 DEF ReadCampaign
    <2> QED
      BY <1>1, <2>1, BeginCounts, MovesOn DEF ReadCampaign, rows, Deciding, TInv
  <1>2. ASSUME NEW i \in Items, RejectRead(r, i) PROVE DInv'
    <2>1. PICK job : Begin(r, job) /\ job.op = "reject"
      BY <1>2 DEF RejectRead
    <2> QED
      BY <1>2, <2>1, BeginCounts, MovesOn DEF RejectRead, rows, Deciding, TInv
  <1>3. ASSUME NEW i \in Items, RemoveItem(r, i) PROVE DInv'
    <2>1. \A j \in Items : item'[j] \in {item[j], NoItem}
      BY <1>3 DEF RemoveItem, TInv, TypeOK
    <2> QED
      BY <1>3, <2>1, DropsKept, Writes DEF RemoveItem, history
  <1> QED
    BY <1>1, <1>2, <1>3, CreateCampaignPrice, DeleteCampaignPrice, UpdateCampaignPrice,
       ApproveReadPrice, ApproveCheckPrice, ApprovePrice, RejectPrice DEF Admin

LEMMA SellerPrice ==
  ASSUME TInv, DInv, NEW r \in Requests, Seller(r)
  PROVE  DInv'
  <1>1. ASSUME NEW c \in Campaigns, NEW v \in Variants, NEW n \in Quantities, Register(r, c, v, n)
        PROVE  DInv'
    <2>1. PICK job : Begin(r, job) /\ job.op = "exists"
      BY <1>1 DEF Register
    <2> QED
      BY <1>1, <2>1, BeginCounts, MovesOn DEF Register, rows, history, Deciding, TInv
  <1>2. ASSUME CheckExists(r) PROVE DInv'
    <2> PICK job \in Job : job = req[r]
      BY DEF TInv, TypeOK
    <2> PICK next : next = [job EXCEPT !.op = "insert"]
      OBVIOUS
    <2>1. /\ job.op = "exists" /\ (Done(r) \/ Goto(r, next))
          /\ UNCHANGED <<item, campaign, crossed, moved>>
      BY <1>2 DEF CheckExists, rows, history
    <2>2. next.op = "insert"
      BY <2>1 DEF Job, Idle
    <2> QED
      BY <2>1, <2>2, MovesOn DEF Done, Deciding, Idle
  <1>3. ASSUME WithdrawItem(r) PROVE DInv'
    <2>1. \A j \in Items : item'[j] \in {item[j], NoItem}
      BY <1>3 DEF WithdrawItem, TInv, TypeOK
    <2> QED
      BY <1>3, <2>1, Ends, DropsKept, Writes DEF WithdrawItem, history
  <1>4. ASSUME NEW i \in Items, ReadPending(r, i) PROVE DInv'
    <2>1. PICK job : Begin(r, job) /\ ~Deciding(job)
      <3>1. CASE \E n \in Quantities : Begin(r, [op |-> "edit", item |-> i, quantity |-> n])
        BY <3>1 DEF Deciding
      <3>2. CASE Begin(r, [op |-> "withdraw", item |-> i])
        BY <3>2 DEF Deciding
      <3> QED
        BY <1>4, <3>1, <3>2 DEF ReadPending
    <2> QED
      BY <1>4, <2>1, BeginCounts, MovesOn DEF ReadPending, rows, TInv
  <1> QED
    BY <1>1, <1>2, <1>3, <1>4, InsertItemPrice, EditItemPrice DEF Seller

LEMMA NextPrice == TInv /\ DInv /\ [Next]_vars => DInv'
  <1> SUFFICES ASSUME TInv, DInv, [Next]_vars PROVE DInv'
    OBVIOUS
  <1>1. ASSUME NEW r \in Requests, Fail(r) PROVE DInv'
    BY <1>1, MovesOn DEF Fail, Done, rows, history, Deciding, Idle
  <1>2. CASE Tick \/ UNCHANGED vars
    BY <1>2, DropsKept, Writes DEF Tick, vars, rows, history
  <1> QED
    BY <1>1, <1>2, AdminPrice, SellerPrice, SoldPrice, CronPrice DEF Next

LEMMA InitPrice == Init => DInv
  <1> SUFFICES ASSUME Init PROVE DInv
    OBVIOUS
  <1>1. \A i \in Items : ~Approved(i)
    <2>1. \A i \in Items : item[i] # NoItem => item[i].status = "pending"
      BY DEF Init
    <2> QED
      BY <2>1, NoneListed DEF Approved
  <1>2. \A i, j \in Items : Unique(i, j)
    BY NoneListed DEF Init, Unique
  <1>3. \A r \in Requests : ~Deciding(req[r]) /\ req[r].op # "approve"
    BY DEF Init, Deciding, Idle
  <1> QED
    BY <1>1, <1>2, <1>3 DEF DInv, Named, Checked, Crossing

\* A variant has one flash price at a time, whatever is registered, moved, switched
\* and approved, unless a campaign moved after the check or two approvals of the
\* variant crossed.
THEOREM OnePrice == Spec => []OnePricePerVariant
  <1>1. TInv /\ DInv => OnePricePerVariant
    <2> SUFFICES ASSUME TInv, DInv, NEW i \in Items, NEW j \in Items, OnSale(i), OnSale(j), i # j,
                        item[i].variant = item[j].variant, item[i].variant \notin crossed,
                        item[i].campaign \notin moved, item[j].campaign \notin moved
                 PROVE  FALSE
      BY DEF OnePricePerVariant
    <2>1. Approved(i) /\ Approved(j) /\ Listed(i) /\ Listed(j)
      BY DEF OnSale, Approved, Listed
    <2>2. Clear(item[i].campaign, item[j].campaign)
      BY <2>1 DEF DInv, Unique, ClearOf
    <2>3. ~Dead(campaign[item[i].campaign]) /\ ~Dead(campaign[item[j].campaign])
      BY DEF OnSale, Dead
    <2>4. campaign[item[i].campaign].window \in Window /\ campaign[item[j].campaign].window \in Window
      BY <2>1, NoneListed DEF TInv, Backed, Campaign
    <2>5. \A w \in Window : w["from"] \in Int /\ w["to"] \in Int
      BY FlashSaleAssumption DEF Window, Edges, Times
    <2>6. Meet(campaign[item[i].campaign].window, campaign[item[j].campaign].window)
      <3> PICK w \in Window : w = campaign[item[i].campaign].window
        BY <2>4
      <3> PICK u \in Window : u = campaign[item[j].campaign].window
        BY <2>4
      <3>1. w["from"] <= now /\ now < w["to"] /\ u["from"] <= now /\ now < u["to"]
        BY DEF OnSale, Within
      <3>2. now \in Int
        BY FlashSaleAssumption DEF TInv, TypeOK, Times
      <3> QED
        BY <2>5, <3>1, <3>2 DEF Meet
    <2> QED
      BY <2>2, <2>3, <2>6 DEF Clear
  <1> QED
    BY <1>1, InitType, NextType, InitPrice, NextPrice, PTL DEF Spec

=============================================================================
