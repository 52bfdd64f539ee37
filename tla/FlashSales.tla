------------------------------ MODULE FlashSales ------------------------------
(***************************************************************************)
(* flash-sale.service.ts, its repositories and its scheduler: campaigns    *)
(* with a registration window and a deal window, the registrations sellers *)
(* make and admins decide, the cron that moves a campaign's status with    *)
(* the clock, and the units checkouts take at the flash price.             *)
(*                                                                         *)
(* Every change but the checkout's guarded UPDATE reads a row, checks it   *)
(* and writes it by id in a later await.                                   *)
(***************************************************************************)
EXTENDS Integers, FiniteSets

CONSTANTS
  Campaigns,   \* rows `flash_sales` may get
  Items,       \* rows `flash_sale_items` may get
  Variants,
  Quantities,  \* flash_quantity a seller may ask for
  Announced,   \* [Campaigns -> window] at first
  Windows,     \* windows an admin may give a new campaign
  Patches,     \* what one update of a campaign may set: partial functions
  MaxTime,     \* bound: the clock runs over 0 .. MaxTime
  Requests,    \* requests in flight
  MaxRequests  \* bound: requests started

Times == 0 .. MaxTime
Edges == {"regFrom", "regTo", "from", "to"}

ASSUME FlashSaleAssumption ==
  /\ MaxTime \in Nat
  /\ MaxRequests \in Nat
  /\ Quantities \subseteq Nat \ {0}
  /\ Windows \subseteq [Edges -> Times]
  /\ Announced \in [Campaigns -> {w \in Windows : w["regFrom"] < w["regTo"] /\ w["regTo"] <= w["from"]
                                               /\ 0 < w["from"] /\ w["from"] < w["to"]}]
  /\ \A p \in Patches :
       /\ DOMAIN p \subseteq Edges \cup {"isActive"}
       /\ \A e \in DOMAIN p \cap Edges : p[e] \in Times
       /\ "isActive" \in DOMAIN p => p["isActive"] \in BOOLEAN

VARIABLES
  now,
  campaign,   \* [Campaigns -> Campaign \cup {NoCampaign}]
  item,       \* [Items -> Registration \cup {NoItem}]
  cron,       \* the scheduler between its two UPDATEs
  req,        \* [Requests -> job]
  started,    \* requests started so far
  reviewed,   \* history: [Items -> Nat] the quantity an approval had read
  contested,  \* history: items a seller changed and an admin approved at the same time
  crossed,    \* history: variants two approvals ran for at the same time
  moved,      \* history: campaigns an update moved or switched after an approval
  patched     \* history: campaigns two updates changed at the same time

rows == <<campaign, item>>
history == <<reviewed, contested, crossed, moved, patched>>
vars == <<now, rows, cron, req, started, history>>

Window == [Edges -> Times]

\* assertValidWindow.
ValidWindow(w) ==
  /\ w["regFrom"] < w["regTo"]
  /\ w["regTo"] <= w["from"]
  /\ w["from"] < w["to"]

Within(w) == w["from"] <= now /\ now < w["to"]

StatusAt(w, t) ==
  IF t >= w["to"] THEN "ended" ELSE IF t >= w["from"] THEN "active" ELSE "scheduled"

NoCampaign == [status |-> "none"]
Campaign == [status : {"scheduled", "active", "ended"}, isActive : BOOLEAN, window : Window]

NoItem == [status |-> "none"]
Registration == [status : {"pending", "approved", "rejected"}, campaign : Campaigns,
                 variant : Variants, quantity : Nat, sold : Nat]

Exists(c) == campaign[c] # NoCampaign

\* A live deal: what getActiveFlashPriceMap prices and consume lets through.
OnSale(i) ==
  /\ item[i].status = "approved"
  /\ LET c == campaign[item[i].campaign] IN
       c.status = "active" /\ c.isActive /\ Within(c.window)

Idle == [op |-> "idle"]

\* A handler's next await: write an update; check for a registration, insert it;
\* write or delete an edited one; look for overlaps, write an approval or a
\* rejection.
Job ==
  {Idle}
  \cup [op : {"update"}, campaign : Campaigns, patch : Patches, window : Window]
  \cup [op : {"exists", "insert"}, campaign : Campaigns, variant : Variants,
        quantity : Quantities]
  \cup [op : {"edit"}, item : Items, quantity : Quantities]
  \cup [op : {"withdraw"}, item : Items]
  \cup [op : {"overlap"}, item : Items, campaign : Campaigns, variant : Variants,
        window : Window, quantity : Nat]
  \cup [op : {"approve"}, item : Items, variant : Variants, quantity : Nat]
  \cup [op : {"reject"}, item : Items]

TypeOK ==
  /\ now \in Times
  /\ campaign \in [Campaigns -> Campaign \cup {NoCampaign}]
  /\ item \in [Items -> Registration \cup {NoItem}]
  /\ cron \in Times \cup {-1}
  /\ req \in [Requests -> Job]
  /\ started \in 0 .. MaxRequests
  /\ reviewed \in [Items -> Nat]
  /\ contested \subseteq Items
  /\ crossed \subseteq Variants
  /\ moved \cup patched \subseteq Campaigns

\* The campaigns are announced, and some variants registered, by earlier requests.
Init ==
  /\ now = 0
  /\ campaign = [c \in Campaigns |->
       [status |-> "scheduled", isActive |-> TRUE, window |-> Announced[c]]]
  /\ item \in [Items -> {NoItem} \cup
       [status : {"pending"}, campaign : Campaigns, variant : Variants,
        quantity : Quantities, sold : {0}]]
  /\ \A i, j \in Items : i # j /\ item[i] # NoItem /\ item[j] # NoItem
       => <<item[i].campaign, item[i].variant>> # <<item[j].campaign, item[j].variant>>
  /\ cron = -1
  /\ req = [r \in Requests |-> Idle]
  /\ started = 0
  /\ reviewed = [i \in Items |-> 0]
  /\ contested = {}
  /\ crossed = {}
  /\ moved = {}
  /\ patched = {}

Goto(r, job) == req' = [req EXCEPT ![r] = job]
Done(r) == Goto(r, Idle)

Begin(r, job) ==
  /\ req[r] = Idle
  /\ started < MaxRequests
  /\ started' = started + 1
  /\ Goto(r, job)

-----------------------------------------------------------------------------
(* Admin: campaigns. *)

\* Ids are never used twice.
CreateCampaign(r, c, w) ==
  /\ req[r] = Idle
  /\ started < MaxRequests
  /\ started' = started + 1
  /\ campaign[c] = NoCampaign
  /\ c \notin moved \cup patched
  /\ \A s \in Requests : "campaign" \in DOMAIN req[s] => req[s].campaign # c
  /\ ValidWindow(w)
  /\ campaign' = [campaign EXCEPT ![c] =
       [status |-> StatusAt(w, now), isActive |-> TRUE, window |-> w]]
  /\ UNCHANGED <<now, item, cron, req, history>>

\* updateCampaign merges the patch with the row it read and checks the result.
ReadCampaign(r, c, p) ==
  LET merged == [e \in Edges |-> IF e \in DOMAIN p THEN p[e] ELSE campaign[c].window[e]] IN
  /\ Exists(c)
  /\ ValidWindow(merged)
  /\ Begin(r, [op |-> "update", campaign |-> c, patch |-> p, window |-> merged])
  /\ patched' = IF \E s \in Requests : req[s].op = "update" /\ req[s].campaign = c
                THEN patched \cup {c} ELSE patched
  /\ UNCHANGED <<now, rows, cron, reviewed, contested, crossed, moved>>

\* Only what the request names is written, and the status if the deal moved.
UpdateCampaign(r) ==
  LET c == req[r].campaign
      p == req[r].patch
      old == campaign[c]
      deal == DOMAIN p \cap {"from", "to"} # {}
      checked == \/ \E i \in Items : item[i].status = "approved" /\ item[i].campaign = c
                 \/ \E s \in Requests : /\ req[s].op \in {"overlap", "approve"}
                                       /\ item[req[s].item] # NoItem
                                       /\ item[req[s].item].campaign = c
  IN
  /\ req[r].op = "update"
  /\ campaign' = IF ~Exists(c) THEN campaign ELSE [campaign EXCEPT ![c] =
       [status |-> IF deal THEN StatusAt(req[r].window, now) ELSE old.status,
        isActive |-> IF "isActive" \in DOMAIN p THEN p["isActive"] ELSE old.isActive,
        window |-> [e \in Edges |-> IF e \in DOMAIN p THEN p[e] ELSE old.window[e]]]]
  /\ Done(r)
  /\ moved' = IF checked THEN moved \cup {c} ELSE moved
  /\ UNCHANGED <<now, item, cron, started, reviewed, contested, crossed, patched>>

\* Its registrations go with it (ON DELETE CASCADE).
DeleteCampaign(r, c) ==
  /\ req[r] = Idle
  /\ started < MaxRequests
  /\ started' = started + 1
  /\ Exists(c)
  /\ campaign' = [campaign EXCEPT ![c] = NoCampaign]
  /\ item' = [i \in Items |-> IF item[i] # NoItem /\ item[i].campaign = c THEN NoItem ELSE item[i]]
  /\ UNCHANGED <<now, cron, req, history>>

-----------------------------------------------------------------------------
(* Sellers: registrations. *)

\* assertRegistrationOpen.
Register(r, c, v, n) ==
  /\ Exists(c)
  /\ campaign[c].status = "scheduled"
  /\ campaign[c].window["regFrom"] <= now
  /\ now < campaign[c].window["regTo"]
  /\ Begin(r, [op |-> "exists", campaign |-> c, variant |-> v, quantity |-> n])
  /\ UNCHANGED <<now, rows, cron, history>>

\* The rows uq_flash_sale_items_sale_variant covers.
Registered(c, v) ==
  {i \in Items : /\ item[i].status \in {"pending", "approved"}
                 /\ item[i].campaign = c
                 /\ item[i].variant = v}

CheckExists(r) ==
  LET job == req[r] IN
  /\ job.op = "exists"
  /\ IF Registered(job.campaign, job.variant) # {} THEN Done(r)
     ELSE Goto(r, [job EXCEPT !.op = "insert"])
  /\ UNCHANGED <<now, rows, cron, started, history>>

\* Ids are never used twice: no row, no order and no request names this one.
Fresh(i) ==
  /\ item[i] = NoItem
  /\ i \notin contested
  /\ \A r \in Requests : "item" \in DOMAIN req[r] => req[r].item # i

\* The unique index and the campaign's foreign key may turn the row away.
InsertItem(r) ==
  LET job == req[r] IN
  /\ job.op = "insert"
  /\ IF Registered(job.campaign, job.variant) = {} /\ Exists(job.campaign)
     THEN \E i \in Items :
            /\ Fresh(i)
            /\ item' = [item EXCEPT ![i] =
                 [status |-> "pending", campaign |-> job.campaign, variant |-> job.variant,
                  quantity |-> job.quantity, sold |-> 0]]
     ELSE UNCHANGED item
  /\ Done(r)
  /\ UNCHANGED <<now, campaign, cron, started, history>>

SellerWrites(i) == \E s \in Requests : req[s].op \in {"edit", "withdraw"} /\ req[s].item = i
Approving(i) == \E s \in Requests : req[s].op \in {"overlap", "approve"} /\ req[s].item = i

\* Mutant: any registration may be edited.
ReadAny(r, i) ==
  /\ item[i] # NoItem
  /\ \E n \in Quantities : Begin(r, [op |-> "edit", item |-> i, quantity |-> n])
  /\ contested' = IF Approving(i) THEN contested \cup {i} ELSE contested
  /\ UNCHANGED <<now, rows, cron, reviewed, crossed, moved, patched>>

\* updateSellerItem and withdrawSellerItem read a pending registration.
ReadPending(r, i) ==
  /\ item[i].status = "pending"
  /\ \/ \E n \in Quantities :
          n >= item[i].sold /\ Begin(r, [op |-> "edit", item |-> i, quantity |-> n])
     \/ Begin(r, [op |-> "withdraw", item |-> i])
  /\ contested' = IF Approving(i) THEN contested \cup {i} ELSE contested
  /\ UNCHANGED <<now, rows, cron, reviewed, crossed, moved, patched>>

EditItem(r) ==
  LET i == req[r].item IN
  /\ req[r].op = "edit"
  /\ item' = IF item[i] = NoItem THEN item ELSE [item EXCEPT ![i].quantity = req[r].quantity]
  /\ Done(r)
  /\ UNCHANGED <<now, campaign, cron, started, history>>

WithdrawItem(r) ==
  LET i == req[r].item IN
  /\ req[r].op = "withdraw"
  /\ item' = [item EXCEPT ![i] = NoItem]
  /\ Done(r)
  /\ UNCHANGED <<now, campaign, cron, started, history>>

-----------------------------------------------------------------------------
(* Admins: decisions. *)

ApproveRead(r, i) ==
  LET it == item[i] IN
  /\ it.status = "pending"
  /\ Begin(r, [op |-> "overlap", item |-> i, campaign |-> it.campaign, variant |-> it.variant,
               window |-> campaign[it.campaign].window, quantity |-> it.quantity])
  /\ crossed' = IF \E s \in Requests : /\ req[s].op \in {"overlap", "approve"}
                                       /\ req[s].variant = it.variant
                THEN crossed \cup {it.variant} ELSE crossed
  /\ contested' = IF SellerWrites(i) THEN contested \cup {i} ELSE contested
  /\ UNCHANGED <<now, rows, cron, reviewed, moved, patched>>

\* Mutant: only campaigns that have started are looked at.
ApproveCheckActive(r) ==
  LET job == req[r] IN
  /\ job.op = "overlap"
  /\ IF \E j \in Items :
          /\ item[j].status = "approved"
          /\ item[j].variant = job.variant
          /\ item[j].campaign # job.campaign
          /\ campaign[item[j].campaign].status = "active"
     THEN Done(r)
     ELSE Goto(r, [op |-> "approve", item |-> job.item, variant |-> job.variant,
                   quantity |-> job.quantity])
  /\ UNCHANGED <<now, rows, cron, started, history>>

\* hasOverlappingItem: a hit ends in FLASH_SALE_012.
ApproveCheck(r) ==
  LET job == req[r]
      overlaps(j) ==
        LET d == campaign[item[j].campaign] IN
        /\ item[j].status = "approved"
        /\ item[j].variant = job.variant
        /\ item[j].campaign # job.campaign
        /\ d.isActive
        /\ d.status # "ended"
        /\ d.window["from"] < job.window["to"]
        /\ d.window["to"] > job.window["from"]
  IN
  /\ job.op = "overlap"
  /\ IF \E j \in Items : overlaps(j) THEN Done(r)
     ELSE Goto(r, [op |-> "approve", item |-> job.item, variant |-> job.variant,
                   quantity |-> job.quantity])
  /\ UNCHANGED <<now, rows, cron, started, history>>

\* Approving a rejected row may hit the unique index.
Approve(r) ==
  LET i == req[r].item
      others == Registered(item[i].campaign, item[i].variant) \ {i}
  IN
  /\ req[r].op = "approve"
  /\ IF item[i] = NoItem \/ others # {} THEN UNCHANGED <<item, reviewed>>
     ELSE /\ item' = [item EXCEPT ![i].status = "approved"]
          /\ reviewed' = [reviewed EXCEPT ![i] = req[r].quantity]
  /\ Done(r)
  /\ UNCHANGED <<now, campaign, cron, started, contested, crossed, moved, patched>>

\* A pending or an approved registration may be rejected.
RejectRead(r, i) ==
  /\ item[i].status \in {"pending", "approved"}
  /\ Begin(r, [op |-> "reject", item |-> i])
  /\ UNCHANGED <<now, rows, cron, reviewed, contested, crossed, moved, patched>>

Reject(r) ==
  LET i == req[r].item IN
  /\ req[r].op = "reject"
  /\ item' = IF item[i] = NoItem THEN item ELSE [item EXCEPT ![i].status = "rejected"]
  /\ Done(r)
  /\ UNCHANGED <<now, campaign, cron, started, history>>

\* removeItem: whatever was sold of it.
RemoveItem(r, i) ==
  /\ req[r] = Idle
  /\ started < MaxRequests
  /\ started' = started + 1
  /\ item[i] # NoItem
  /\ item' = [item EXCEPT ![i] = NoItem]
  /\ UNCHANGED <<now, campaign, cron, req, history>>

-----------------------------------------------------------------------------
(* Customers.  What surrounds these two UPDATEs is in Checkout. *)

\* Mutant: the quota in the WHERE clause is off by one.
ConsumeOneMore(i) ==
  /\ OnSale(i)
  /\ item[i].sold <= item[i].quantity
  /\ item' = [item EXCEPT ![i].sold = @ + 1]
  /\ UNCHANGED <<now, campaign, cron, req, started, history>>

\* The guarded UPDATE, for one unit.
Consume(i) ==
  /\ OnSale(i)
  /\ item[i].sold + 1 <= item[i].quantity
  /\ item' = [item EXCEPT ![i].sold = @ + 1]
  /\ UNCHANGED <<now, campaign, cron, req, started, history>>

\* An order is cancelled; `reverse` names the item it was bought from, and does
\* nothing when that is gone.
Reverse(i) ==
  /\ item[i] # NoItem
  /\ item[i].sold > 0
  /\ item' = [item EXCEPT ![i].sold = @ - 1]
  /\ UNCHANGED <<now, campaign, cron, req, started, history>>

-----------------------------------------------------------------------------
(* The clock and the scheduler's two UPDATEs, every minute. *)

Tick ==
  /\ now < MaxTime
  /\ now' = now + 1
  /\ UNCHANGED <<rows, cron, req, started, history>>

EndDue ==
  /\ cron = -1
  /\ cron' = now
  /\ campaign' = [c \in Campaigns |->
       IF Exists(c) /\ campaign[c].window["to"] <= now
       THEN [campaign[c] EXCEPT !.status = "ended"] ELSE campaign[c]]
  /\ UNCHANGED <<now, item, req, started, history>>

\* Both compare with the time the run began.
ActivateDue ==
  /\ cron # -1
  /\ cron' = -1
  /\ campaign' = [c \in Campaigns |->
       IF /\ Exists(c) /\ campaign[c].isActive
          /\ campaign[c].status = "scheduled"
          /\ campaign[c].window["from"] <= cron /\ campaign[c].window["to"] > cron
       THEN [campaign[c] EXCEPT !.status = "active"] ELSE campaign[c]]
  /\ UNCHANGED <<now, item, req, started, history>>

\* An await throws; nothing is written.
Fail(r) ==
  /\ req[r] # Idle
  /\ Done(r)
  /\ UNCHANGED <<now, rows, cron, started, history>>

-----------------------------------------------------------------------------
Admin(r) ==
  \/ \E c \in Campaigns : \/ \E w \in Windows : CreateCampaign(r, c, w)
                          \/ \E p \in Patches : ReadCampaign(r, c, p)
                          \/ DeleteCampaign(r, c)
  \/ UpdateCampaign(r)
  \/ \E i \in Items : ApproveRead(r, i) \/ RejectRead(r, i) \/ RemoveItem(r, i)
  \/ ApproveCheck(r) \/ Approve(r) \/ Reject(r)

Seller(r) ==
  \/ \E c \in Campaigns, v \in Variants, n \in Quantities : Register(r, c, v, n)
  \/ CheckExists(r) \/ InsertItem(r)
  \/ \E i \in Items : ReadPending(r, i)
  \/ EditItem(r) \/ WithdrawItem(r)

Next ==
  \/ \E r \in Requests : Admin(r) \/ Seller(r) \/ Fail(r)
  \/ \E i \in Items : Consume(i) \/ Reverse(i)
  \/ Tick \/ EndDue \/ ActivateDue

Spec == Init /\ [][Next]_vars

-----------------------------------------------------------------------------
(* Safety. *)

\* A deal never sells more than its quantity, although the quantity can be edited
\* and the item moderated while checkouts take units of it; only an edit in flight
\* during the approval can make it so.
SoldWithinQuota ==
  \A i \in Items : item[i] # NoItem /\ i \notin contested => item[i].sold <= item[i].quantity

\* What is on sale is what the admin read when he approved it, unless the seller
\* changed it meanwhile.
ApprovedAsReviewed ==
  \A i \in Items :
    item[i].status = "approved" /\ i \notin contested => item[i].quantity = reviewed[i]

\* A variant has one flash price at a time: two deals of it are on sale together
\* only if one of them was moved or switched on after the check, or both were
\* approved at the same time.
OnePricePerVariant ==
  \A i, j \in Items :
    OnSale(i) /\ OnSale(j) /\ item[i].variant = item[j].variant /\ i # j
      => \/ {item[i].campaign, item[j].campaign} \cap moved # {}
         \/ item[i].variant \in crossed

\* A stored window is a valid one, although updates write parts of it, unless two
\* of them were checked against the same row.
WindowIsValid ==
  \A c \in Campaigns : Exists(c) /\ c \notin patched => ValidWindow(campaign[c].window)


=============================================================================
