-------------------------------- MODULE Access --------------------------------
(***************************************************************************)
(* How a customer becomes a seller, and what a role may do:                *)
(* seller-application.service.ts and shop.service.ts write the shop, the   *)
(* role and the decision in three awaits; auth.service.ts edits the        *)
(* permissions of a role, which permissions.guard.ts reads through a cache *)
(* in the memory of the process; the access token keeps the role it was    *)
(* issued with.                                                            *)
(***************************************************************************)
EXTENDS Integers, FiniteSets

CONSTANTS
  Users,
  Applications,   \* rows of `seller_applications`; a bound
  Permissions,
  ShopsCreate,    \* the permission POST /seller/shop asks for
  Edited,         \* roles whose permissions the admins edit
  Assigned,       \* roles the admins give to users
  Moderated,      \* statuses the admins give to shops
  Seeded,         \* [Roles -> SUBSET Permissions] what the seed grants
  NoEntry,        \* nothing cached
  Requests        \* HTTP requests in flight

Roles == {"customer", "seller", "admin"}
ShopStatuses == {"pending_verification", "active", "suspended", "banned"}

ASSUME AccessAssumption ==
  /\ ShopsCreate \in Permissions
  /\ Edited \subseteq Roles \ {"admin"}
  /\ Assigned \subseteq Roles
  /\ Moderated \subseteq ShopStatuses
  /\ Seeded \in [Roles -> SUBSET Permissions]
  /\ \A found \in SUBSET Permissions : NoEntry # found

VARIABLES
  role,     \* [Users -> Roles] users.role_id
  token,    \* [Users -> Roles] the role in the user's access token
  shop,     \* [Users -> status of his shop, or "none"]
  app,      \* [Applications -> Application]
  grants,   \* [Roles -> SUBSET Permissions] `role_permissions`
  cache,    \* [Roles -> SUBSET Permissions or NoEntry]
  req,      \* [Requests -> Job]
  granted,    \* history: users whose role an admin has set
  activated,  \* history: users whose shop an admin has made active
  raced,    \* history: applications reviewed twice at once, or whose approval failed
            \* half way
  stale     \* history: roles whose entry was read before a write that is done, or
            \* whose edit failed before it reached the cache

people == <<role, token, shop, app, granted, activated, raced>>
rights == <<grants, cache, stale>>
vars == <<people, rights, req>>

NoApplication == [status |-> "none"]
Application ==
  {NoApplication} \cup [user : Users, status : {"pending", "approved", "rejected"}]

Idle == [op |-> "idle"]

\* The next await of a guarded createShop, of an edit, of apply and of a review.
Job ==
  {Idle}
  \cup [op : {"read"}, user : Users, role : Roles]
  \cup [op : {"fill"}, user : Users, role : Roles, found : SUBSET Permissions,
        clean : BOOLEAN]
  \cup [op : {"createShop", "applyShop", "applyPending", "apply"}, user : Users]
  \cup [op : {"sync", "add", "insert", "remove"}, role : Edited, ids : SUBSET Permissions]
  \cup [op : {"invalidate"}, role : Edited]
  \cup [op : {"findShop", "materialize", "grant", "approve", "reject"}, app : Applications]

Editing == {"sync", "add", "insert", "remove", "invalidate"}
Reviewing == {"findShop", "materialize", "grant", "approve", "reject"}

TypeOK ==
  /\ role \in [Users -> Roles]
  /\ token \in [Users -> Roles]
  /\ shop \in [Users -> {"none"} \cup ShopStatuses]
  /\ app \in [Applications -> Application]
  /\ grants \in [Roles -> SUBSET Permissions]
  /\ cache \in [Roles -> (SUBSET Permissions) \cup {NoEntry}]
  /\ req \in [Requests -> Job]
  /\ granted \cup activated \subseteq Users
  /\ raced \subseteq Applications
  /\ stale \subseteq Roles

Init ==
  /\ role = [u \in Users |-> "customer"]
  /\ token = [u \in Users |-> "customer"]
  /\ shop = [u \in Users |-> "none"]
  /\ app = [a \in Applications |-> NoApplication]
  /\ grants = Seeded
  /\ cache = [ro \in Roles |-> NoEntry]
  /\ req = [r \in Requests |-> Idle]
  /\ granted = {}
  /\ activated = {}
  /\ raced = {}
  /\ stale = {}

Goto(r, job) == req' = [req EXCEPT ![r] = job]
Start(r, job) == req[r] = Idle /\ Goto(r, job)

-----------------------------------------------------------------------------
(* The guard, before the seller's POST /seller/shop. *)

\* What the guard lets through, and what it turns away.
Decide(u, found) == IF ShopsCreate \in found THEN [op |-> "createShop", user |-> u] ELSE Idle

Call(r, u) ==
  LET ro == token[u] IN
  /\ Start(r, IF cache[ro] = NoEntry THEN [op |-> "read", user |-> u, role |-> ro]
              ELSE Decide(u, cache[ro]))
  /\ UNCHANGED <<people, rights>>

\* findPermissionStringsByRoleId.
ReadGrants(r) ==
  LET job == req[r] IN
  /\ job.op = "read"
  /\ Goto(r, [op |-> "fill", user |-> job.user, role |-> job.role,
              found |-> grants[job.role], clean |-> TRUE])
  /\ UNCHANGED <<people, rights>>

FillCache(r) ==
  LET job == req[r] IN
  /\ job.op = "fill"
  /\ cache' = [cache EXCEPT ![job.role] = job.found]
  /\ stale' = IF job.clean THEN stale \ {job.role} ELSE stale \cup {job.role}
  /\ Goto(r, Decide(job.user, job.found))
  /\ UNCHANGED <<people, grants>>

\* createShop: one shop per user, by its unique index.
CreateShop(r) ==
  LET u == req[r].user IN
  /\ req[r].op = "createShop"
  /\ shop' = IF shop[u] = "none" THEN [shop EXCEPT ![u] = "pending_verification"] ELSE shop
  /\ Goto(r, Idle)
  /\ UNCHANGED <<role, token, app, granted, activated, raced, rights>>

\* The sixty seconds of an entry are over.
EntryExpires(ro) ==
  /\ cache[ro] # NoEntry
  /\ cache' = [cache EXCEPT ![ro] = NoEntry]
  /\ stale' = stale \ {ro}
  /\ UNCHANGED <<people, grants, req>>

-----------------------------------------------------------------------------
(* An admin edits a role other than his own, with permissions he has. *)

StartEdit(r, op, ro, ids) ==
  /\ op \in {"sync", "add"} => ids \subseteq grants["admin"]
  /\ Start(r, [op |-> op, role |-> ro, ids |-> ids])
  /\ UNCHANGED <<people, rights>>

\* Guards that have read a role's permissions miss a write that changes them.
Overtaken(ro, r, job) ==
  [q \in Requests |->
     IF q = r THEN job
     ELSE IF req[q].op = "fill" /\ req[q].role = ro THEN [req[q] EXCEPT !.clean = FALSE]
     ELSE req[q]]

Write(r, ro, now, job) ==
  /\ grants' = [grants EXCEPT ![ro] = now]
  /\ req' = Overtaken(ro, r, job)
  /\ UNCHANGED <<people, cache, stale>>

\* syncPermissions: the rows are deleted, then the new ones saved.
SyncDelete(r) ==
  LET job == req[r] IN
  /\ job.op = "sync"
  /\ Write(r, job.role, {},
           IF job.ids = {} THEN [op |-> "invalidate", role |-> job.role]
           ELSE [job EXCEPT !.op = "insert"])

\* addPermissions: what is not there yet.
AddRead(r) ==
  LET job == req[r]
      new == job.ids \ grants[job.role]
  IN
  /\ job.op = "add"
  /\ Goto(r, IF new = {} THEN [op |-> "invalidate", role |-> job.role]
             ELSE [op |-> "insert", role |-> job.role, ids |-> new])
  /\ UNCHANGED <<people, rights>>

\* The unique index refuses a pair that is there.
InsertGrants(r) ==
  LET job == req[r] IN
  /\ job.op = "insert"
  /\ job.ids \cap grants[job.role] = {}
  /\ Write(r, job.role, grants[job.role] \cup job.ids,
           [op |-> "invalidate", role |-> job.role])

RemoveGrants(r) ==
  LET job == req[r] IN
  /\ job.op = "remove"
  /\ Write(r, job.role, grants[job.role] \ job.ids, [op |-> "invalidate", role |-> job.role])

\* Mutant: the entry is left to its sixty seconds.
InvalidateNothing(r) ==
  /\ req[r].op = "invalidate"
  /\ Goto(r, Idle)
  /\ UNCHANGED <<people, rights>>

Invalidate(r) ==
  LET ro == req[r].role IN
  /\ req[r].op = "invalidate"
  /\ cache' = [cache EXCEPT ![ro] = NoEntry]
  /\ stale' = stale \ {ro}
  /\ Goto(r, Idle)
  /\ UNCHANGED <<people, grants>>

-----------------------------------------------------------------------------
(* The customer applies. *)

Pending(a) == app[a].status = "pending"
PendingOf(u) == {a \in Applications : Pending(a) /\ app[a].user = u}

Apply(r, u) ==
  /\ token[u] # "seller"
  /\ Start(r, [op |-> "applyShop", user |-> u])
  /\ UNCHANGED <<people, rights>>

ApplyFindShop(r) ==
  LET u == req[r].user IN
  /\ req[r].op = "applyShop"
  /\ Goto(r, IF shop[u] = "none" THEN [op |-> "applyPending", user |-> u] ELSE Idle)
  /\ UNCHANGED <<people, rights>>

ApplyFindPending(r) ==
  LET u == req[r].user IN
  /\ req[r].op = "applyPending"
  /\ Goto(r, IF PendingOf(u) = {} THEN [op |-> "apply", user |-> u] ELSE Idle)
  /\ UNCHANGED <<people, rights>>

\* One pending row per user, by the filtered unique index.
CreateApplication(r, a) ==
  LET u == req[r].user IN
  /\ req[r].op = "apply"
  /\ PendingOf(u) = {}
  /\ app[a] = NoApplication
  /\ app' = [app EXCEPT ![a] = [user |-> u, status |-> "pending"]]
  /\ Goto(r, Idle)
  /\ UNCHANGED <<role, token, shop, granted, activated, raced, rights>>

-----------------------------------------------------------------------------
(* An admin reviews, or sets a role. *)

Reviews(a) == {r \in Requests : req[r].op \in Reviewing /\ req[r].app = a}

Review(r, a, op) ==
  /\ Start(r, [op |-> op, app |-> a])
  /\ raced' = IF Reviews(a) = {} THEN raced ELSE raced \cup {a}
  /\ UNCHANGED <<role, token, shop, app, granted, activated, rights>>

Approve(r, a) == Pending(a) /\ Review(r, a, "findShop")

\* Mutant: an application that was decided can be rejected.
RejectAny(r, a) == app[a] # NoApplication /\ Review(r, a, "reject")

Reject(r, a) == Pending(a) /\ Review(r, a, "reject")

ApproveFindShop(r) ==
  LET job == req[r]
      next == IF shop[app[job.app].user] = "none" THEN "materialize" ELSE "grant"
  IN
  /\ job.op = "findShop"
  /\ Goto(r, [job EXCEPT !.op = next])
  /\ UNCHANGED <<people, rights>>

\* createShopFromApplication; SHOP_002 ends the approval.
MaterializeShop(r) ==
  LET job == req[r]
      u == app[job.app].user
  IN
  /\ job.op = "materialize"
  /\ IF shop[u] = "none"
     THEN /\ shop' = [shop EXCEPT ![u] = "active"]
          /\ Goto(r, [job EXCEPT !.op = "grant"])
     ELSE /\ UNCHANGED shop
          /\ Goto(r, Idle)
  /\ UNCHANGED <<role, token, app, granted, activated, raced, rights>>

\* Mutant: the role is left as it was.
GrantNothing(r) ==
  LET job == req[r] IN
  /\ job.op = "grant"
  /\ Goto(r, [job EXCEPT !.op = "approve"])
  /\ UNCHANGED <<people, rights>>

GrantSeller(r) ==
  LET job == req[r] IN
  /\ job.op = "grant"
  /\ role' = [role EXCEPT ![app[job.app].user] = "seller"]
  /\ Goto(r, [job EXCEPT !.op = "approve"])
  /\ UNCHANGED <<token, shop, app, granted, activated, raced, rights>>

Decision(r, op, status) ==
  LET a == req[r].app IN
  /\ req[r].op = op
  /\ app' = [app EXCEPT ![a].status = status]
  /\ Goto(r, Idle)
  /\ UNCHANGED <<role, token, shop, granted, activated, raced, rights>>

MarkApproved(r) == Decision(r, "approve", "approved")
MarkRejected(r) == Decision(r, "reject", "rejected")

\* changeUserRole.
ChangeUserRole(u, ro) ==
  /\ role' = [role EXCEPT ![u] = ro]
  /\ granted' = granted \cup {u}
  /\ UNCHANGED <<token, shop, app, activated, raced, rights, req>>

\* updateShopStatus: an UPDATE by id, whatever the status is.
UpdateShopStatus(u, st) ==
  /\ shop[u] # "none"
  /\ shop' = [shop EXCEPT ![u] = st]
  /\ activated' = IF st = "active" THEN activated \cup {u} ELSE activated
  /\ UNCHANGED <<role, token, app, granted, raced, rights, req>>

\* A login or a refresh: the next access token has the role of now.
IssueToken(u) ==
  /\ token' = [token EXCEPT ![u] = role[u]]
  /\ UNCHANGED <<role, shop, app, granted, activated, raced, rights, req>>

\* An await throws: the database, a unique index, or the process.
Fail(r) ==
  LET job == req[r] IN
  /\ job # Idle
  /\ Goto(r, Idle)
  /\ raced' = IF job.op \in {"grant", "approve"} THEN raced \cup {job.app} ELSE raced
  /\ stale' = IF job.op \in {"insert", "invalidate"} THEN stale \cup {job.role} ELSE stale
  /\ UNCHANGED <<role, token, shop, app, granted, activated, grants, cache>>

-----------------------------------------------------------------------------
Guarded(r) == (\E u \in Users : Call(r, u)) \/ ReadGrants(r) \/ FillCache(r) \/ CreateShop(r)

Edit(r) ==
  \/ \E op \in {"sync", "add", "remove"}, ro \in Edited, ids \in SUBSET Permissions :
       StartEdit(r, op, ro, ids)
  \/ SyncDelete(r) \/ AddRead(r) \/ InsertGrants(r) \/ RemoveGrants(r) \/ Invalidate(r)

Onboard(r) ==
  \/ \E u \in Users : Apply(r, u)
  \/ ApplyFindShop(r) \/ ApplyFindPending(r)
  \/ \E a \in Applications : CreateApplication(r, a) \/ Approve(r, a) \/ Reject(r, a)
  \/ ApproveFindShop(r) \/ MaterializeShop(r) \/ GrantSeller(r)
  \/ MarkApproved(r) \/ MarkRejected(r)

Next ==
  \/ \E r \in Requests : Guarded(r) \/ Edit(r) \/ Onboard(r) \/ Fail(r)
  \/ \E u \in Users : \/ IssueToken(u)
                      \/ \E ro \in Assigned : ChangeUserRole(u, ro)
                      \/ \E st \in Moderated : UpdateShopStatus(u, st)
  \/ \E ro \in Roles : EntryExpires(ro)

Spec == Init /\ [][Next]_vars

-----------------------------------------------------------------------------
(* Safety. *)

EditsOf(ro) == {r \in Requests : req[r].op \in Editing /\ req[r].role = ro}

\* What the guard finds cached is what the role may do, once its edits have come to
\* an end: only an entry that a guard had read before the edit, or whose edit died
\* half way, differs from the table, and no longer than it lives.
CacheIsFresh ==
  \A ro \in Roles \ stale :
    cache[ro] # NoEntry /\ EditsOf(ro) = {} => cache[ro] = grants[ro]

\* An approved applicant has a shop, whatever its status (an approval takes a shop that
\* is there as it is), and the role unless an admin has set it himself: the decision is
\* written last, and a retry after a failure skips nothing.
ApprovedIsSeller ==
  \A a \in Applications :
    app[a].status = "approved" =>
      /\ shop[app[a].user] # "none"
      /\ app[a].user \notin granted => role[app[a].user] = "seller"

\* Who was only ever rejected is no seller and has no active shop but one that an admin
\* made active by hand, unless a rejection met an approval on its way or one that had
\* failed half way, or an admin has set his role.
RejectedIsNoSeller ==
  \A u \in Users \ granted :
    (\A a \in Applications :
       app[a] # NoApplication /\ app[a].user = u => app[a].status = "rejected" /\ a \notin raced)
      => role[u] = "customer" /\ (shop[u] = "active" => u \in activated)

=============================================================================
