---------------------------- MODULE AccessProofs ----------------------------
(***************************************************************************)
(* Proofs about Access, for any users, applications, permissions, roles    *)
(* that may be edited or assigned, and requests in flight.                 *)
(***************************************************************************)
EXTENDS Access, TLAPS

\* A review is of an application that exists: no row is ever deleted.
Submitted ==
  \A r \in Requests : req[r].op \in Reviewing => app[req[r].app] # NoApplication

TInv == TypeOK /\ Submitted

-----------------------------------------------------------------------------
(* Rows and jobs. *)

LEMMA ApplicationIsRow ==
  ASSUME TypeOK, NEW a \in Applications, app[a] # NoApplication
  PROVE  /\ app[a].user \in Users
         /\ app[a].status \in {"pending", "approved", "rejected"}
         /\ \A st \in {"approved", "rejected"} :
              /\ [app[a] EXCEPT !.status = st] \in Application \ {NoApplication}
              /\ [app[a] EXCEPT !.status = st].status = st
              /\ [app[a] EXCEPT !.status = st].user = app[a].user
  <1> DEFINE Rows == [user : Users, status : {"pending", "approved", "rejected"}]
  <1>1. app[a] \in Rows
    BY DEF TypeOK, Application
  <1>2. ASSUME NEW row \in Rows, NEW st \in {"approved", "rejected"}
        PROVE  /\ [row EXCEPT !.status = st] \in Rows
               /\ [row EXCEPT !.status = st].status = st
               /\ [row EXCEPT !.status = st].user = row.user
    OBVIOUS
  <1>3. NoApplication \notin Rows
    BY DEF NoApplication
  <1>4. Rows \subseteq Application
    BY DEF Application
  <1>5. app[a].user \in Users /\ app[a].status \in {"pending", "approved", "rejected"}
    BY <1>1
  <1> HIDE DEF Rows
  <1> QED
    BY <1>1, <1>2, <1>3, <1>4, <1>5

\* What a job that a handler is at carries.
LEMMA JobFacts ==
  ASSUME NEW job \in Job
  PROVE  /\ job.op \in {"read", "fill"} => job.user \in Users /\ job.role \in Roles
         /\ job.op = "fill" => job.found \in SUBSET Permissions /\ job.clean \in BOOLEAN
         /\ job.op \in {"createShop", "applyShop", "applyPending", "apply"} => job.user \in Users
         /\ job.op \in {"sync", "add", "insert", "remove"} =>
              job.role \in Edited /\ job.ids \in SUBSET Permissions
         /\ job.op = "invalidate" => job.role \in Edited
         /\ job.op \in Reviewing => job.app \in Applications
  BY DEF Job, Idle, Reviewing

LEMMA IdleIsJob == Idle \in Job /\ Idle.op = "idle"
  BY DEF Idle, Job

LEMMA GuardJobs ==
  ASSUME NEW u \in Users, NEW ro \in Roles, NEW found \in SUBSET Permissions
  PROVE  /\ [op |-> "read", user |-> u, role |-> ro] \in Job
         /\ [op |-> "fill", user |-> u, role |-> ro, found |-> found, clean |-> TRUE] \in Job
         /\ Decide(u, found) \in Job
         /\ Decide(u, found).op \in {"createShop", "idle"}
  BY DEF Job, Decide, Idle

LEMMA EditJobs ==
  ASSUME NEW ro \in Edited, NEW ids \in SUBSET Permissions
  PROVE  /\ \A op \in {"sync", "add", "insert", "remove"} :
              [op |-> op, role |-> ro, ids |-> ids] \in Job
         /\ [op |-> "invalidate", role |-> ro] \in Job
  BY DEF Job

LEMMA ApplyJobs ==
  ASSUME NEW u \in Users
  PROVE  \A op \in {"applyShop", "applyPending", "apply"} : [op |-> op, user |-> u] \in Job
  BY DEF Job

LEMMA ReviewJobs ==
  ASSUME NEW a \in Applications
  PROVE  \A op \in Reviewing : [op |-> op, app |-> a] \in Job
  BY DEF Job, Reviewing

LEMMA ReviewGoesOn ==
  ASSUME NEW job \in Job, job.op \in Reviewing
  PROVE  \A op \in Reviewing :
           /\ [job EXCEPT !.op = op] \in Job
           /\ [job EXCEPT !.op = op].op = op
           /\ [job EXCEPT !.op = op].app = job.app
  <1> DEFINE Jobs == [op : Reviewing, app : Applications]
  <1>1. job \in Jobs
    BY DEF Job, Idle, Reviewing
  <1>2. ASSUME NEW j \in Jobs, NEW op \in Reviewing
        PROVE  /\ [j EXCEPT !.op = op] \in Jobs
               /\ [j EXCEPT !.op = op].op = op
               /\ [j EXCEPT !.op = op].app = j.app
    OBVIOUS
  <1>3. Jobs \subseteq Job
    BY DEF Job, Reviewing
  <1> HIDE DEF Jobs
  <1> QED
    BY <1>1, <1>2, <1>3

LEMMA SyncGoesOn ==
  ASSUME NEW job \in Job, job.op = "sync"
  PROVE  /\ [job EXCEPT !.op = "insert"] \in Job
         /\ [job EXCEPT !.op = "insert"].op = "insert"
         /\ [job EXCEPT !.op = "insert"].role = job.role
  <1> DEFINE Jobs == [op : {"sync", "add", "insert", "remove"}, role : Edited,
                      ids : SUBSET Permissions]
  <1>1. job \in Jobs
    BY DEF Job, Idle
  <1>2. ASSUME NEW j \in Jobs
        PROVE  /\ [j EXCEPT !.op = "insert"] \in Jobs
               /\ [j EXCEPT !.op = "insert"].op = "insert"
               /\ [j EXCEPT !.op = "insert"].role = j.role
    OBVIOUS
  <1>3. Jobs \subseteq Job
    BY DEF Job
  <1> HIDE DEF Jobs
  <1> QED
    BY <1>1, <1>2, <1>3

LEMMA FillIsOvertaken ==
  ASSUME NEW job \in Job, job.op = "fill"
  PROVE  /\ [job EXCEPT !.clean = FALSE] \in Job
         /\ [job EXCEPT !.clean = FALSE].op = "fill"
         /\ [job EXCEPT !.clean = FALSE].role = job.role
         /\ [job EXCEPT !.clean = FALSE].clean = FALSE
  <1> DEFINE Jobs == [op : {"fill"}, user : Users, role : Roles, found : SUBSET Permissions,
                      clean : BOOLEAN]
  <1>1. job \in Jobs
    BY DEF Job, Idle
  <1>2. ASSUME NEW j \in Jobs
        PROVE  /\ [j EXCEPT !.clean = FALSE] \in Jobs
               /\ [j EXCEPT !.clean = FALSE].op = "fill"
               /\ [j EXCEPT !.clean = FALSE].role = j.role
               /\ [j EXCEPT !.clean = FALSE].clean = FALSE
    OBVIOUS
  <1>3. Jobs \subseteq Job
    BY DEF Job
  <1> HIDE DEF Jobs
  <1> QED
    BY <1>1, <1>2, <1>3

\* What a write of a role's permissions leaves of the requests in flight.
LEMMA OvertakenJobs ==
  ASSUME TypeOK, NEW r \in Requests, NEW ro \in Roles, NEW job \in Job,
         req' = [s \in Requests |->
                  IF s = r THEN job
                  ELSE IF req[s].op = "fill" /\ req[s].role = ro
                  THEN [req[s] EXCEPT !.clean = FALSE] ELSE req[s]]
  PROVE  /\ req' \in [Requests -> Job]
         /\ req'[r] = job
         /\ \A s \in Requests \ {r} :
              \/ req'[s] = req[s] /\ ~(req[s].op = "fill" /\ req[s].role = ro)
              \/ /\ req[s].op = "fill" /\ req'[s].op = "fill"
                 /\ req[s].role = ro /\ req'[s].role = ro
                 /\ req'[s].clean = FALSE
  <1>1. req'[r] = job
    OBVIOUS
  <1>2. ASSUME NEW s \in Requests \ {r}
        PROVE  /\ req'[s] \in Job
               /\ \/ req'[s] = req[s] /\ ~(req[s].op = "fill" /\ req[s].role = ro)
                  \/ /\ req[s].op = "fill" /\ req'[s].op = "fill"
                     /\ req[s].role = ro /\ req'[s].role = ro
                     /\ req'[s].clean = FALSE
    <2> PICK old \in Job : old = req[s]
      BY DEF TypeOK
    <2>1. req'[s] = IF old.op = "fill" /\ old.role = ro
                    THEN [old EXCEPT !.clean = FALSE] ELSE old
      OBVIOUS
    <2> QED
      BY <2>1, FillIsOvertaken
  <1>3. \A s \in Requests : req'[s] \in Job
    BY <1>1, <1>2
  <1>4. req' \in [Requests -> Job]
    BY <1>3
  <1> QED
    BY <1>1, <1>2, <1>4

-----------------------------------------------------------------------------
(* Types. *)

\* A handler that moves on, whatever it writes but applications.
LEMMA GotoType ==
  ASSUME TInv, NEW r \in Requests, NEW job \in Job, Goto(r, job), app' = app,
         job.op \in Reviewing => app[job.app] # NoApplication,
         role' \in [Users -> Roles], token' = token,
         shop' \in [Users -> {"none"} \cup ShopStatuses],
         grants' = grants, cache' \in [Roles -> (SUBSET Permissions) \cup {NoEntry}],
         granted' = granted, activated' = activated, raced' \subseteq Applications, stale' \subseteq Roles
  PROVE  TInv'
  <1>1. TypeOK'
    BY DEF TInv, TypeOK, Goto
  <1>2. \A s \in Requests : req'[s] = IF s = r THEN job ELSE req[s]
    BY DEF TInv, TypeOK, Goto
  <1>3. Submitted'
    BY <1>2 DEF TInv, Submitted
  <1> QED
    BY <1>1, <1>3 DEF TInv

\* A write of a role's permissions.
LEMMA WriteType ==
  ASSUME TInv, NEW r \in Requests, NEW ro \in Roles, NEW now \in SUBSET Permissions,
         NEW job \in Job, job.op \notin Reviewing, Write(r, ro, now, job)
  PROVE  TInv'
  <1>1. /\ req' = [s \in Requests |->
                          IF s = r THEN job
                          ELSE IF req[s].op = "fill" /\ req[s].role = ro
                          THEN [req[s] EXCEPT !.clean = FALSE] ELSE req[s]]
        /\ grants' = [grants EXCEPT ![ro] = now]
        /\ UNCHANGED <<role, token, shop, app, granted, activated, raced, cache, stale>>
    BY DEF Write, Overtaken, people
  <1>2. TypeOK'
    <2>1. req' \in [Requests -> Job]
      BY <1>1, OvertakenJobs DEF TInv
    <2> QED
      BY <1>1, <2>1 DEF TInv, TypeOK
  <1>3. /\ req'[r] = job
        /\ \A s \in Requests \ {r} : req'[s] = req[s] \/ req'[s].op = "fill"
    BY <1>1, OvertakenJobs DEF TInv
  <1>4. \A s \in Requests : req'[s].op \in Reviewing => req'[s] = req[s]
    BY <1>3 DEF Reviewing
  <1>5. Submitted'
    BY <1>1, <1>4 DEF TInv, Submitted
  <1> QED
    BY <1>2, <1>5 DEF TInv

LEMMA EditableRoles == Edited \subseteq Roles
  BY AccessAssumption

LEMMA CallType ==
  ASSUME TInv, NEW r \in Requests, NEW u \in Users, Call(r, u)
  PROVE  TInv'
  <1> DEFINE ro == token[u]
             job == IF cache[ro] = NoEntry THEN [op |-> "read", user |-> u, role |-> ro]
                    ELSE Decide(u, cache[ro])
  <1>1. ro \in Roles
    BY DEF TInv, TypeOK
  <1>4. cache[ro] # NoEntry => cache[ro] \in SUBSET Permissions
    <2>1. cache[ro] \in (SUBSET Permissions) \cup {NoEntry}
      BY <1>1, Zenon DEF TInv, TypeOK
    <2> QED
      BY <2>1
  <1>2. job \in Job /\ job.op \notin Reviewing
    BY <1>1, <1>4, GuardJobs DEF Reviewing
  <1>3. Goto(r, job) /\ UNCHANGED <<people, rights>>
    BY DEF Call, Start
  <1> HIDE DEF job
  <1> QED
    BY <1>2, <1>3, GotoType DEF people, rights, TInv, TypeOK

LEMMA ReadGrantsType ==
  ASSUME TInv, NEW r \in Requests, ReadGrants(r)
  PROVE  TInv'
  <1> PICK job \in Job : job = req[r]
    BY DEF TInv, TypeOK
  <1> DEFINE next == [op |-> "fill", user |-> job.user, role |-> job.role,
                      found |-> grants[job.role], clean |-> TRUE]
  <1>1. job.user \in Users /\ job.role \in Roles /\ grants[job.role] \in SUBSET Permissions
    BY JobFacts DEF ReadGrants, TInv, TypeOK
  <1>2. next \in Job /\ next.op \notin Reviewing
    BY <1>1, GuardJobs DEF Reviewing
  <1>3. Goto(r, next) /\ UNCHANGED <<people, rights>>
    BY DEF ReadGrants
  <1> HIDE DEF next
  <1> QED
    BY <1>2, <1>3, GotoType DEF people, rights, TInv, TypeOK

LEMMA FillCacheType ==
  ASSUME TInv, NEW r \in Requests, FillCache(r)
  PROVE  TInv'
  <1> PICK job \in Job : job = req[r]
    BY DEF TInv, TypeOK
  <1> DEFINE next == Decide(job.user, job.found)
  <1>1. job.user \in Users /\ job.role \in Roles /\ job.found \in SUBSET Permissions
    BY JobFacts DEF FillCache
  <1>2. next \in Job /\ next.op \notin Reviewing
    BY <1>1, GuardJobs DEF Reviewing
  <1>3. Goto(r, next) /\ UNCHANGED <<people, grants>>
    BY DEF FillCache
  <1>4. cache' = [cache EXCEPT ![job.role] = job.found]
        /\ stale' \subseteq stale \cup {job.role}
    BY DEF FillCache
  <1> HIDE DEF next
  <1> QED
    BY <1>1, <1>2, <1>3, <1>4, GotoType DEF people, TInv, TypeOK

LEMMA CreateShopType ==
  ASSUME TInv, NEW r \in Requests, CreateShop(r)
  PROVE  TInv'
  BY IdleIsJob, GotoType DEF CreateShop, rights, TInv, TypeOK, ShopStatuses, Reviewing

LEMMA StartEditType ==
  ASSUME TInv, NEW r \in Requests, NEW op \in {"sync", "add", "remove"}, NEW ro \in Edited,
         NEW ids \in SUBSET Permissions, StartEdit(r, op, ro, ids)
  PROVE  TInv'
  <1> DEFINE job == [op |-> op, role |-> ro, ids |-> ids]
  <1>1. job \in Job /\ job.op \notin Reviewing
    BY EditJobs DEF Reviewing
  <1>2. Goto(r, job) /\ UNCHANGED <<people, rights>>
    BY DEF StartEdit, Start
  <1> HIDE DEF job
  <1> QED
    BY <1>1, <1>2, GotoType DEF people, rights, TInv, TypeOK

LEMMA SyncDeleteType ==
  ASSUME TInv, NEW r \in Requests, SyncDelete(r)
  PROVE  TInv'
  <1> PICK job \in Job : job = req[r]
    BY DEF TInv, TypeOK
  <1> DEFINE next == IF job.ids = {} THEN [op |-> "invalidate", role |-> job.role]
                     ELSE [job EXCEPT !.op = "insert"]
  <1>1. job.op = "sync" /\ job.role \in Edited
    BY JobFacts DEF SyncDelete
  <1>2. next \in Job /\ next.op \notin Reviewing
    BY <1>1, EditJobs, SyncGoesOn DEF Reviewing
  <1>3. Write(r, job.role, {}, next)
    BY DEF SyncDelete
  <1> HIDE DEF next
  <1> QED
    BY <1>1, <1>2, <1>3, WriteType, EditableRoles

LEMMA AddReadType ==
  ASSUME TInv, NEW r \in Requests, AddRead(r)
  PROVE  TInv'
  <1> PICK job \in Job : job = req[r]
    BY DEF TInv, TypeOK
  <1> DEFINE new == job.ids \ grants[job.role]
             next == IF new = {} THEN [op |-> "invalidate", role |-> job.role]
                     ELSE [op |-> "insert", role |-> job.role, ids |-> new]
  <1>1. job.role \in Edited /\ job.ids \in SUBSET Permissions
    BY JobFacts DEF AddRead
  <1>2. next \in Job /\ next.op \notin Reviewing
    BY <1>1, EditJobs DEF Reviewing
  <1>3. Goto(r, next) /\ UNCHANGED <<people, rights>>
    BY DEF AddRead
  <1> HIDE DEF next
  <1> QED
    BY <1>2, <1>3, GotoType DEF people, rights, TInv, TypeOK

LEMMA InsertGrantsType ==
  ASSUME TInv, NEW r \in Requests, InsertGrants(r)
  PROVE  TInv'
  <1> PICK job \in Job : job = req[r]
    BY DEF TInv, TypeOK
  <1> DEFINE next == [op |-> "invalidate", role |-> job.role]
             now == grants[job.role] \cup job.ids
  <1>1. job.role \in Edited /\ job.ids \in SUBSET Permissions
    BY JobFacts DEF InsertGrants
  <1>2. now \in SUBSET Permissions
    BY <1>1, EditableRoles DEF TInv, TypeOK
  <1>3. next \in Job /\ next.op \notin Reviewing
    BY <1>1, EditJobs DEF Reviewing
  <1>4. Write(r, job.role, now, next)
    BY DEF InsertGrants
  <1> HIDE DEF next, now
  <1> QED
    BY <1>1, <1>2, <1>3, <1>4, WriteType, EditableRoles

LEMMA RemoveGrantsType ==
  ASSUME TInv, NEW r \in Requests, RemoveGrants(r)
  PROVE  TInv'
  <1> PICK job \in Job : job = req[r]
    BY DEF TInv, TypeOK
  <1> DEFINE next == [op |-> "invalidate", role |-> job.role]
             now == grants[job.role] \ job.ids
  <1>1. job.role \in Edited
    BY JobFacts DEF RemoveGrants
  <1>2. now \in SUBSET Permissions
    BY <1>1, EditableRoles DEF TInv, TypeOK
  <1>3. next \in Job /\ next.op \notin Reviewing
    BY <1>1, EditJobs DEF Reviewing
  <1>4. Write(r, job.role, now, next)
    BY DEF RemoveGrants
  <1> HIDE DEF next, now
  <1> QED
    BY <1>1, <1>2, <1>3, <1>4, WriteType, EditableRoles

LEMMA InvalidateType ==
  ASSUME TInv, NEW r \in Requests, Invalidate(r)
  PROVE  TInv'
  BY IdleIsJob, GotoType DEF Invalidate, people, TInv, TypeOK, Reviewing

LEMMA ApplyType ==
  ASSUME TInv, NEW r \in Requests,
         \/ \E u \in Users : Apply(r, u)
         \/ ApplyFindShop(r) \/ ApplyFindPending(r)
  PROVE  TInv'
  <1> PICK old \in Job : old = req[r]
    BY DEF TInv, TypeOK
  <1>1. PICK job \in Job : Goto(r, job) /\ job.op \notin Reviewing /\ UNCHANGED <<people, rights>>
    BY IdleIsJob, ApplyJobs, JobFacts
    DEF Apply, Start, ApplyFindShop, ApplyFindPending, Reviewing
  <1>2. /\ app' = app /\ token' = token /\ grants' = grants /\ granted' = granted /\ activated' = activated
        /\ role' \in [Users -> Roles]
        /\ shop' \in [Users -> {"none"} \cup ShopStatuses]
        /\ cache' \in [Roles -> (SUBSET Permissions) \cup {NoEntry}]
        /\ raced' \subseteq Applications /\ stale' \subseteq Roles
    BY <1>1 DEF people, rights, TInv, TypeOK
  <1> QED
    BY <1>1, <1>2, GotoType

LEMMA CreateApplicationType ==
  ASSUME TInv, NEW r \in Requests, NEW a \in Applications, CreateApplication(r, a)
  PROVE  TInv'
  <1> PICK job \in Job : job = req[r]
    BY DEF TInv, TypeOK
  <1> DEFINE row == [user |-> job.user, status |-> "pending"]
  <1>1. row \in Application /\ row # NoApplication
    BY JobFacts DEF CreateApplication, Application, NoApplication
  <1>2. app' = [app EXCEPT ![a] = row] /\ Goto(r, Idle)
        /\ UNCHANGED <<role, token, shop, granted, activated, raced, grants, cache, stale>>
    BY DEF CreateApplication, rights
  <1> HIDE DEF row
  <1>3. TypeOK'
    BY <1>1, <1>2, IdleIsJob DEF TInv, TypeOK, Goto
  <1>4. \A s \in Requests : req'[s].op \in Reviewing => req'[s] = req[s]
    BY <1>2, IdleIsJob DEF TInv, TypeOK, Goto, Reviewing
  <1>5. \A b \in Applications : app[b] # NoApplication => app'[b] # NoApplication
    BY <1>1, <1>2 DEF TInv, TypeOK
  <1>6. \A s \in Requests : req[s].op \in Reviewing => req[s].app \in Applications
    BY JobFacts DEF TInv, TypeOK
  <1>7. Submitted'
    BY <1>4, <1>5, <1>6 DEF TInv, Submitted
  <1> QED
    BY <1>3, <1>7 DEF TInv

LEMMA ReviewType ==
  ASSUME TInv, NEW r \in Requests, NEW a \in Applications, Approve(r, a) \/ Reject(r, a)
  PROVE  TInv'
  <1>1. app[a] # NoApplication
    BY DEF Approve, Reject, Pending, NoApplication
  <1>2. PICK op \in {"findShop", "reject"} : Review(r, a, op)
    BY DEF Approve, Reject
  <1> DEFINE job == [op |-> op, app |-> a]
  <1>3. job \in Job /\ job.app = a
    BY ReviewJobs DEF Reviewing
  <1>4. Goto(r, job) /\ raced' \subseteq raced \cup {a}
        /\ UNCHANGED <<role, token, shop, app, granted, activated, rights>>
    BY <1>2 DEF Review, Start
  <1> HIDE DEF job
  <1> QED
    BY <1>1, <1>3, <1>4, GotoType DEF rights, TInv, TypeOK

\* An approval that goes on, or ends.
LEMMA ApprovalType ==
  ASSUME TInv, NEW r \in Requests,
         ApproveFindShop(r) \/ MaterializeShop(r) \/ GrantSeller(r)
  PROVE  TInv'
  <1> PICK old \in Job : old = req[r]
    BY DEF TInv, TypeOK
  <1>1. /\ old.op \in Reviewing
        /\ UNCHANGED <<token, app, granted, activated, raced, rights>>
        /\ \/ req' = [req EXCEPT ![r] = Idle]
           \/ \E op \in Reviewing : req' = [req EXCEPT ![r] = [old EXCEPT !.op = op]]
    BY DEF ApproveFindShop, MaterializeShop, GrantSeller, Reviewing, people, Goto
  <1>2. app[old.app] # NoApplication
    BY <1>1 DEF TInv, Submitted
  <1>3. role' \in [Users -> Roles] /\ shop' \in [Users -> {"none"} \cup ShopStatuses]
    BY DEF ApproveFindShop, MaterializeShop, GrantSeller, people, TInv, TypeOK, Roles, ShopStatuses
  <1>4. PICK job \in Job : Goto(r, job) /\ (job.op \in Reviewing => job.app = old.app)
    <2>1. CASE req' = [req EXCEPT ![r] = Idle]
      BY <2>1, IdleIsJob DEF Reviewing, Goto
    <2>2. ASSUME NEW op \in Reviewing, req' = [req EXCEPT ![r] = [old EXCEPT !.op = op]]
          PROVE  \E job \in Job : Goto(r, job) /\ (job.op \in Reviewing => job.app = old.app)
      <3>1. PICK job \in Job : job = [old EXCEPT !.op = op] /\ job.app = old.app
        BY <1>1, ReviewGoesOn
      <3> QED
        BY <2>2, <3>1 DEF Goto
    <2> QED
      BY <1>1, <2>1, <2>2
  <1> QED
    BY <1>1, <1>2, <1>3, <1>4, GotoType DEF rights, TInv, TypeOK

LEMMA DecisionType ==
  ASSUME TInv, NEW r \in Requests, MarkApproved(r) \/ MarkRejected(r)
  PROVE  TInv'
  <1> PICK job \in Job : job = req[r]
    BY DEF TInv, TypeOK
  <1>1. PICK st \in {"approved", "rejected"} :
          /\ job.op \in Reviewing
          /\ app' = [app EXCEPT ![job.app].status = st]
          /\ Goto(r, Idle)
          /\ UNCHANGED <<role, token, shop, granted, activated, raced, rights>>
    BY DEF MarkApproved, MarkRejected, Decision, Reviewing
  <1> PICK a \in Applications : a = job.app /\ app[a] # NoApplication
    BY <1>1, JobFacts DEF TInv, Submitted
  <1>2. PICK row \in Application \ {NoApplication} : app' = [app EXCEPT ![a] = row]
    BY <1>1, ApplicationIsRow DEF TInv
  <1>3. TypeOK'
    BY <1>1, <1>2, IdleIsJob DEF TInv, TypeOK, Goto, rights
  <1>4. \A s \in Requests : req'[s].op \in Reviewing => req'[s] = req[s]
    BY <1>1, IdleIsJob DEF TInv, TypeOK, Goto, Reviewing
  <1>5. \A b \in Applications : app[b] # NoApplication => app'[b] # NoApplication
    BY <1>2 DEF TInv, TypeOK
  <1>6. \A s \in Requests : req[s].op \in Reviewing => req[s].app \in Applications
    BY JobFacts DEF TInv, TypeOK
  <1>7. Submitted'
    BY <1>4, <1>5, <1>6 DEF TInv, Submitted
  <1> QED
    BY <1>3, <1>7 DEF TInv

LEMMA FailType ==
  ASSUME TInv, NEW r \in Requests, Fail(r)
  PROVE  TInv'
  <1> PICK job \in Job : job = req[r]
    BY DEF TInv, TypeOK
  <1>1. raced' \subseteq Applications
    BY JobFacts DEF Fail, TInv, TypeOK, Reviewing
  <1>2. stale' \subseteq Roles
    BY JobFacts, EditableRoles DEF Fail, TInv, TypeOK
  <1>3. Goto(r, Idle) /\ UNCHANGED <<role, token, shop, app, granted, activated, grants, cache>>
    BY DEF Fail
  <1> QED
    BY <1>1, <1>2, <1>3, IdleIsJob, GotoType DEF TInv, TypeOK, Reviewing

LEMMA WorldType ==
  ASSUME TInv,
         \/ \E u \in Users : \/ IssueToken(u)
                             \/ \E ro \in Assigned : ChangeUserRole(u, ro)
                             \/ \E st \in Moderated : UpdateShopStatus(u, st)
         \/ \E ro \in Roles : EntryExpires(ro)
  PROVE  TInv'
  <1>1. TypeOK'
    <2>1. ASSUME NEW u \in Users, IssueToken(u) PROVE TypeOK'
      BY <2>1 DEF IssueToken, rights, TInv, TypeOK
    <2>2. ASSUME NEW u \in Users, NEW ro \in Assigned, ChangeUserRole(u, ro) PROVE TypeOK'
      BY <2>2, AccessAssumption DEF ChangeUserRole, rights, TInv, TypeOK
    <2>3. ASSUME NEW ro \in Roles, EntryExpires(ro) PROVE TypeOK'
      BY <2>3 DEF EntryExpires, people, TInv, TypeOK
    <2>4. ASSUME NEW u \in Users, NEW st \in Moderated, UpdateShopStatus(u, st) PROVE TypeOK'
      BY <2>4, AccessAssumption DEF UpdateShopStatus, rights, TInv, TypeOK
    <2> QED
      BY <2>1, <2>2, <2>3, <2>4
  <1>2. UNCHANGED <<req, app>>
    BY DEF IssueToken, ChangeUserRole, UpdateShopStatus, EntryExpires, people
  <1> QED
    BY <1>1, <1>2 DEF TInv, Submitted

LEMMA InitType == Init => TInv
  <1> SUFFICES ASSUME Init PROVE TInv
    OBVIOUS
  <1>1. \A r \in Requests : req[r] = Idle
    BY DEF Init
  <1>2. Submitted
    BY <1>1, IdleIsJob DEF Submitted, Reviewing
  <1>3. /\ role \in [Users -> Roles] /\ token \in [Users -> Roles]
        /\ shop \in [Users -> {"none"} \cup ShopStatuses]
    BY DEF Init, Roles
  <1>4. app \in [Applications -> Application]
    BY DEF Init, Application
  <1>5. grants \in [Roles -> SUBSET Permissions]
    BY AccessAssumption DEF Init
  <1>6. cache \in [Roles -> (SUBSET Permissions) \cup {NoEntry}] /\ req \in [Requests -> Job]
    BY IdleIsJob DEF Init
  <1>7. granted \cup activated \subseteq Users /\ raced \subseteq Applications /\ stale \subseteq Roles
    BY DEF Init
  <1>8. TypeOK
    BY <1>3, <1>4, <1>5, <1>6, <1>7 DEF TypeOK
  <1> QED
    BY <1>2, <1>8 DEF TInv

LEMMA NextType ==
  ASSUME TInv, [Next]_vars
  PROVE  TInv'
  <1>1. CASE UNCHANGED vars
    BY <1>1 DEF vars, people, rights, TInv, TypeOK, Submitted
  <1>2. ASSUME NEW r \in Requests, Guarded(r) PROVE TInv'
    BY <1>2, CallType, ReadGrantsType, FillCacheType, CreateShopType DEF Guarded
  <1>3. ASSUME NEW r \in Requests, Edit(r) PROVE TInv'
    BY <1>3, StartEditType, SyncDeleteType, AddReadType, InsertGrantsType, RemoveGrantsType,
       InvalidateType DEF Edit
  <1>4. ASSUME NEW r \in Requests, Onboard(r) PROVE TInv'
    BY <1>4, ApplyType, CreateApplicationType, ReviewType, ApprovalType, DecisionType DEF Onboard
  <1> QED
    BY <1>1, <1>2, <1>3, <1>4, FailType, WorldType DEF Next

-----------------------------------------------------------------------------
(* The permission cache. *)

\* An edit that has written a role, or is about to, and has not reached the cache.
Dirty(ro) == {r \in Requests : req[r].op \in {"insert", "invalidate"} /\ req[r].role = ro}

\* CacheIsFresh is about edits that have ended.  While one is on its way the entry
\* is already right unless the edit has begun to write; and a guard that no write
\* has overtaken carries what the table holds.
Fresh ==
  \A ro \in Roles \ stale : cache[ro] # NoEntry /\ Dirty(ro) = {} => cache[ro] = grants[ro]

Clean ==
  \A r \in Requests : req[r].op = "fill" /\ req[r].clean => req[r].found = grants[req[r].role]

CInv == Fresh /\ Clean

\* A handler that moves on and touches no permissions.
LEMMA GotoKeepsCache ==
  ASSUME TInv, CInv, NEW r \in Requests, NEW job,
         req' = [req EXCEPT ![r] = job], UNCHANGED rights,
         req[r].op \notin {"insert", "invalidate"}, job.op # "fill"
  PROVE  CInv'
  <1>1. \A s \in Requests : req'[s] = IF s = r THEN job ELSE req[s]
    BY DEF TInv, TypeOK
  <1>2. \A ro \in Roles : Dirty(ro)' = {} => Dirty(ro) = {}
    BY <1>1 DEF Dirty
  <1>3. Fresh'
    BY <1>2 DEF CInv, Fresh, rights
  <1>4. Clean'
    BY <1>1 DEF CInv, Clean, rights
  <1> QED
    BY <1>3, <1>4 DEF CInv

\* A write of a role's permissions by an edit that has the cache before it.
LEMMA WriteKeepsCache ==
  ASSUME TInv, CInv, NEW r \in Requests, NEW ro \in Roles, NEW now \in SUBSET Permissions,
         NEW job \in Job, job.op \in {"insert", "invalidate"}, job.role = ro,
         req[r].role = ro, Write(r, ro, now, job)
  PROVE  CInv'
  <1>1. /\ req' = [s \in Requests |->
                    IF s = r THEN job
                    ELSE IF req[s].op = "fill" /\ req[s].role = ro
                    THEN [req[s] EXCEPT !.clean = FALSE] ELSE req[s]]
        /\ grants' = [grants EXCEPT ![ro] = now]
        /\ UNCHANGED <<cache, stale>>
    BY DEF Write, Overtaken
  <1>2. /\ req'[r] = job
        /\ \A s \in Requests \ {r} :
             \/ req'[s] = req[s] /\ ~(req[s].op = "fill" /\ req[s].role = ro)
             \/ /\ req[s].op = "fill" /\ req'[s].op = "fill"
                /\ req[s].role = ro /\ req'[s].role = ro
                /\ req'[s].clean = FALSE
    BY <1>1, OvertakenJobs DEF TInv
  <1>3. \A o \in Roles : grants'[o] = IF o = ro THEN now ELSE grants[o]
    BY <1>1 DEF TInv, TypeOK
  <1>4. r \in Dirty(ro)'
    BY <1>2 DEF Dirty
  <1>5. \A o \in Roles \ {ro} : Dirty(o)' = {} => Dirty(o) = {}
    <2> SUFFICES ASSUME NEW o \in Roles \ {ro}, NEW s \in Dirty(o), Dirty(o)' = {}
                 PROVE  FALSE
      OBVIOUS
    <2>1. s \in Requests /\ req[s].op \in {"insert", "invalidate"} /\ req[s].role = o
      BY DEF Dirty
    <2>2. CASE s # r
      <3>1. req'[s] = req[s]
        BY <1>2, <2>1, <2>2
      <3> QED
        BY <2>1, <3>1 DEF Dirty
    <2>3. CASE s = r
      BY <2>1, <2>3
    <2> QED
      BY <2>2, <2>3
  <1>6. Fresh'
    BY <1>1, <1>3, <1>4, <1>5 DEF CInv, Fresh
  <1>7. Clean'
    <2> SUFFICES ASSUME NEW s \in Requests, req'[s].op = "fill", req'[s].clean
                 PROVE  req'[s].found = grants'[req'[s].role]
      BY DEF Clean
    <2>1. req'[s] = req[s] /\ req[s].role # ro
      BY <1>2
    <2>2. req[s].role \in Roles /\ req[s].found = grants[req[s].role]
      BY <2>1, JobFacts DEF CInv, Clean, TInv, TypeOK
    <2> QED
      BY <1>3, <2>1, <2>2
  <1> QED
    BY <1>6, <1>7 DEF CInv

LEMMA GuardedKeepsCache ==
  ASSUME TInv, CInv, NEW r \in Requests, Guarded(r)
  PROVE  CInv'
  <1> PICK job \in Job : job = req[r]
    BY DEF TInv, TypeOK
  <1>1. ASSUME NEW u \in Users, Call(r, u) PROVE CInv'
    <2> DEFINE ro == token[u]
               next == IF cache[ro] = NoEntry THEN [op |-> "read", user |-> u, role |-> ro]
                       ELSE Decide(u, cache[ro])
    <2>1. next.op # "fill"
      BY DEF Decide, Idle
    <2>2. req' = [req EXCEPT ![r] = next] /\ UNCHANGED rights /\ req[r].op = "idle"
      BY <1>1 DEF Call, Start, Goto, Idle
    <2> HIDE DEF next
    <2> QED
      BY <2>1, <2>2, GotoKeepsCache
  <1>2. CASE ReadGrants(r)
    <2> DEFINE next == [op |-> "fill", user |-> job.user, role |-> job.role,
                        found |-> grants[job.role], clean |-> TRUE]
    <2>1. job.op = "read" /\ req' = [req EXCEPT ![r] = next] /\ UNCHANGED rights
      BY <1>2 DEF ReadGrants, Goto
    <2>2. next.op = "fill" /\ next.role = job.role /\ next.found = grants[job.role]
      OBVIOUS
    <2> HIDE DEF next
    <2>3. \A s \in Requests : req'[s] = IF s = r THEN next ELSE req[s]
      BY <2>1 DEF TInv, TypeOK
    <2>4. \A o \in Roles : Dirty(o)' = {} => Dirty(o) = {}
      BY <2>1, <2>3 DEF Dirty
    <2>5. Fresh'
      BY <2>1, <2>4 DEF CInv, Fresh, rights
    <2>6. Clean'
      BY <2>1, <2>2, <2>3 DEF CInv, Clean, rights
    <2> QED
      BY <2>5, <2>6 DEF CInv
  <1>3. CASE FillCache(r)
    <2> DEFINE next == Decide(job.user, job.found)
    <2>1. /\ job.op = "fill" /\ job.role \in Roles
          /\ req' = [req EXCEPT ![r] = next] /\ grants' = grants
          /\ cache' = [cache EXCEPT ![job.role] = job.found]
          /\ stale' = IF job.clean THEN stale \ {job.role} ELSE stale \cup {job.role}
      BY <1>3, JobFacts DEF FillCache, Goto, people
    <2>2. next.op # "fill"
      BY DEF Decide, Idle
    <2> HIDE DEF next
    <2>3. \A s \in Requests : req'[s] = IF s = r THEN next ELSE req[s]
      BY <2>1 DEF TInv, TypeOK
    <2>4. \A o \in Roles : Dirty(o)' = {} => Dirty(o) = {}
      BY <2>1, <2>3 DEF Dirty
    <2>5. job.clean => job.found = grants[job.role]
      BY <2>1 DEF CInv, Clean
    <2>6. \A o \in Roles : cache'[o] = IF o = job.role THEN job.found ELSE cache[o]
      BY <2>1 DEF TInv, TypeOK
    <2>7. Fresh'
      BY <2>1, <2>4, <2>5, <2>6 DEF CInv, Fresh
    <2>8. Clean'
      BY <2>1, <2>2, <2>3 DEF CInv, Clean
    <2> QED
      BY <2>7, <2>8 DEF CInv
  <1>4. CASE CreateShop(r)
    <2>1. req' = [req EXCEPT ![r] = Idle] /\ UNCHANGED rights /\ req[r].op = "createShop"
      BY <1>4 DEF CreateShop, Goto
    <2> QED
      BY <2>1, IdleIsJob, GotoKeepsCache
  <1> QED
    BY <1>1, <1>2, <1>3, <1>4 DEF Guarded

\* The entry of a role is dropped.
LEMMA DropKeepsCache ==
  ASSUME TInv, CInv, NEW ro \in Roles, cache' = [cache EXCEPT ![ro] = NoEntry],
         stale' = stale \ {ro}, grants' = grants,
         \A s \in Requests : req'[s] = req[s] \/ /\ req[s].op = "invalidate"
                                                 /\ req[s].role = ro
                                                 /\ req'[s].op = "idle"
  PROVE  CInv'
  <1>1. \A o \in Roles : cache'[o] = IF o = ro THEN NoEntry ELSE cache[o]
    BY DEF TInv, TypeOK
  <1>2. \A o \in Roles \ {ro} : Dirty(o)' = {} => Dirty(o) = {}
    BY DEF Dirty
  <1>3. Fresh'
    BY <1>1, <1>2 DEF CInv, Fresh
  <1>4. Clean'
    BY DEF CInv, Clean
  <1> QED
    BY <1>3, <1>4 DEF CInv

LEMMA EditKeepsCache ==
  ASSUME TInv, CInv, NEW r \in Requests, Edit(r)
  PROVE  CInv'
  <1> PICK job \in Job : job = req[r]
    BY DEF TInv, TypeOK
  <1>1. ASSUME NEW op \in {"sync", "add", "remove"}, NEW ro \in Edited,
               NEW ids \in SUBSET Permissions, StartEdit(r, op, ro, ids)
        PROVE  CInv'
    <2> DEFINE next == [op |-> op, role |-> ro, ids |-> ids]
    <2>1. next.op # "fill"
      OBVIOUS
    <2>2. req' = [req EXCEPT ![r] = next] /\ UNCHANGED rights /\ req[r].op = "idle"
      BY <1>1 DEF StartEdit, Start, Goto, Idle
    <2> HIDE DEF next
    <2> QED
      BY <2>1, <2>2, GotoKeepsCache
  <1>2. CASE SyncDelete(r)
    <2> DEFINE next == IF job.ids = {} THEN [op |-> "invalidate", role |-> job.role]
                       ELSE [job EXCEPT !.op = "insert"]
    <2>1. job.op = "sync" /\ job.role \in Edited /\ Write(r, job.role, {}, next)
      BY <1>2, JobFacts DEF SyncDelete
    <2>2. next \in Job /\ next.op \in {"insert", "invalidate"} /\ next.role = job.role
      BY <2>1, EditJobs, SyncGoesOn
    <2> HIDE DEF next
    <2> QED
      BY <2>1, <2>2, WriteKeepsCache, EditableRoles
  <1>3. CASE AddRead(r)
    <2> DEFINE new == job.ids \ grants[job.role]
               next == IF new = {} THEN [op |-> "invalidate", role |-> job.role]
                       ELSE [op |-> "insert", role |-> job.role, ids |-> new]
    <2>1. req' = [req EXCEPT ![r] = next] /\ UNCHANGED rights /\ req[r].op = "add"
      BY <1>3 DEF AddRead, Goto
    <2>2. next.op # "fill"
      OBVIOUS
    <2> HIDE DEF next
    <2> QED
      BY <2>1, <2>2, GotoKeepsCache
  <1>4. ASSUME NEW now \in SUBSET Permissions, job.role \in Edited,
               Write(r, job.role, now, [op |-> "invalidate", role |-> job.role])
        PROVE  CInv'
    <2> DEFINE next == [op |-> "invalidate", role |-> job.role]
    <2>1. next \in Job /\ next.op \in {"insert", "invalidate"} /\ next.role = job.role
      BY <1>4, EditJobs
    <2>2. Write(r, job.role, now, next)
      BY <1>4
    <2> HIDE DEF next
    <2> QED
      BY <1>4, <2>1, <2>2, WriteKeepsCache, EditableRoles
  <1>5. CASE InsertGrants(r)
    <2> DEFINE now == grants[job.role] \cup job.ids
    <2>1. job.role \in Edited /\ job.ids \in SUBSET Permissions
      BY <1>5, JobFacts DEF InsertGrants
    <2>2. now \in SUBSET Permissions
      BY <2>1, EditableRoles DEF TInv, TypeOK
    <2>3. Write(r, job.role, now, [op |-> "invalidate", role |-> job.role])
      BY <1>5 DEF InsertGrants
    <2> HIDE DEF now
    <2> QED
      BY <1>4, <2>1, <2>2, <2>3
  <1>6. CASE RemoveGrants(r)
    <2> DEFINE now == grants[job.role] \ job.ids
    <2>1. job.role \in Edited
      BY <1>6, JobFacts DEF RemoveGrants
    <2>2. now \in SUBSET Permissions
      BY <2>1, EditableRoles DEF TInv, TypeOK
    <2>3. Write(r, job.role, now, [op |-> "invalidate", role |-> job.role])
      BY <1>6 DEF RemoveGrants
    <2> HIDE DEF now
    <2> QED
      BY <1>4, <2>1, <2>2, <2>3
  <1>7. CASE Invalidate(r)
    <2>1. /\ job.op = "invalidate" /\ job.role \in Roles
          /\ cache' = [cache EXCEPT ![job.role] = NoEntry]
          /\ stale' = stale \ {job.role} /\ grants' = grants
          /\ req' = [req EXCEPT ![r] = Idle]
      BY <1>7, JobFacts, EditableRoles DEF Invalidate, Goto
    <2>2. \A s \in Requests : req'[s] = IF s = r THEN Idle ELSE req[s]
      BY <2>1 DEF TInv, TypeOK
    <2>3. \A s \in Requests : req'[s] = req[s] \/ /\ req[s].op = "invalidate"
                                                    /\ req[s].role = job.role
                                                    /\ req'[s].op = "idle"
      BY <2>1, <2>2, IdleIsJob
    <2> QED
      BY <2>1, <2>3, DropKeepsCache
  <1> QED
    BY <1>1, <1>2, <1>3, <1>5, <1>6, <1>7 DEF Edit

LEMMA OnboardKeepsCache ==
  ASSUME TInv, CInv, NEW r \in Requests, Onboard(r)
  PROVE  CInv'
  <1>1. UNCHANGED rights /\ req[r].op \notin {"insert", "invalidate"}
    <2>1. CASE (\E u \in Users : Apply(r, u)) \/ ApplyFindShop(r) \/ ApplyFindPending(r)
      <3>1. ASSUME NEW u \in Users, Apply(r, u) PROVE UNCHANGED rights /\ req[r].op = "idle"
        BY <3>1 DEF Apply, Start, Idle
      <3>2. CASE ApplyFindShop(r) \/ ApplyFindPending(r)
        BY <3>2 DEF ApplyFindShop, ApplyFindPending
      <3> QED
        BY <2>1, <3>1, <3>2
    <2>2. ASSUME NEW a \in Applications, CreateApplication(r, a) \/ Approve(r, a) \/ Reject(r, a)
          PROVE  UNCHANGED rights /\ req[r].op \in {"apply", "idle"}
      <3>1. CASE CreateApplication(r, a)
        BY <3>1 DEF CreateApplication
      <3>2. CASE Approve(r, a)
        BY <3>2 DEF Approve, Review, Start, Idle
      <3>3. CASE Reject(r, a)
        BY <3>3 DEF Reject, Review, Start, Idle
      <3> QED
        BY <2>2, <3>1, <3>2, <3>3
    <2>3. CASE \/ ApproveFindShop(r) \/ MaterializeShop(r) \/ GrantSeller(r)
               \/ MarkApproved(r) \/ MarkRejected(r)
      BY <2>3 DEF ApproveFindShop, MaterializeShop, GrantSeller, MarkApproved, MarkRejected,
                  Decision
    <2> QED
      BY <2>1, <2>2, <2>3 DEF Onboard
  <1>2. PICK job : req' = [req EXCEPT ![r] = job] /\ job.op # "fill"
    <2> PICK old \in Job : old = req[r]
      BY DEF TInv, TypeOK
    <2>1. \A op \in Reviewing : old.op \in Reviewing => [old EXCEPT !.op = op].op # "fill"
      BY ReviewGoesOn DEF Reviewing
    <2>2. CASE (\E u \in Users : Apply(r, u)) \/ ApplyFindShop(r) \/ ApplyFindPending(r)
      BY <2>2, IdleIsJob DEF Apply, ApplyFindShop, ApplyFindPending, Start, Goto
    <2>3. CASE \E a \in Applications : CreateApplication(r, a) \/ Approve(r, a) \/ Reject(r, a)
      BY <2>3, IdleIsJob DEF CreateApplication, Approve, Reject, Review, Start, Goto
    <2>4. CASE ApproveFindShop(r)
      BY <2>4, <2>1 DEF ApproveFindShop, Goto, Reviewing
    <2>5. CASE MaterializeShop(r) \/ GrantSeller(r)
      BY <2>5, <2>1, IdleIsJob DEF MaterializeShop, GrantSeller, Goto, Reviewing
    <2>6. CASE MarkApproved(r) \/ MarkRejected(r)
      BY <2>6, IdleIsJob DEF MarkApproved, MarkRejected, Decision, Goto
    <2> QED
      BY <2>2, <2>3, <2>4, <2>5, <2>6 DEF Onboard
  <1> QED
    BY <1>1, <1>2, GotoKeepsCache

LEMMA FailKeepsCache ==
  ASSUME TInv, CInv, NEW r \in Requests, Fail(r)
  PROVE  CInv'
  <1> PICK job \in Job : job = req[r]
    BY DEF TInv, TypeOK
  <1>1. /\ req' = [req EXCEPT ![r] = Idle] /\ UNCHANGED <<grants, cache>>
        /\ stale' = IF job.op \in {"insert", "invalidate"} THEN stale \cup {job.role} ELSE stale
    BY DEF Fail, Goto
  <1>2. \A s \in Requests : req'[s] = IF s = r THEN Idle ELSE req[s]
    BY <1>1 DEF TInv, TypeOK
  <1>3. \A o \in Roles \ stale' : Dirty(o)' = {} => Dirty(o) = {}
    BY <1>1, <1>2 DEF Dirty
  <1>4. Fresh'
    BY <1>1, <1>3 DEF CInv, Fresh
  <1>5. Clean'
    BY <1>1, <1>2, IdleIsJob DEF CInv, Clean
  <1> QED
    BY <1>4, <1>5 DEF CInv

LEMMA WorldKeepsCache ==
  ASSUME TInv, CInv,
         \/ \E u \in Users : \/ IssueToken(u)
                             \/ \E ro \in Assigned : ChangeUserRole(u, ro)
                             \/ \E st \in Moderated : UpdateShopStatus(u, st)
         \/ \E ro \in Roles : EntryExpires(ro)
  PROVE  CInv'
  <1>1. CASE UNCHANGED <<req, rights>>
    BY <1>1 DEF rights, CInv, Fresh, Clean, Dirty
  <1>2. ASSUME NEW ro \in Roles, EntryExpires(ro) PROVE CInv'
    BY <1>2, DropKeepsCache DEF EntryExpires
  <1> QED
    BY <1>1, <1>2 DEF IssueToken, ChangeUserRole, UpdateShopStatus

LEMMA NextKeepsCache ==
  ASSUME TInv, CInv, [Next]_vars
  PROVE  CInv'
  <1>1. CASE UNCHANGED vars
    BY <1>1 DEF vars, rights, CInv, Fresh, Clean, Dirty
  <1> QED
    BY <1>1, GuardedKeepsCache, EditKeepsCache, OnboardKeepsCache, FailKeepsCache,
       WorldKeepsCache DEF Next

LEMMA FreshIsSeen == CInv => CacheIsFresh
  <1> SUFFICES ASSUME CInv, NEW ro \in Roles \ stale, cache[ro] # NoEntry, EditsOf(ro) = {}
               PROVE  cache[ro] = grants[ro]
    BY DEF CacheIsFresh
  <1>1. Dirty(ro) = {}
    BY DEF Dirty, EditsOf, Editing
  <1> QED
    BY <1>1 DEF CInv, Fresh

-----------------------------------------------------------------------------
(* Applicants, shops and decisions. *)

Granting == {"grant", "approve"}

\* An approval has the shop before it grants the role, and the role before it
\* marks the application.
InOrder ==
  \A r \in Requests :
    req[r].op \in Granting =>
      LET u == app[req[r].app].user IN
      /\ shop[u] # "none"
      /\ req[r].op = "approve" /\ u \notin granted => role[u] = "seller"

SInv == ApprovedIsSeller /\ InOrder

\* Two reviews of one application are a race; one that is alone finds it pending.
Alone ==
  \A r, s \in Requests :
    r # s /\ req[r].op \in Reviewing /\ req[s].op \in Reviewing /\ req[r].app = req[s].app
      => req[r].app \in raced

Open ==
  \A r \in Requests :
    req[r].op \in Reviewing => Pending(req[r].app) \/ req[r].app \in raced

\* Who sells does so by an application that was approved,
\* is about to be, or met a race.
Vouches(a, u) ==
  /\ app[a] # NoApplication
  /\ app[a].user = u
  /\ \/ a \in raced
     \/ app[a].status = "approved"
     \/ \E r \in Requests : req[r].op \in Granting /\ req[r].app = a

\* The seller's role, or an active shop that no admin made active by hand.
Sells(u) == role[u] # "customer" \/ (shop[u] = "active" /\ u \notin activated)

Vetted == \A u \in Users \ granted : Sells(u) => \E a \in Applications : Vouches(a, u)

RInv == Alone /\ Open /\ Vetted

\* A step that leaves people and reviews alone.
LEMMA ElsewhereKeepsSInv ==
  ASSUME SInv, UNCHANGED <<role, shop, app, granted, activated>>,
         \A s \in Requests : req'[s].op \in Reviewing => req'[s] = req[s]
  PROVE  SInv'
  BY DEF SInv, ApprovedIsSeller, InOrder, Granting, Reviewing

LEMMA ElsewhereKeepsRInv ==
  ASSUME RInv, UNCHANGED <<role, shop, app, granted, activated, raced>>,
         \A s \in Requests : req[s].op \in Reviewing \/ req'[s].op \in Reviewing => req'[s] = req[s]
  PROVE  RInv'
  <1>1. Alone'
    BY DEF RInv, Alone
  <1>2. Open'
    BY DEF RInv, Open, Pending
  <1>3. \A a \in Applications, u \in Users : Vouches(a, u) => Vouches(a, u)'
    BY DEF Vouches, Granting, Reviewing
  <1>4. Vetted'
    BY <1>3 DEF RInv, Vetted, Sells
  <1> QED
    BY <1>1, <1>2, <1>4 DEF RInv

\* What a step must respect for an approved applicant to stay a seller.
LEMMA StepKeepsSInv ==
  ASSUME TInv, SInv, granted \subseteq granted',
         \A u \in Users : /\ shop[u] # "none" => shop'[u] # "none"
                          /\ u \notin granted' /\ role[u] = "seller" => role'[u] = "seller",
         \A a \in Applications : app[a] # NoApplication => app'[a].user = app[a].user,
         \A a \in Applications :
           app'[a].status = "approved" /\ app[a].status # "approved" =>
             \E s \in Requests : req[s].op = "approve" /\ req[s].app = a,
         \A s \in Requests :
           req'[s].op \in Granting =>
             \/ req'[s] = req[s]
             \/ /\ req'[s].app = req[s].app /\ req[s].op \in Reviewing
                /\ LET u == app[req[s].app].user IN
                   /\ shop'[u] # "none"
                   /\ req'[s].op = "approve" /\ u \notin granted' => role'[u] = "seller"
  PROVE  SInv'
  <1>1. \A s \in Requests : req[s].op \in Reviewing =>
          /\ req[s].app \in Applications
          /\ app[req[s].app] # NoApplication
          /\ app[req[s].app].user \in Users
          /\ app'[req[s].app].user = app[req[s].app].user
    BY JobFacts, ApplicationIsRow DEF TInv, TypeOK, Submitted
  <1>2. ApprovedIsSeller'
    <2> SUFFICES ASSUME NEW a \in Applications, app'[a].status = "approved"
                 PROVE  /\ shop'[app'[a].user] # "none"
                        /\ app'[a].user \notin granted' => role'[app'[a].user] = "seller"
      BY DEF ApprovedIsSeller
    <2>1. CASE app[a].status = "approved"
      <3>1. app[a] # NoApplication
        BY <2>1 DEF NoApplication
      <3>2. app[a].user \in Users /\ app'[a].user = app[a].user
        BY <3>1, ApplicationIsRow DEF TInv
      <3> QED
        BY <2>1, <3>2 DEF SInv, ApprovedIsSeller
    <2>2. CASE app[a].status # "approved"
      <3>1. PICK s \in Requests : req[s].op = "approve" /\ req[s].app = a
        BY <2>2
      <3>2. app[a].user \in Users /\ app'[a].user = app[a].user
        BY <1>1, <3>1 DEF Reviewing
      <3>3. shop[app[a].user] # "none" /\ (app[a].user \notin granted => role[app[a].user] = "seller")
        BY <3>1 DEF SInv, InOrder, Granting
      <3> QED
        BY <3>2, <3>3
    <2> QED
      BY <2>1, <2>2
  <1>3. InOrder'
    <2> SUFFICES ASSUME NEW s \in Requests, req'[s].op \in Granting
                 PROVE  /\ shop'[app'[req'[s].app].user] # "none"
                        /\ req'[s].op = "approve" /\ app'[req'[s].app].user \notin granted'
                             => role'[app'[req'[s].app].user] = "seller"
      BY DEF InOrder
    <2>1. CASE req'[s] = req[s]
      <3>1. /\ app'[req[s].app].user = app[req[s].app].user
            /\ app[req[s].app].user \in Users
        BY <1>1, <2>1 DEF Granting, Reviewing
      <3>2. /\ shop[app[req[s].app].user] # "none"
            /\ req[s].op = "approve" /\ app[req[s].app].user \notin granted
                 => role[app[req[s].app].user] = "seller"
        BY <2>1 DEF SInv, InOrder
      <3> QED
        BY <2>1, <3>1, <3>2
    <2>2. CASE req'[s] # req[s]
      BY <1>1, <2>2
    <2> QED
      BY <2>1, <2>2
  <1> QED
    BY <1>2, <1>3 DEF SInv

\* What a step that begins no review must respect for reviews to stay alone.
LEMMA StepKeepsReviews ==
  ASSUME TInv, Alone, Open, raced \subseteq raced',
         \A s \in Requests :
           req'[s].op \in Reviewing => /\ req[s].op \in Reviewing
                                       /\ req'[s].app = req[s].app
                                       /\ Pending(req[s].app) =>
                                            app'[req[s].app].status = "pending"
                                            \/ req[s].app \in raced'
  PROVE  Alone' /\ Open'
  <1>1. Alone'
    BY DEF Alone
  <1>2. Open'
    BY DEF Open, Pending
  <1> QED
    BY <1>1, <1>2

\* And for every seller to have an application that vouches for him.
LEMMA StepKeepsVetted ==
  ASSUME TInv, Vetted, granted \subseteq granted', raced \subseteq raced',
         \A u \in Users \ granted' :
           Sells(u)' /\ ~Sells(u)
             => \E s \in Requests : /\ req[s].op \in Reviewing /\ app[req[s].app].user = u
                                    /\ req'[s].op \in Granting /\ req'[s].app = req[s].app,
         \A a \in Applications :
           app[a] # NoApplication =>
             /\ app'[a] # NoApplication
             /\ app'[a].user = app[a].user
             /\ app[a].status = "approved" => app'[a].status = "approved" \/ a \in raced',
         \A s \in Requests :
           req[s].op \in Granting =>
             \/ req'[s].op \in Granting /\ req'[s].app = req[s].app
             \/ req[s].app \in raced'
             \/ app'[req[s].app].status = "approved"
  PROVE  Vetted'
  <1> SUFFICES ASSUME NEW u \in Users \ granted', Sells(u)'
               PROVE  \E a \in Applications : Vouches(a, u)'
    BY DEF Vetted
  <1>1. CASE Sells(u)
    <2>1. PICK a \in Applications : Vouches(a, u)
      BY <1>1 DEF Vetted
    <2>2. /\ app'[a] # NoApplication /\ app'[a].user = u
          /\ \/ a \in raced'
             \/ app'[a].status = "approved"
             \/ \E s \in Requests : req'[s].op \in Granting /\ req'[s].app = a
      BY <2>1 DEF Vouches
    <2> WITNESS a \in Applications
    <2> QED
      BY <2>2 DEF Vouches
  <1>2. CASE ~Sells(u)
    <2>1. PICK s \in Requests : /\ req[s].op \in Reviewing /\ app[req[s].app].user = u
                                /\ req'[s].op \in Granting /\ req'[s].app = req[s].app
      BY <1>2
    <2>2. PICK a \in Applications : a = req[s].app /\ app[a] # NoApplication
      BY <2>1, JobFacts DEF TInv, TypeOK, Submitted
    <2>3. app'[a] # NoApplication /\ app'[a].user = u /\ req'[s].op \in Granting /\ req'[s].app = a
      BY <2>1, <2>2
    <2> WITNESS a \in Applications
    <2> QED
      BY <2>3 DEF Vouches
  <1> QED
    BY <1>1, <1>2

\* What begins, ends or fails outside the reviews, seen from them.
LEMMA NoReview ==
  ASSUME TInv, NEW r \in Requests, NEW job, req' = [req EXCEPT ![r] = job],
         req[r].op \notin Reviewing, job.op \notin Reviewing
  PROVE  \A s \in Requests :
           req[s].op \in Reviewing \/ req'[s].op \in Reviewing => req'[s] = req[s]
  BY DEF TInv, TypeOK

LEMMA GuardedKeepsPeople ==
  ASSUME TInv, SInv, RInv, NEW r \in Requests, Guarded(r)
  PROVE  SInv' /\ RInv'
  <1> PICK job \in Job : job = req[r]
    BY DEF TInv, TypeOK
  <1>1. PICK next : req' = [req EXCEPT ![r] = next] /\ next.op \notin Reviewing
    <2>1. ASSUME NEW u \in Users, NEW found PROVE Decide(u, found).op \notin Reviewing
      BY DEF Decide, Idle, Reviewing
    <2>2. ASSUME NEW u \in Users, Call(r, u)
          PROVE  \E next : req' = [req EXCEPT ![r] = next] /\ next.op \notin Reviewing
      <3> DEFINE next == IF cache[token[u]] = NoEntry
                         THEN [op |-> "read", user |-> u, role |-> token[u]]
                         ELSE Decide(u, cache[token[u]])
      <3>1. next.op \notin Reviewing
        BY <2>1 DEF Reviewing
      <3>2. req' = [req EXCEPT ![r] = next]
        BY <2>2 DEF Call, Start, Goto
      <3> QED
        BY <3>1, <3>2
    <2>3. CASE ReadGrants(r)
      <3> DEFINE next == [op |-> "fill", user |-> job.user, role |-> job.role,
                          found |-> grants[job.role], clean |-> TRUE]
      <3>1. req' = [req EXCEPT ![r] = next]
        BY <2>3 DEF ReadGrants, Goto
      <3>2. next.op \notin Reviewing
        BY DEF Reviewing
      <3> QED
        BY <3>1, <3>2
    <2>4. CASE FillCache(r)
      <3>1. req' = [req EXCEPT ![r] = Decide(job.user, job.found)] /\ job.user \in Users
        BY <2>4, JobFacts DEF FillCache, Goto
      <3> QED
        BY <2>1, <3>1
    <2>5. CASE CreateShop(r)
      BY <2>5, IdleIsJob DEF CreateShop, Goto, Reviewing
    <2> QED
      BY <2>2, <2>3, <2>4, <2>5 DEF Guarded
  <1>2. req[r].op \notin Reviewing
    <2>1. ASSUME NEW u \in Users, Call(r, u) PROVE req[r].op = "idle"
      BY <2>1 DEF Call, Start, Idle
    <2>2. req[r].op \in {"idle", "read", "fill", "createShop"}
      BY <2>1 DEF Guarded, ReadGrants, FillCache, CreateShop
    <2> QED
      BY <2>2 DEF Reviewing
  <1>3. \A s \in Requests :
          req[s].op \in Reviewing \/ req'[s].op \in Reviewing => req'[s] = req[s]
    BY <1>1, <1>2, NoReview
  <1>4. CASE ~CreateShop(r)
    <2>1. UNCHANGED <<role, shop, app, granted, activated, raced>>
      BY <1>4 DEF Guarded, Call, ReadGrants, FillCache, people
    <2> QED
      BY <1>3, <2>1, ElsewhereKeepsSInv, ElsewhereKeepsRInv
  <1>5. CASE CreateShop(r)
    <2>1. /\ UNCHANGED <<role, app, granted, activated, raced>>
          /\ shop' \in {shop, [shop EXCEPT ![job.user] = "pending_verification"]}
          /\ job.user \in Users
      BY <1>5, JobFacts DEF CreateShop
    <2>2. \A u \in Users : shop'[u] = shop[u] \/ shop'[u] = "pending_verification"
      BY <2>1 DEF TInv, TypeOK
    <2>3. \A s \in Requests :
            req[s].op \in Granting \/ req'[s].op \in Granting => req'[s] = req[s]
      BY <1>3 DEF Granting, Reviewing
    <2>4. SInv'
      BY <2>1, <2>2, <2>3, StepKeepsSInv
    <2>5. Alone' /\ Open'
      BY <1>3, <2>1, StepKeepsReviews DEF RInv, Pending
    <2>6. Vetted'
      BY <2>1, <2>2, <2>3, StepKeepsVetted DEF RInv, Sells
    <2> QED
      BY <2>4, <2>5, <2>6 DEF RInv
  <1> QED
    BY <1>4, <1>5

LEMMA EditKeepsPeople ==
  ASSUME TInv, SInv, RInv, NEW r \in Requests, Edit(r)
  PROVE  SInv' /\ RInv'
  <1> PICK job \in Job : job = req[r]
    BY DEF TInv, TypeOK
  <1>1. UNCHANGED people
    BY DEF Edit, StartEdit, SyncDelete, AddRead, InsertGrants, RemoveGrants, Write, Invalidate
  <1>2. ASSUME NEW next, req' = [req EXCEPT ![r] = next], req[r].op \notin Reviewing,
               next.op \notin Reviewing
        PROVE  SInv' /\ RInv'
    <2>1. \A s \in Requests :
            req[s].op \in Reviewing \/ req'[s].op \in Reviewing => req'[s] = req[s]
      BY <1>2, NoReview
    <2> QED
      BY <1>1, <2>1, ElsewhereKeepsSInv, ElsewhereKeepsRInv DEF people
  <1>3. ASSUME NEW ro \in Roles, NEW now, NEW next \in Job, Write(r, ro, now, next),
               req[r].op \notin Reviewing, next.op \notin Reviewing
        PROVE  SInv' /\ RInv'
    <2>1. req' = [s \in Requests |->
                   IF s = r THEN next
                   ELSE IF req[s].op = "fill" /\ req[s].role = ro
                   THEN [req[s] EXCEPT !.clean = FALSE] ELSE req[s]]
      BY <1>3 DEF Write, Overtaken
    <2>2. /\ req'[r] = next
          /\ \A s \in Requests \ {r} : \/ req'[s] = req[s]
                                       \/ req[s].op = "fill" /\ req'[s].op = "fill"
      BY <2>1, OvertakenJobs DEF TInv
    <2>3. \A s \in Requests :
            req[s].op \in Reviewing \/ req'[s].op \in Reviewing => req'[s] = req[s]
      BY <1>3, <2>2 DEF Reviewing
    <2> QED
      BY <1>1, <2>3, ElsewhereKeepsSInv, ElsewhereKeepsRInv DEF people
  <1>4. ASSUME NEW op \in {"sync", "add", "remove"}, NEW ro \in Edited,
               NEW ids \in SUBSET Permissions, StartEdit(r, op, ro, ids)
        PROVE  SInv' /\ RInv'
    <2> DEFINE next == [op |-> op, role |-> ro, ids |-> ids]
    <2>1. req' = [req EXCEPT ![r] = next] /\ req[r].op = "idle"
      BY <1>4 DEF StartEdit, Start, Goto, Idle
    <2>2. next.op \notin Reviewing /\ req[r].op \notin Reviewing
      BY <2>1 DEF Reviewing
    <2> HIDE DEF next
    <2> QED
      BY <1>2, <2>1, <2>2
  <1>5. CASE SyncDelete(r)
    <2> DEFINE next == IF job.ids = {} THEN [op |-> "invalidate", role |-> job.role]
                       ELSE [job EXCEPT !.op = "insert"]
    <2>1. job.op = "sync" /\ job.role \in Edited /\ Write(r, job.role, {}, next)
      BY <1>5, JobFacts DEF SyncDelete
    <2>2. next \in Job /\ next.op \notin Reviewing /\ req[r].op \notin Reviewing
      BY <2>1, EditJobs, SyncGoesOn DEF Reviewing
    <2> HIDE DEF next
    <2> QED
      BY <1>3, <2>1, <2>2, EditableRoles
  <1>6. CASE AddRead(r)
    <2> DEFINE new == job.ids \ grants[job.role]
               next == IF new = {} THEN [op |-> "invalidate", role |-> job.role]
                       ELSE [op |-> "insert", role |-> job.role, ids |-> new]
    <2>1. req' = [req EXCEPT ![r] = next] /\ req[r].op = "add"
      BY <1>6 DEF AddRead, Goto
    <2>2. next.op \notin Reviewing /\ req[r].op \notin Reviewing
      BY <2>1 DEF Reviewing
    <2> HIDE DEF next
    <2> QED
      BY <1>2, <2>1, <2>2
  <1>7. CASE InsertGrants(r) \/ RemoveGrants(r)
    <2> DEFINE next == [op |-> "invalidate", role |-> job.role]
    <2>1. job.op \in {"insert", "remove"} /\ job.role \in Edited
      BY <1>7, JobFacts DEF InsertGrants, RemoveGrants
    <2>2. next \in Job /\ next.op \notin Reviewing /\ req[r].op \notin Reviewing
      BY <2>1, EditJobs DEF Reviewing
    <2>3. PICK now : Write(r, job.role, now, next)
      BY <1>7 DEF InsertGrants, RemoveGrants
    <2> HIDE DEF next
    <2> QED
      BY <1>3, <2>1, <2>2, <2>3, EditableRoles
  <1>8. CASE Invalidate(r)
    <2>1. req' = [req EXCEPT ![r] = Idle] /\ req[r].op = "invalidate"
      BY <1>8 DEF Invalidate, Goto
    <2>2. Idle.op \notin Reviewing /\ req[r].op \notin Reviewing
      BY <2>1, IdleIsJob DEF Reviewing
    <2> QED
      BY <1>2, <2>1, <2>2
  <1> QED
    BY <1>4, <1>5, <1>6, <1>7, <1>8 DEF Edit

LEMMA ApplyKeepsPeople ==
  ASSUME TInv, SInv, RInv, NEW r \in Requests,
         \/ \E u \in Users : Apply(r, u)
         \/ ApplyFindShop(r) \/ ApplyFindPending(r)
  PROVE  SInv' /\ RInv'
  <1>1. PICK next : req' = [req EXCEPT ![r] = next] /\ next.op \notin Reviewing
    BY IdleIsJob DEF Apply, ApplyFindShop, ApplyFindPending, Start, Goto, Reviewing
  <1>2. UNCHANGED people
    BY DEF Apply, ApplyFindShop, ApplyFindPending
  <1>3. req[r].op \in {"idle", "applyShop", "applyPending"}
    <2>1. ASSUME NEW u \in Users, Apply(r, u) PROVE req[r].op = "idle"
      BY <2>1 DEF Apply, Start, Idle
    <2> QED
      BY <2>1 DEF ApplyFindShop, ApplyFindPending
  <1>4. \A s \in Requests :
          req[s].op \in Reviewing \/ req'[s].op \in Reviewing => req'[s] = req[s]
    BY <1>1, <1>3, NoReview DEF Reviewing
  <1> QED
    BY <1>2, <1>4, ElsewhereKeepsSInv, ElsewhereKeepsRInv DEF people

LEMMA CreateApplicationKeepsPeople ==
  ASSUME TInv, SInv, RInv, NEW r \in Requests, NEW a \in Applications, CreateApplication(r, a)
  PROVE  SInv' /\ RInv'
  <1> DEFINE row == [user |-> req[r].user, status |-> "pending"]
  <1>1. /\ app[a] = NoApplication /\ app' = [app EXCEPT ![a] = row]
        /\ req' = [req EXCEPT ![r] = Idle] /\ req[r].op = "apply"
        /\ UNCHANGED <<role, shop, granted, activated, raced>>
    BY DEF CreateApplication, Goto
  <1>2. row.status = "pending" /\ row # NoApplication
    BY DEF NoApplication
  <1> HIDE DEF row
  <1>3. \A b \in Applications : app'[b] = IF b = a THEN row ELSE app[b]
    BY <1>1 DEF TInv, TypeOK
  <1>4. \A s \in Requests :
          req[s].op \in Reviewing \/ req'[s].op \in Reviewing => req'[s] = req[s]
    BY <1>1, IdleIsJob, NoReview DEF Reviewing
  <1>5. \A s \in Requests :
          req[s].op \in Granting \/ req'[s].op \in Granting => req'[s] = req[s]
    BY <1>4 DEF Granting, Reviewing
  <1>6. \A s \in Requests : req[s].op \in Reviewing => req[s].app \in Applications \ {a}
    BY <1>1, JobFacts DEF TInv, TypeOK, Submitted
  <1>7. SInv'
    BY <1>1, <1>2, <1>3, <1>5, StepKeepsSInv
  <1>8. Alone' /\ Open'
    BY <1>1, <1>3, <1>4, <1>6, StepKeepsReviews DEF RInv, Pending
  <1>9. Vetted'
    BY <1>1, <1>2, <1>3, <1>5, StepKeepsVetted DEF RInv, Sells
  <1> QED
    BY <1>7, <1>8, <1>9 DEF RInv

LEMMA ReviewKeepsPeople ==
  ASSUME TInv, SInv, RInv, NEW r \in Requests, NEW a \in Applications,
         Approve(r, a) \/ Reject(r, a)
  PROVE  SInv' /\ RInv'
  <1>1. PICK op \in {"findShop", "reject"} : Review(r, a, op)
    BY DEF Approve, Reject
  <1> DEFINE job == [op |-> op, app |-> a]
  <1>2. /\ req[r].op = "idle" /\ req' = [req EXCEPT ![r] = job]
        /\ raced' = IF Reviews(a) = {} THEN raced ELSE raced \cup {a}
        /\ UNCHANGED <<role, shop, app, granted, activated>>
        /\ app[a].status = "pending"
    BY <1>1 DEF Review, Start, Goto, Idle, Approve, Reject, Pending
  <1>3. job.op \in Reviewing \ Granting /\ job.app = a
    BY DEF Reviewing, Granting
  <1> HIDE DEF job
  <1>4. \A s \in Requests : req'[s] = IF s = r THEN job ELSE req[s]
    BY <1>2 DEF TInv, TypeOK
  <1>5. \A s \in Requests :
          req[s].op \in Granting \/ req'[s].op \in Granting => req'[s] = req[s]
    BY <1>2, <1>3, <1>4 DEF Granting
  <1>6. \A s \in Requests \ {r} : req'[s].op \in Reviewing /\ req'[s].app = a => a \in raced'
    BY <1>2, <1>4 DEF Reviews
  <1>7. SInv'
    BY <1>2, <1>5, StepKeepsSInv
  <1>8. Alone'
    BY <1>2, <1>3, <1>4, <1>6 DEF RInv, Alone
  <1>9. Open'
    BY <1>2, <1>3, <1>4 DEF RInv, Open, Pending
  <1>10. Vetted'
    BY <1>2, <1>5, StepKeepsVetted DEF RInv, Sells
  <1> QED
    BY <1>7, <1>8, <1>9, <1>10 DEF RInv

\* A review that moves on with the same application.
LEMMA ReviewMovesOn ==
  ASSUME TInv, NEW r \in Requests, NEW op \in Reviewing, req[r].op \in Reviewing,
         req' = [req EXCEPT ![r] = [req[r] EXCEPT !.op = op]]
  PROVE  /\ req'[r].op = op /\ req'[r].app = req[r].app
         /\ \A s \in Requests \ {r} : req'[s] = req[s]
         /\ req[r].app \in Applications /\ app[req[r].app] # NoApplication
         /\ app[req[r].app].user \in Users
  <1> PICK job \in Job : job = req[r]
    BY DEF TInv, TypeOK
  <1>1. req'[r] = [job EXCEPT !.op = op] /\ \A s \in Requests \ {r} : req'[s] = req[s]
    BY DEF TInv, TypeOK
  <1>2. req'[r].op = op /\ req'[r].app = job.app
    <2>1. [job EXCEPT !.op = op].op = op /\ [job EXCEPT !.op = op].app = job.app
      BY ReviewGoesOn
    <2> QED
      BY <1>1, <2>1, Zenon
  <1>3. job.app \in Applications /\ app[job.app] # NoApplication
    BY JobFacts DEF TInv, Submitted
  <1>4. app[job.app].user \in Users
    BY <1>3, ApplicationIsRow DEF TInv
  <1> QED
    BY <1>1, <1>2, <1>3, <1>4

LEMMA ApproveFindShopKeepsPeople ==
  ASSUME TInv, SInv, RInv, NEW r \in Requests, ApproveFindShop(r)
  PROVE  SInv' /\ RInv'
  <1>1. /\ req[r].op = "findShop"
        /\ UNCHANGED <<role, shop, app, granted, activated, raced>>
    BY DEF ApproveFindShop, people
  <1>2. PICK op \in {"materialize", "grant"} :
          /\ req' = [req EXCEPT ![r] = [req[r] EXCEPT !.op = op]]
          /\ op = "grant" => shop[app[req[r].app].user] # "none"
    BY DEF ApproveFindShop, Goto
  <1>3. /\ req'[r].op = op /\ req'[r].app = req[r].app
        /\ \A s \in Requests \ {r} : req'[s] = req[s]
    BY <1>1, <1>2, ReviewMovesOn DEF Reviewing
  <1>4. SInv'
    BY <1>1, <1>2, <1>3, StepKeepsSInv DEF Granting, Reviewing
  <1>5. Alone' /\ Open'
    <2>1. \A s \in Requests : req'[s].op \in Reviewing => req[s].op \in Reviewing
                                                          /\ req'[s].app = req[s].app
      BY <1>1, <1>3 DEF Reviewing
    <2> QED
      BY <1>1, <2>1, StepKeepsReviews DEF RInv, Pending
  <1>6. Vetted'
    <2>1. \A s \in Requests : req[s].op \in Granting => req'[s].op \in Granting
                                                         /\ req'[s].app = req[s].app
      BY <1>1, <1>3 DEF Granting
    <2> QED
      BY <1>1, <2>1, StepKeepsVetted DEF RInv, Sells
  <1> QED
    BY <1>4, <1>5, <1>6 DEF RInv

LEMMA MaterializeShopKeepsPeople ==
  ASSUME TInv, SInv, RInv, NEW r \in Requests, MaterializeShop(r)
  PROVE  SInv' /\ RInv'
  <1> DEFINE u == app[req[r].app].user
  <1>1. req[r].op = "materialize" /\ UNCHANGED <<role, app, granted, activated, raced>>
    BY DEF MaterializeShop
  <1>2. CASE shop[u] # "none"
    <2>1. shop' = shop /\ req' = [req EXCEPT ![r] = Idle]
      BY <1>2 DEF MaterializeShop, Goto
    <2>2. \A s \in Requests : req'[s] = IF s = r THEN Idle ELSE req[s]
      BY <2>1 DEF TInv, TypeOK
    <2>3. \A s \in Requests : req'[s].op \in Reviewing => req'[s] = req[s]
      BY <2>2, IdleIsJob DEF Reviewing
    <2>4. SInv'
      BY <1>1, <2>1, <2>3, ElsewhereKeepsSInv
    <2>5. Alone' /\ Open'
      BY <1>1, <2>3, StepKeepsReviews DEF RInv, Pending
    <2>6. \A s \in Requests : req[s].op \in Granting => req'[s] = req[s]
      BY <1>1, <2>2 DEF Granting
    <2>7. Vetted'
      BY <1>1, <2>1, <2>6, StepKeepsVetted DEF RInv, Sells
    <2> QED
      BY <2>4, <2>5, <2>7 DEF RInv
  <1>3. CASE shop[u] = "none"
    <2>1. /\ shop' = [shop EXCEPT ![u] = "active"]
          /\ req' = [req EXCEPT ![r] = [req[r] EXCEPT !.op = "grant"]]
      BY <1>3 DEF MaterializeShop, Goto
    <2>2. /\ req'[r].op = "grant" /\ req'[r].app = req[r].app
          /\ \A s \in Requests \ {r} : req'[s] = req[s]
          /\ u \in Users
      BY <1>1, <2>1, ReviewMovesOn DEF Reviewing
    <2>3. \A v \in Users : shop'[v] = IF v = u THEN "active" ELSE shop[v]
      BY <2>1 DEF TInv, TypeOK
    <2>4. SInv'
      BY <1>1, <1>3, <2>2, <2>3, StepKeepsSInv DEF Granting, Reviewing
    <2>5. Alone' /\ Open'
      <3>1. \A s \in Requests : req'[s].op \in Reviewing => req[s].op \in Reviewing
                                                            /\ req'[s].app = req[s].app
        BY <1>1, <2>2 DEF Reviewing
      <3> QED
        BY <1>1, <3>1, StepKeepsReviews DEF RInv, Pending
    <2>6. Vetted'
      <3>1. \A s \in Requests : req[s].op \in Granting => req'[s].op \in Granting
                                                           /\ req'[s].app = req[s].app
        BY <1>1, <2>2 DEF Granting
      <3>2. req[r].op \in Reviewing /\ req'[r].op \in Granting
        BY <1>1, <2>2 DEF Reviewing, Granting
      <3> QED
        BY <1>1, <2>2, <2>3, <3>1, <3>2, StepKeepsVetted DEF RInv, Sells
    <2> QED
      BY <2>4, <2>5, <2>6 DEF RInv
  <1> QED
    BY <1>2, <1>3

LEMMA GrantSellerKeepsPeople ==
  ASSUME TInv, SInv, RInv, NEW r \in Requests, GrantSeller(r)
  PROVE  SInv' /\ RInv'
  <1> DEFINE u == app[req[r].app].user
  <1>1. /\ req[r].op = "grant" /\ UNCHANGED <<shop, app, granted, activated, raced>>
        /\ role' = [role EXCEPT ![u] = "seller"]
        /\ req' = [req EXCEPT ![r] = [req[r] EXCEPT !.op = "approve"]]
    BY DEF GrantSeller, Goto
  <1>2. /\ req'[r].op = "approve" /\ req'[r].app = req[r].app
        /\ \A s \in Requests \ {r} : req'[s] = req[s]
        /\ u \in Users
    BY <1>1, ReviewMovesOn DEF Reviewing
  <1>3. \A v \in Users : role'[v] = IF v = u THEN "seller" ELSE role[v]
    BY <1>1 DEF TInv, TypeOK
  <1>4. shop[u] # "none"
    BY <1>1 DEF SInv, InOrder, Granting
  <1>5. SInv'
    BY <1>1, <1>2, <1>3, <1>4, StepKeepsSInv DEF Granting, Reviewing
  <1>6. Alone' /\ Open'
    <2>1. \A s \in Requests : req'[s].op \in Reviewing => req[s].op \in Reviewing
                                                          /\ req'[s].app = req[s].app
      BY <1>1, <1>2 DEF Reviewing
    <2> QED
      BY <1>1, <2>1, StepKeepsReviews DEF RInv, Pending
  <1>7. Vetted'
    <2>1. \A s \in Requests : req[s].op \in Granting => req'[s].op \in Granting
                                                         /\ req'[s].app = req[s].app
      BY <1>1, <1>2 DEF Granting
    <2>2. req[r].op \in Reviewing /\ req'[r].op \in Granting
      BY <1>1, <1>2 DEF Reviewing, Granting
    <2> QED
      BY <1>1, <1>2, <1>3, <2>1, <2>2, StepKeepsVetted DEF RInv, Sells
  <1> QED
    BY <1>5, <1>6, <1>7 DEF RInv

\* A rejection that is alone is not overtaken by an approval, nor an approval by it.
LEMMA DecisionKeepsPeople ==
  ASSUME TInv, SInv, RInv, NEW r \in Requests, MarkApproved(r) \/ MarkRejected(r)
  PROVE  SInv' /\ RInv'
  <1> PICK job \in Job : job = req[r]
    BY DEF TInv, TypeOK
  <1>1. PICK st \in {"approved", "rejected"} :
          /\ job.op = IF st = "approved" THEN "approve" ELSE "reject"
          /\ app' = [app EXCEPT ![job.app].status = st]
          /\ req' = [req EXCEPT ![r] = Idle]
          /\ UNCHANGED <<role, shop, granted, activated, raced>>
    BY DEF MarkApproved, MarkRejected, Decision, Goto
  <1>2. job.op \in Reviewing
    BY <1>1 DEF Reviewing
  <1> PICK a \in Applications : a = job.app /\ app[a] # NoApplication
    BY <1>2, JobFacts DEF TInv, Submitted
  <1>3. PICK row \in Application \ {NoApplication} :
          app' = [app EXCEPT ![a] = row] /\ row.status = st /\ row.user = app[a].user
    BY <1>1, ApplicationIsRow DEF TInv
  <1>4. \A b \in Applications : app'[b] = IF b = a THEN row ELSE app[b]
    BY <1>3 DEF TInv, TypeOK
  <1>5. \A s \in Requests : req'[s] = IF s = r THEN Idle ELSE req[s]
    BY <1>1 DEF TInv, TypeOK
  <1>6. \A s \in Requests : req'[s].op \in Reviewing => s # r /\ req'[s] = req[s]
    BY <1>5, IdleIsJob DEF Reviewing
  <1>7. \A s \in Requests : req'[s].op \in Granting => req'[s] = req[s]
    BY <1>6 DEF Granting, Reviewing
  <1>8. SInv'
    BY <1>1, <1>3, <1>4, <1>7, StepKeepsSInv
  <1>9. \A s \in Requests \ {r} : req[s].op \in Reviewing /\ req[s].app = a => a \in raced
    BY <1>2 DEF RInv, Alone
  <1>10. Alone' /\ Open'
    <2>1. \A s \in Requests :
            req'[s].op \in Reviewing => /\ req[s].op \in Reviewing
                                        /\ req'[s].app = req[s].app
                                        /\ Pending(req[s].app) =>
                                             app'[req[s].app].status = "pending"
                                             \/ req[s].app \in raced'
      <3> SUFFICES ASSUME NEW s \in Requests, req'[s].op \in Reviewing
                   PROVE  /\ req[s].op \in Reviewing
                          /\ req'[s].app = req[s].app
                          /\ Pending(req[s].app) => app'[req[s].app].status = "pending"
                                                    \/ req[s].app \in raced'
        OBVIOUS
      <3>1. s # r /\ req'[s] = req[s]
        BY <1>6
      <3>2. req[s].app \in Applications
        BY <3>1, JobFacts DEF TInv, TypeOK
      <3> QED
        BY <1>1, <1>4, <1>9, <3>1, <3>2 DEF Pending
    <2> QED
      BY <1>1, <2>1, StepKeepsReviews DEF RInv
  <1>11. app[a].status = "approved" => a \in raced
    BY <1>2 DEF RInv, Open, Pending
  <1>12. Vetted'
    <2>1. \A s \in Requests : req[s].op \in Granting =>
            \/ req'[s].op \in Granting /\ req'[s].app = req[s].app
            \/ app'[req[s].app].status = "approved"
      <3> SUFFICES ASSUME NEW s \in Requests, req[s].op \in Granting, s = r
                   PROVE  app'[req[s].app].status = "approved"
        BY <1>5
      <3> QED
        BY <1>1, <1>3, <1>4 DEF Granting
    <2> QED
      BY <1>1, <1>3, <1>4, <1>11, <2>1, StepKeepsVetted DEF RInv, Sells
  <1> QED
    BY <1>8, <1>10, <1>12 DEF RInv

LEMMA FailKeepsPeople ==
  ASSUME TInv, SInv, RInv, NEW r \in Requests, Fail(r)
  PROVE  SInv' /\ RInv'
  <1>1. /\ req' = [req EXCEPT ![r] = Idle]
        /\ raced' = IF req[r].op \in Granting THEN raced \cup {req[r].app} ELSE raced
        /\ UNCHANGED <<role, shop, app, granted, activated>>
    BY DEF Fail, Goto, Granting
  <1>2. \A s \in Requests : req'[s] = IF s = r THEN Idle ELSE req[s]
    BY <1>1 DEF TInv, TypeOK
  <1>3. \A s \in Requests : req'[s].op \in Reviewing => req'[s] = req[s]
    BY <1>2, IdleIsJob DEF Reviewing
  <1>4. SInv'
    BY <1>1, <1>3, ElsewhereKeepsSInv
  <1>5. Alone' /\ Open'
    BY <1>1, <1>3, StepKeepsReviews DEF RInv, Pending
  <1>6. \A s \in Requests : req[s].op \in Granting => req'[s] = req[s] \/ req[s].app \in raced'
    BY <1>1, <1>2
  <1>7. Vetted'
    BY <1>1, <1>6, StepKeepsVetted DEF RInv, Sells
  <1> QED
    BY <1>4, <1>5, <1>7 DEF RInv

LEMMA WorldKeepsPeople ==
  ASSUME TInv, SInv, RInv,
         \/ \E u \in Users : \/ IssueToken(u)
                             \/ \E ro \in Assigned : ChangeUserRole(u, ro)
                             \/ \E st \in Moderated : UpdateShopStatus(u, st)
         \/ \E ro \in Roles : EntryExpires(ro)
  PROVE  SInv' /\ RInv'
  <1>1. CASE UNCHANGED <<role, shop, app, granted, activated, raced, req>>
    BY <1>1, ElsewhereKeepsSInv, ElsewhereKeepsRInv
  <1>2. ASSUME NEW u \in Users, NEW ro \in Assigned, ChangeUserRole(u, ro)
        PROVE  SInv' /\ RInv'
    <2>1. /\ role' = [role EXCEPT ![u] = ro] /\ granted' = granted \cup {u}
          /\ UNCHANGED <<shop, app, activated, raced, req>>
      BY <1>2 DEF ChangeUserRole
    <2>2. \A v \in Users \ granted' : role'[v] = role[v]
      BY <2>1 DEF TInv, TypeOK
    <2>3. SInv'
      BY <2>1, <2>2, StepKeepsSInv
    <2>4. Alone' /\ Open'
      BY <2>1, StepKeepsReviews DEF RInv, Pending
    <2>5. Vetted'
      BY <2>1, <2>2, StepKeepsVetted DEF RInv, Sells
    <2> QED
      BY <2>3, <2>4, <2>5 DEF RInv
  <1>3. ASSUME NEW u \in Users, NEW st \in Moderated, UpdateShopStatus(u, st)
        PROVE  SInv' /\ RInv'
    <2>1. /\ shop' = [shop EXCEPT ![u] = st] /\ shop[u] # "none"
          /\ activated' = IF st = "active" THEN activated \cup {u} ELSE activated
          /\ UNCHANGED <<role, app, granted, raced, req>>
      BY <1>3 DEF UpdateShopStatus
    <2>2. st # "none"
      BY AccessAssumption DEF ShopStatuses
    <2>3. \A v \in Users : shop'[v] = IF v = u THEN st ELSE shop[v]
      BY <2>1 DEF TInv, TypeOK
    <2>4. SInv'
      BY <2>1, <2>2, <2>3, StepKeepsSInv
    <2>5. Alone' /\ Open'
      BY <2>1, StepKeepsReviews DEF RInv, Pending
    <2>6. \A v \in Users : Sells(v)' => Sells(v)
      BY <2>1, <2>3 DEF Sells
    <2>7. Vetted'
      BY <2>1, <2>6, StepKeepsVetted DEF RInv
    <2> QED
      BY <2>4, <2>5, <2>7 DEF RInv
  <1> QED
    BY <1>1, <1>2, <1>3 DEF IssueToken, EntryExpires, people

LEMMA NextKeepsPeople ==
  ASSUME TInv, SInv, RInv, [Next]_vars
  PROVE  SInv' /\ RInv'
  <1>1. CASE UNCHANGED vars
    BY <1>1, ElsewhereKeepsSInv, ElsewhereKeepsRInv DEF vars, people
  <1>2. ASSUME NEW r \in Requests, Onboard(r) PROVE SInv' /\ RInv'
    BY <1>2, ApplyKeepsPeople, CreateApplicationKeepsPeople, ReviewKeepsPeople,
       ApproveFindShopKeepsPeople, MaterializeShopKeepsPeople, GrantSellerKeepsPeople,
       DecisionKeepsPeople DEF Onboard
  <1> QED
    BY <1>1, <1>2, GuardedKeepsPeople, EditKeepsPeople, FailKeepsPeople, WorldKeepsPeople
    DEF Next

\* Of an applicant whose applications were all rejected, none raced, none vouches.
LEMMA RejectedHasNoVoucher == TInv /\ RInv => RejectedIsNoSeller
  <1> SUFFICES ASSUME TInv, RInv, NEW u \in Users \ granted,
                      \A a \in Applications : app[a] # NoApplication /\ app[a].user = u =>
                                                app[a].status = "rejected" /\ a \notin raced
               PROVE  role[u] = "customer" /\ (shop[u] = "active" => u \in activated)
    BY DEF RejectedIsNoSeller
  <1>1. ASSUME NEW a \in Applications, Vouches(a, u) PROVE FALSE
    <2>1. app[a].status = "rejected" /\ a \notin raced
      BY <1>1 DEF Vouches
    <2>2. PICK r \in Requests : req[r].op \in Granting /\ req[r].app = a
      BY <1>1, <2>1 DEF Vouches
    <2> QED
      BY <2>1, <2>2 DEF RInv, Open, Pending, Granting, Reviewing
  <1> QED
    BY <1>1 DEF RInv, Vetted, Sells

-----------------------------------------------------------------------------
(* The theorems. *)

\* Every row, entry and request keeps its form, and a review its application.
THEOREM TypeCorrect == Spec => []TypeOK
  <1>1. TInv => TypeOK
    BY DEF TInv
  <1> QED
    BY <1>1, InitType, NextType, PTL DEF Spec

\* What the guard finds cached is what the role may do, after every edit that was
\* not overtaken by a guard's read and did not die half way.
THEOREM CacheFresh == Spec => []CacheIsFresh
  <1>1. Init => CInv
    BY IdleIsJob DEF Init, CInv, Fresh, Clean
  <1> QED
    BY <1>1, InitType, NextType, NextKeepsCache, FreshIsSeen, PTL DEF Spec

LEMMA InitPeople == Init => SInv /\ RInv
  <1> SUFFICES ASSUME Init PROVE SInv /\ RInv
    OBVIOUS
  <1>1. \A r \in Requests : req[r] = Idle
    BY DEF Init
  <1>2. SInv
    BY <1>1, IdleIsJob DEF Init, SInv, ApprovedIsSeller, InOrder, Granting, NoApplication
  <1>3. Alone /\ Open
    BY <1>1, IdleIsJob DEF Alone, Open, Reviewing
  <1>4. Vetted
    BY DEF Init, Vetted, Sells
  <1> QED
    BY <1>2, <1>3, <1>4 DEF RInv

\* An approved applicant has a shop, whatever its status, and the role unless an admin set
\* another.
THEOREM ApprovedSells == Spec => []ApprovedIsSeller
  <1>1. SInv => ApprovedIsSeller
    BY DEF SInv
  <1> QED
    BY <1>1, InitType, InitPeople, NextType, NextKeepsPeople, PTL DEF Spec

\* Who was only rejected, without a race or a failed approval, is no seller and has no
\* active shop but one that an admin made active by hand, unless an admin set his role.
THEOREM RejectedSellsNot == Spec => []RejectedIsNoSeller
  BY InitType, InitPeople, NextType, NextKeepsPeople, RejectedHasNoVoucher, PTL DEF Spec

=============================================================================
