--------------------------- MODULE SessionsProofs ---------------------------
(***************************************************************************)
(* Proofs about Sessions, for any tabs, tokens, calls and requests.        *)
(***************************************************************************)
EXTENDS Sessions, TLAPS

\* A job that holds a refresh token, and one whose new pair is on its way.
Holds(job) == job # Idle /\ job.token # NoPair
Grants(job) == job.op = "granted"

Known == {p \in Pairs : token[p] # "none"} \cup {NoPair}

\* What the tabs, their calls and the jobs know of was issued, and every issued pair
\* descends from a login.
Issued ==
  /\ stored \in Known
  /\ \A t \in Tabs : memory[t] \in Known
  /\ \A q \in Calls : call[q] # NoCall => call[q].token \in Known
  /\ \A q \in Calls : call[q] # NoCall /\ call[q].kind = "logout" => call[q].token # NoPair
  /\ \A r \in Requests : req[r] # Idle => req[r].token \in Known
  /\ \A r \in Requests : Grants(req[r]) => req[r].pair \in Known
  /\ \A p \in Pairs : IF token[p] = "none" THEN family[p] = NoPair
                      ELSE family[p] \in Known \ {NoPair}

TInv == TypeOK /\ Issued

\* Whoever waits keeps its tab refreshing, and a tab that refreshes has the one job
\* that will answer.
Awaited ==
  \A q \in Calls : call[q].state \in {"queued", "waiting"} => call[q].tab \in refreshing

OneRefresh ==
  \A t \in Tabs :
    /\ t \in refreshing <=> Refreshes(t) # {}
    /\ \A r, s \in Refreshes(t) : r = s

QInv == Awaited /\ OneRefresh

\* The login a job continues.
FamilyOf(job) ==
  IF Holds(job) THEN family[job.token]
  ELSE IF Grants(job) THEN family[job.pair] ELSE NoPair

\* Of a login no two refreshes raced for: one job at a time, with the token that is
\* stored; at most one live token, none from the revocation to the next one.
OneJob ==
  \A r, s \in Requests :
    FamilyOf(req[r]) \in Pairs \ raced /\ FamilyOf(req[s]) = FamilyOf(req[r]) => r = s

StoredIsHeld ==
  \A r \in Requests :
    /\ stored \in Pairs
    /\ FamilyOf(req[r]) = family[stored]
    /\ family[stored] \notin raced
    => req[r].token = stored

Rotating ==
  \A r \in Requests : \A p \in Live :
    /\ req[r].op \in {"revoke", "issue"}
    /\ Holds(req[r])
    /\ family[p] = family[req[r].token]
    /\ family[p] \notin raced
    => req[r].op = "revoke" /\ p = req[r].token

Inherits ==
  \A r \in Requests : Grants(req[r]) /\ Holds(req[r]) => family[req[r].pair] = family[req[r].token]

LInv == OneJob /\ StoredIsHeld /\ Rotating /\ Inherits /\ OneLivePerLogin

\* A refresh past the revocation of its token, or told that it is not valid.
Used(job) ==
  /\ Holds(job)
  /\ \/ job.op \in {"issue", "granted"}
     \/ job.op = "denied" /\ job.why = "invalid"

\* A token that was exchanged, found revoked, or logged out is not live.
Spent ==
  /\ \A r \in Requests : Used(req[r]) => req[r].token \notin Live
  /\ \A q \in Calls : call[q].state = "revoked" => call[q].token \notin Live

SInv == Spent /\ LiveIsKept

\* A pair on its way is nobody's yet, and still good unless it was ended; a refresh
\* whose page is gone ended its token.
OnItsWay ==
  \A r \in Requests : Grants(req[r]) =>
    /\ req[r].pair # stored
    /\ req[r].pair \in Live \cup ended
    /\ \A s \in Requests : Holds(req[s]) => req[s].token # req[r].pair
    /\ \A s \in Requests : Grants(req[s]) /\ req[s].pair = req[r].pair => s = r

Orphaned ==
  \A r \in Requests : Holds(req[r]) /\ req[r].tab = NoTab => req[r].token \in ended

KInv == OnItsWay /\ Orphaned /\ KeptTokenIsLive

-----------------------------------------------------------------------------
(* Calls and jobs. *)

LEMMA CallFacts ==
  ASSUME NEW c \in Call, c # NoCall
  PROVE  /\ c.tab \in Tabs
         /\ c.with \in Pairs \cup {NoPair}
         /\ c.token \in Pairs \cup {NoPair}
         /\ c.state \in {"sent", "queued", "waiting", "revoked"}
  BY DEF Call

LEMMA NoCallIsCall == NoCall \in Call /\ NoCall.state = "idle"
  BY DEF Call, NoCall

\* A call that moves on.
LEMMA CallMarked ==
  ASSUME NEW c \in Call, c # NoCall, NEW st \in {"queued", "revoked"}
  PROVE  /\ [c EXCEPT !.state = st] \in Call \ {NoCall}
         /\ [c EXCEPT !.state = st].state = st
         /\ [c EXCEPT !.state = st].kind = c.kind
         /\ [c EXCEPT !.state = st].tab = c.tab
         /\ [c EXCEPT !.state = st].token = c.token
  <1> DEFINE now == [c EXCEPT !.state = st]
             Sent == [state : {"sent", "queued", "waiting", "revoked"}, tab : Tabs,
                      kind : {"data", "logout"}, retried : BOOLEAN,
                      with : Pairs \cup {NoPair}, token : Pairs \cup {NoPair}]
  <1>1. c \in Sent
    BY DEF Call
  <1>2. /\ now \in Sent
        /\ now.state = st /\ now.kind = c.kind /\ now.tab = c.tab /\ now.token = c.token
    BY <1>1
  <1>3. now \in Call \ {NoCall}
    BY <1>2 DEF Call, NoCall
  <1> QED
    BY <1>2, <1>3

LEMMA CallWaits ==
  ASSUME NEW c \in Call, c # NoCall
  PROVE  /\ [c EXCEPT !.state = "waiting", !.retried = TRUE] \in Call \ {NoCall}
         /\ [c EXCEPT !.state = "waiting", !.retried = TRUE].state = "waiting"
         /\ [c EXCEPT !.state = "waiting", !.retried = TRUE].kind = c.kind
         /\ [c EXCEPT !.state = "waiting", !.retried = TRUE].tab = c.tab
         /\ [c EXCEPT !.state = "waiting", !.retried = TRUE].token = c.token
  <1> DEFINE now == [c EXCEPT !.state = "waiting", !.retried = TRUE]
             Sent == [state : {"sent", "queued", "waiting", "revoked"}, tab : Tabs,
                      kind : {"data", "logout"}, retried : BOOLEAN,
                      with : Pairs \cup {NoPair}, token : Pairs \cup {NoPair}]
  <1>1. c \in Sent
    BY DEF Call
  <1>2. /\ now \in Sent
        /\ now.state = "waiting" /\ now.kind = c.kind /\ now.tab = c.tab /\ now.token = c.token
    BY <1>1
  <1>3. now \in Call \ {NoCall}
    BY <1>2 DEF Call, NoCall
  <1> QED
    BY <1>2, <1>3

LEMMA CallResent ==
  ASSUME NEW c \in Call, c # NoCall, NEW p \in Pairs
  PROVE  /\ [c EXCEPT !.state = "sent", !.with = p] \in Call \ {NoCall}
         /\ [c EXCEPT !.state = "sent", !.with = p].state = "sent"
         /\ [c EXCEPT !.state = "sent", !.with = p].kind = c.kind
         /\ [c EXCEPT !.state = "sent", !.with = p].tab = c.tab
         /\ [c EXCEPT !.state = "sent", !.with = p].token = c.token
  <1> DEFINE now == [c EXCEPT !.state = "sent", !.with = p]
             Sent == [state : {"sent", "queued", "waiting", "revoked"}, tab : Tabs,
                      kind : {"data", "logout"}, retried : BOOLEAN,
                      with : Pairs \cup {NoPair}, token : Pairs \cup {NoPair}]
  <1>1. c \in Sent
    BY DEF Call
  <1>2. /\ now \in Sent
        /\ now.state = "sent" /\ now.kind = c.kind /\ now.tab = c.tab /\ now.token = c.token
    BY <1>1
  <1>3. now \in Call \ {NoCall}
    BY <1>2 DEF Call, NoCall
  <1> QED
    BY <1>2, <1>3

LEMMA JobFacts ==
  ASSUME NEW job \in Job
  PROVE  /\ job.op \in {"idle", "find", "revoke", "issue", "granted", "denied"}
         /\ job.op = "idle" <=> job = Idle
         /\ job # Idle => job.tab \in Tabs \cup {NoTab} /\ job.token \in Pairs \cup {NoPair}
         /\ job.op \in {"find", "revoke", "denied"} => job.token \in Pairs
         /\ job.op = "granted" => job.pair \in Pairs
  BY DEF Job, Idle

LEMMA Jobs ==
  ASSUME NEW t \in Tabs \cup {NoTab}
  PROVE  /\ Idle \in Job
         /\ \A p \in Pairs : [op |-> "find", tab |-> t, token |-> p] \in Job
         /\ [op |-> "issue", tab |-> t, token |-> NoPair] \in Job
         /\ \A from \in Pairs \cup {NoPair}, p \in Pairs :
              [op |-> "granted", tab |-> t, token |-> from, pair |-> p] \in Job
         /\ \A p \in Pairs, why \in {"invalid", "error"} :
              [op |-> "denied", tab |-> t, token |-> p, why |-> why] \in Job
  BY DEF Job

LEMMA RefreshGoesOn ==
  ASSUME NEW job \in Job, job.op \in {"find", "revoke"}
  PROVE  \A op \in {"revoke", "issue"} :
           /\ [job EXCEPT !.op = op] \in Job
           /\ [job EXCEPT !.op = op].op = op
           /\ [job EXCEPT !.op = op].tab = job.tab
           /\ [job EXCEPT !.op = op].token = job.token
  <1> DEFINE Early == [op : {"find", "revoke"}, tab : Tabs \cup {NoTab}, token : Pairs]
             Going == [op : {"revoke", "issue"}, tab : Tabs \cup {NoTab}, token : Pairs]
  <1>1. job \in Early
    BY DEF Job, Idle
  <1>2. ASSUME NEW j \in Early, NEW op \in {"revoke", "issue"}
        PROVE  /\ [j EXCEPT !.op = op] \in Going
               /\ [j EXCEPT !.op = op].op = op
               /\ [j EXCEPT !.op = op].tab = j.tab
               /\ [j EXCEPT !.op = op].token = j.token
    OBVIOUS
  <1>3. Going \subseteq Job
    BY DEF Job
  <1> HIDE DEF Early, Going
  <1> QED
    BY <1>1, <1>2, <1>3

\* A job whose page is gone is the same job.
Alike(job, now) ==
  /\ now \in Job
  /\ now.op = job.op
  /\ job # Idle => now.token = job.token /\ now.tab \in {job.tab, NoTab}
  /\ job.op = "granted" => now.pair = job.pair
  /\ job.op = "denied" => now.why = job.why

LEMMA JobIsAlike ==
  ASSUME NEW job \in Job, job # Idle
  PROVE  Alike(job, [job EXCEPT !.tab = NoTab]) /\ [job EXCEPT !.tab = NoTab].tab = NoTab
  <1> DEFINE now == [job EXCEPT !.tab = NoTab]
  <1> SUFFICES Alike(job, now) /\ now.tab = NoTab
    OBVIOUS
  <1>1. CASE job \in [op : {"find", "revoke"}, tab : Tabs \cup {NoTab}, token : Pairs]
    <2>1. now \in [op : {"find", "revoke"}, tab : Tabs \cup {NoTab}, token : Pairs]
      BY <1>1
    <2>2. now.op = job.op /\ now.token = job.token /\ now.tab = NoTab
      BY <1>1
    <2>3. now \in Job
      BY <2>1 DEF Job
    <2> HIDE DEF now
    <2>4. QED
      BY <1>1, <2>2, <2>3 DEF Alike
  <1>2. CASE job \in [op : {"issue"}, tab : Tabs \cup {NoTab}, token : Pairs \cup {NoPair}]
    <2>1. now \in [op : {"issue"}, tab : Tabs \cup {NoTab}, token : Pairs \cup {NoPair}]
      BY <1>2
    <2>2. now.op = job.op /\ now.token = job.token /\ now.tab = NoTab
      BY <1>2
    <2>3. now \in Job
      BY <2>1 DEF Job
    <2> HIDE DEF now
    <2>4. QED
      BY <1>2, <2>2, <2>3 DEF Alike
  <1>3. CASE job \in [op : {"granted"}, tab : Tabs \cup {NoTab}, token : Pairs \cup {NoPair},
                      pair : Pairs]
    <2>1. now \in [op : {"granted"}, tab : Tabs \cup {NoTab}, token : Pairs \cup {NoPair},
                   pair : Pairs]
      BY <1>3
    <2>2. now.op = job.op /\ now.token = job.token /\ now.tab = NoTab /\ now.pair = job.pair
      BY <1>3
    <2>3. now \in Job
      BY <2>1 DEF Job
    <2> HIDE DEF now
    <2>4. QED
      BY <1>3, <2>2, <2>3 DEF Alike
  <1>4. CASE job \in [op : {"denied"}, tab : Tabs \cup {NoTab}, token : Pairs,
                      why : {"invalid", "error"}]
    <2>1. now \in [op : {"denied"}, tab : Tabs \cup {NoTab}, token : Pairs,
                   why : {"invalid", "error"}]
      BY <1>4
    <2>2. now.op = job.op /\ now.token = job.token /\ now.tab = NoTab /\ now.why = job.why
      BY <1>4
    <2>3. now \in Job
      BY <2>1 DEF Job
    <2> HIDE DEF now
    <2>4. QED
      BY <1>4, <2>2, <2>3 DEF Alike
  <1> HIDE DEF now
  <1>5. QED
    BY <1>1, <1>2, <1>3, <1>4 DEF Job

LEMMA DetachedJobs ==
  ASSUME NEW jobs \in [Requests -> Job], NEW t \in Tabs
  PROVE  /\ Detached(t, jobs) \in [Requests -> Job]
         /\ \A r \in Requests :
              /\ Alike(jobs[r], Detached(t, jobs)[r])
              /\ jobs[r] # Idle /\ jobs[r].tab # t => Detached(t, jobs)[r] = jobs[r]
              /\ jobs[r] # Idle /\ jobs[r].tab = t => Detached(t, jobs)[r].tab = NoTab
  <1>1. ASSUME NEW r \in Requests
        PROVE  /\ Alike(jobs[r], Detached(t, jobs)[r])
               /\ jobs[r] # Idle /\ jobs[r].tab # t => Detached(t, jobs)[r] = jobs[r]
               /\ jobs[r] # Idle /\ jobs[r].tab = t => Detached(t, jobs)[r].tab = NoTab
    <2>1. jobs[r] \in Job
      OBVIOUS
    <2>2. CASE jobs[r] # Idle /\ jobs[r].tab = t
      BY <2>1, <2>2, JobIsAlike DEF Detached
    <2>3. CASE ~(jobs[r] # Idle /\ jobs[r].tab = t)
      BY <2>1, <2>3 DEF Detached, Alike
    <2>4. QED
      BY <2>2, <2>3
  <1>2. DOMAIN Detached(t, jobs) = Requests /\ \A r \in Requests : Detached(t, jobs)[r] \in Job
    BY <1>1 DEF Detached, Alike
  <1>3. Detached(t, jobs) \in [Requests -> Job]
    BY <1>2 DEF Detached
  <1> QED
    BY <1>1, <1>3

LEMMA JobMoves ==
  ASSUME TypeOK, NEW r \in Requests, NEW job \in Job, Goto(r, job)
  PROVE  /\ req' \in [Requests -> Job]
         /\ req'[r] = job
         /\ \A s \in Requests \ {r} : req'[s] = req[s]
  BY DEF TypeOK, Goto

LEMMA CallMoves ==
  ASSUME TypeOK, NEW q \in Calls, NEW c \in Call, CallGoes(q, c)
  PROVE  /\ call' \in [Calls -> Call]
         /\ call'[q] = c
         /\ \A x \in Calls \ {q} : call'[x] = call[x]
  BY DEF TypeOK, CallGoes

LEMMA CallsGone ==
  ASSUME TypeOK, NEW t \in Tabs
  PROVE  /\ NoCallsOf(t) \in [Calls -> Call]
         /\ \A q \in Calls : NoCallsOf(t)[q] \in {NoCall, call[q]}
         /\ \A q \in Calls : NoCallsOf(t)[q] # NoCall => call[q].tab # t
  BY NoCallIsCall DEF TypeOK, NoCallsOf, Of

-----------------------------------------------------------------------------
(* Types, and that nothing is known that was not issued. *)

\* The actions that leave token and family alone.
LEMMA KnownStays ==
  ASSUME TInv, UNCHANGED <<token, family>>
  PROVE  /\ Known' = Known
         /\ (\A p \in Pairs : IF token[p] = "none" THEN family[p] = NoPair
                              ELSE family[p] \in Known \ {NoPair})'
  BY DEF TInv, Issued, Known

LEMMA TypeInit == ASSUME Init PROVE TInv
  <1>1. Idle \in Job
    BY DEF Job
  <1>2. TypeOK
    BY <1>1, NoCallIsCall, SessionAssumption DEF Init, TypeOK
  <1>3. \A r \in Requests : req[r] = Idle /\ ~Grants(req[r])
    BY DEF Init, Grants, Idle
  <1>4. Issued
    BY <1>3 DEF Init, Issued, Known
  <1> QED
    BY <1>2, <1>4 DEF TInv

LEMMA TypeSend ==
  ASSUME TInv, NEW q \in Calls, NEW t \in Tabs, NEW kind \in {"data", "logout"}, Send(q, t, kind)
  PROVE  TInv'
  <1> DEFINE c == [state |-> "sent", tab |-> t, kind |-> kind, retried |-> FALSE,
                   with |-> stored, token |-> IF kind = "logout" THEN memory[t] ELSE NoPair]
  <1>1. c \in Call /\ c.token \in Known /\ (c.kind = "logout" => c.token # NoPair)
    BY SessionAssumption DEF TInv, TypeOK, Issued, Known, Call, Send
  <1>2. CallGoes(q, c)
    BY DEF Send
  <1> HIDE DEF c
  <1>3. /\ call' \in [Calls -> Call]
        /\ \A x \in Calls : call'[x] \in {c, call[x]}
    BY <1>1, <1>2, CallMoves DEF TInv
  <1>4. Known' = Known
    BY KnownStays DEF Send, server, history
  <1>5. TypeOK'
    BY <1>3, SessionAssumption DEF TInv, TypeOK, Send, server, history
  <1>6. Issued'
    BY <1>1, <1>3, <1>4 DEF TInv, Issued, Send, server, history
  <1> QED
    BY <1>5, <1>6 DEF TInv

\* What a call leaves behind when it ends.
LEMMA TypeCallEnds ==
  ASSUME TInv, NEW q \in Calls, call[q] # NoCall,
         \/ LogOut(q)
         \/ CallGoes(q, NoCall) /\ UNCHANGED <<stored, memory>>,
         UNCHANGED <<token, stale, refreshing, req, sent, family, raced, ended>>,
         abandoned' \in {abandoned, abandoned \cup ({stored} \ {NoPair, call[q].token}),
                         abandoned \cup ({stored} \ {NoPair})}
  PROVE  TInv'
  <1>1. CallGoes(q, NoCall)
    BY DEF LogOut
  <1>2. /\ call' \in [Calls -> Call]
        /\ \A x \in Calls : call'[x] \in {NoCall, call[x]}
    BY <1>1, CallMoves, NoCallIsCall DEF TInv
  <1>3. Known' = Known
    BY KnownStays
  <1>4. /\ stored' \in {stored, NoPair}
        /\ memory' \in [Tabs -> Pairs \cup {NoPair}]
        /\ \A t \in Tabs : memory'[t] \in {memory[t], NoPair}
    BY CallFacts DEF LogOut, TInv, TypeOK
  <1>5. abandoned' \subseteq Pairs
    BY DEF TInv, TypeOK
  <1>6. TypeOK'
    BY <1>2, <1>4, <1>5 DEF TInv, TypeOK
  <1>7. NoPair \in Known
    BY DEF Known
  <1>8. Issued'
    BY <1>2, <1>3, <1>4, <1>7 DEF TInv, Issued
  <1> QED
    BY <1>6, <1>8 DEF TInv

LEMMA TypeGiveUp ==
  ASSUME TInv, NEW q \in Calls, GiveUp(q)
  PROVE  TInv'
  <1>1. call[q] # NoCall
    BY NoCallIsCall DEF GiveUp, Refused
  <1> QED
    BY <1>1, TypeCallEnds DEF GiveUp, server

LEMMA TypeAnswer ==
  ASSUME TInv, NEW q \in Calls, Answer(q)
  PROVE  TInv'
  <1>1. call[q] # NoCall
    BY NoCallIsCall DEF Answer, Accepted
  <1> QED
    BY <1>1, TypeCallEnds DEF Answer, server, history

LEMMA TypeSettleLogout ==
  ASSUME TInv, NEW q \in Calls, SettleLogout(q)
  PROVE  TInv'
  <1>1. call[q] # NoCall
    BY NoCallIsCall DEF SettleLogout
  <1> QED
    BY <1>1, TypeCallEnds DEF SettleLogout, server

LEMMA TypeCallFails ==
  ASSUME TInv, NEW q \in Calls, CallFails(q)
  PROVE  TInv'
  <1>1. call[q] # NoCall
    BY NoCallIsCall DEF CallFails
  <1> QED
    BY <1>1, TypeCallEnds DEF CallFails, server

LEMMA TypeEnqueue ==
  ASSUME TInv, NEW q \in Calls, Enqueue(q)
  PROVE  TInv'
  <1>1. call[q] \in Call /\ call[q] # NoCall
    BY NoCallIsCall DEF Enqueue, Refused, TInv, TypeOK
  <1> DEFINE c == [call[q] EXCEPT !.state = "queued"]
  <1>2. c \in Call /\ c.token = call[q].token /\ c.kind = call[q].kind
    BY <1>1, CallMarked
  <1>a. CallGoes(q, c)
    BY DEF Enqueue
  <1> HIDE DEF c
  <1>3. /\ call' \in [Calls -> Call]
        /\ \A x \in Calls : call'[x] = IF x = q THEN c ELSE call[x]
    BY <1>2, <1>a, CallMoves DEF TInv
  <1>4. Known' = Known
    BY KnownStays DEF Enqueue, server, history
  <1>5. TypeOK'
    BY <1>3 DEF TInv, TypeOK, Enqueue, server, history
  <1>6. Issued'
    BY <1>1, <1>2, <1>3, <1>4 DEF TInv, Issued, Enqueue, server, history
  <1> QED
    BY <1>5, <1>6 DEF TInv

LEMMA TypeStartRefresh ==
  ASSUME TInv, NEW q \in Calls, NEW r \in Requests, StartRefresh(q, r)
  PROVE  TInv'
  <1>1. call[q] \in Call /\ call[q] # NoCall /\ call[q].tab \in Tabs
    BY NoCallIsCall, CallFacts DEF StartRefresh, Refused, TInv, TypeOK
  <1> DEFINE c == [call[q] EXCEPT !.state = "waiting", !.retried = TRUE]
  <1>2. c \in Call /\ c.token = call[q].token /\ c.kind = call[q].kind
    BY <1>1, CallWaits
  <1>a. CallGoes(q, c)
    BY DEF StartRefresh
  <1> HIDE DEF c
  <1>3. /\ call' \in [Calls -> Call]
        /\ \A x \in Calls : call'[x] = IF x = q THEN c ELSE call[x]
    BY <1>2, <1>a, CallMoves DEF TInv
  <1>4. stored \in Pairs /\ stored \in Known /\ family[stored] \in Pairs
    BY DEF StartRefresh, TInv, TypeOK, Issued, Known
  <1> DEFINE job == [op |-> "find", tab |-> call[q].tab, token |-> stored]
  <1>5. job \in Job /\ job.token = stored /\ ~Grants(job)
    BY <1>1, <1>4, Jobs DEF Grants
  <1>b. Goto(r, job)
    BY DEF StartRefresh
  <1> HIDE DEF job
  <1>6. /\ req' \in [Requests -> Job]
        /\ \A s \in Requests : req'[s] = IF s = r THEN job ELSE req[s]
    BY <1>5, <1>b, JobMoves DEF TInv
  <1>7. Known' = Known
    BY KnownStays DEF StartRefresh, server
  <1>8. TypeOK'
    BY <1>1, <1>3, <1>4, <1>6 DEF TInv, TypeOK, StartRefresh, server
  <1>9. Issued'
    BY <1>1, <1>2, <1>3, <1>4, <1>5, <1>6, <1>7 DEF TInv, Issued, StartRefresh, server
  <1> QED
    BY <1>8, <1>9 DEF TInv

\* A job that moves on and touches nothing else.
LEMMA TypeJobMoves ==
  ASSUME TInv, NEW r \in Requests, NEW job \in Job, Goto(r, job),
         job # Idle => job.token \in Known,
         Grants(job) => job.pair \in Known,
         UNCHANGED <<server, client, family, raced, ended>>,
         abandoned' \subseteq Pairs
  PROVE  TInv'
  <1>1. /\ req' \in [Requests -> Job]
        /\ \A s \in Requests : req'[s] = IF s = r THEN job ELSE req[s]
    BY JobMoves DEF TInv
  <1>2. Known' = Known
    BY KnownStays DEF server
  <1>3. TypeOK'
    BY <1>1 DEF TInv, TypeOK, server, client
  <1>4. Issued'
    BY <1>1, <1>2 DEF TInv, Issued, server, client
  <1> QED
    BY <1>3, <1>4 DEF TInv

LEMMA TypeLogin ==
  ASSUME TInv, NEW r \in Requests, NEW t \in Tabs, Login(r, t)
  PROVE  TInv'
  <1> DEFINE job == [op |-> "issue", tab |-> t, token |-> NoPair]
  <1>1. job \in Job /\ job.token \in Known /\ ~Grants(job) /\ Goto(r, job)
    BY Jobs DEF Known, Grants, Login
  <1>2. /\ UNCHANGED <<server, client, family, raced, ended>>
        /\ abandoned' \subseteq Pairs
    BY DEF Login, history, TInv, TypeOK
  <1> HIDE DEF job
  <1> QED
    BY <1>1, <1>2, TypeJobMoves

\* A refresh that fails.
LEMMA DenyJob ==
  ASSUME TInv, NEW r \in Requests, req[r] # Idle, req[r].token \in Pairs,
         NEW why \in {"invalid", "error"}, Deny(r, why)
  PROVE  \E job \in Job : /\ Goto(r, job)
                          /\ job # Idle /\ job.op = "denied" /\ ~Grants(job)
                          /\ job.token = req[r].token /\ job.tab = req[r].tab
                          /\ job.why = why
                          /\ job.token \in Known
  <1> DEFINE job == [op |-> "denied", tab |-> req[r].tab, token |-> req[r].token, why |-> why]
  <1>1. req[r] \in Job
    BY DEF TInv, TypeOK
  <1>2. job \in Job
    BY <1>1, JobFacts, Jobs
  <1>3. /\ job # Idle /\ job.op = "denied" /\ ~Grants(job)
        /\ job.token = req[r].token /\ job.tab = req[r].tab /\ job.why = why
    BY DEF Grants, Idle
  <1>4. job.token \in Known
    BY <1>3 DEF TInv, Issued
  <1>5. Goto(r, job)
    BY DEF Deny
  <1> QED
    BY <1>2, <1>3, <1>4, <1>5

LEMMA TypeDeny ==
  ASSUME TInv, NEW r \in Requests, req[r] # Idle, req[r].token \in Pairs,
         NEW why \in {"invalid", "error"}, Deny(r, why),
         UNCHANGED <<server, client, family, raced, ended>>,
         abandoned' \subseteq Pairs
  PROVE  TInv'
  <1>1. PICK job \in Job : Goto(r, job) /\ ~Grants(job) /\ job.token \in Known
    BY DenyJob
  <1> QED
    BY <1>1, TypeJobMoves

LEMMA TypeFindToken ==
  ASSUME TInv, NEW r \in Requests, FindToken(r)
  PROVE  TInv'
  <1>1. req[r] \in Job /\ req[r].op = "find" /\ req[r] # Idle /\ req[r].token \in Pairs
    BY JobFacts DEF FindToken, TInv, TypeOK, Idle
  <1>2. /\ UNCHANGED <<server, client, family, raced, ended>>
        /\ abandoned' \subseteq Pairs
    BY DEF FindToken, history, TInv, TypeOK
  <1>3. ASSUME NEW why \in {"invalid", "error"}, Deny(r, why)
        PROVE  TInv'
    BY <1>1, <1>2, <1>3, TypeDeny
  <1> DEFINE job == [req[r] EXCEPT !.op = "revoke"]
  <1>4. job \in Job /\ job.token \in Known /\ ~Grants(job)
    BY <1>1, RefreshGoesOn DEF TInv, Issued, Grants
  <1>5. Goto(r, job) \/ Deny(r, "invalid") \/ Deny(r, "error")
    BY DEF FindToken
  <1> HIDE DEF job
  <1>6. CASE Goto(r, job)
    BY <1>2, <1>4, <1>6, TypeJobMoves
  <1> QED
    BY <1>3, <1>5, <1>6

LEMMA TypeRequestFails ==
  ASSUME TInv, NEW r \in Requests, RequestFails(r)
  PROVE  TInv'
  <1>1. /\ req[r] \in Job /\ req[r] # Idle /\ req[r].token \in Pairs \cup {NoPair}
        /\ req[r].op = "granted" => req[r].pair \in Pairs
    BY JobFacts DEF RequestFails, TInv, TypeOK
  <1>2. /\ UNCHANGED <<server, client, family, raced, ended>>
        /\ abandoned' \subseteq Pairs
    BY <1>1 DEF RequestFails, TInv, TypeOK
  <1>3. CASE req[r].token = NoPair
    <2>1. Goto(r, Idle) /\ Idle \in Job /\ ~Grants(Idle)
      BY <1>3, JobFacts DEF RequestFails, Job, Grants, Idle
    <2>2. QED
      BY <1>2, <2>1, TypeJobMoves
  <1>4. CASE req[r].token # NoPair
    <2>1. Deny(r, "error")
      BY <1>4 DEF RequestFails
    <2>2. QED
      BY <1>1, <1>2, <1>4, <2>1, TypeDeny
  <1> QED
    BY <1>3, <1>4

LEMMA TypeAnswerDropped ==
  ASSUME TInv, NEW r \in Requests, AnswerDropped(r)
  PROVE  TInv'
  <1>1. req[r].op = "granted" => req[r].pair \in Pairs
    BY JobFacts DEF TInv, TypeOK
  <1>2. /\ UNCHANGED <<server, client, family, raced, ended>>
        /\ abandoned' \subseteq Pairs
    BY <1>1 DEF AnswerDropped, TInv, TypeOK
  <1>3. Goto(r, Idle) /\ Idle \in Job /\ ~Grants(Idle)
    BY DEF AnswerDropped, Job, Grants, Idle
  <1> QED
    BY <1>2, <1>3, TypeJobMoves

\* Tokens that are revoked stay known.
LEMMA KnownRevoked ==
  ASSUME TInv, UNCHANGED family, token' \in [Pairs -> {"none", "live", "revoked"}],
         \A p \in Pairs : token'[p] = token[p] \/ (token'[p] = "revoked" /\ p \in Known)
  PROVE  /\ Known' = Known
         /\ (\A p \in Pairs : IF token[p] = "none" THEN family[p] = NoPair
                              ELSE family[p] \in Known \ {NoPair})'
  <1>1. \A p \in Pairs : token'[p] = "none" <=> token[p] = "none"
    BY SessionAssumption DEF TInv, TypeOK, Known
  <1>2. Known' = Known
    BY <1>1 DEF Known
  <1> QED
    BY <1>1, <1>2 DEF TInv, Issued

LEMMA TypeLogout ==
  ASSUME TInv, NEW q \in Calls, Logout(q)
  PROVE  TInv'
  <1>1. call[q] \in Call /\ call[q] # NoCall
    BY NoCallIsCall DEF Logout, Accepted, TInv, TypeOK
  <1> DEFINE c == [call[q] EXCEPT !.state = "revoked"]
  <1>2. /\ c \in Call /\ c.token = call[q].token /\ c.kind = call[q].kind
        /\ c.token \in Known
    BY <1>1, CallMarked DEF TInv, Issued
  <1>3. CallGoes(q, c)
    BY DEF Logout
  <1> HIDE DEF c
  <1>4. /\ call' \in [Calls -> Call]
        /\ \A x \in Calls : call'[x] = IF x = q THEN c ELSE call[x]
    BY <1>2, <1>3, CallMoves DEF TInv
  <1>5. /\ token' = [token EXCEPT ![c.token] = "revoked"]
        /\ ended' = ended \cup {c.token}
    BY <1>2 DEF Logout
  <1>6. /\ token' \in [Pairs -> {"none", "live", "revoked"}]
        /\ \A p \in Pairs : token'[p] = token[p] \/ (token'[p] = "revoked" /\ p \in Known)
    BY <1>2, <1>5 DEF TInv, TypeOK
  <1>7. /\ Known' = Known
        /\ (\A p \in Pairs : IF token[p] = "none" THEN family[p] = NoPair
                             ELSE family[p] \in Known \ {NoPair})'
    BY <1>6, KnownRevoked DEF Logout
  <1>8. c.token \in Pairs
    BY <1>1, <1>2 DEF Logout, TInv, Issued, Known
  <1>9. TypeOK'
    BY <1>4, <1>5, <1>6, <1>8 DEF TInv, TypeOK, Logout
  <1>10. Issued'
    BY <1>1, <1>2, <1>4, <1>7 DEF TInv, Issued, Logout
  <1> QED
    BY <1>9, <1>10 DEF TInv

LEMMA TypeRevokeToken ==
  ASSUME TInv, NEW r \in Requests, RevokeToken(r)
  PROVE  TInv'
  <1>1. req[r] \in Job /\ req[r].op = "revoke" /\ req[r].token \in Pairs /\ req[r] # Idle
    BY JobFacts DEF RevokeToken, TInv, TypeOK, Idle
  <1> DEFINE job == [req[r] EXCEPT !.op = "issue"]
  <1>2. job \in Job /\ job.token \in Known /\ ~Grants(job)
    BY <1>1, RefreshGoesOn DEF TInv, Issued, Grants
  <1>3. Goto(r, job)
    BY DEF RevokeToken
  <1> HIDE DEF job
  <1>4. /\ req' \in [Requests -> Job]
        /\ \A s \in Requests : req'[s] = IF s = r THEN job ELSE req[s]
    BY <1>2, <1>3, JobMoves DEF TInv
  <1>5. /\ token' \in [Pairs -> {"none", "live", "revoked"}]
        /\ \A p \in Pairs : token'[p] = token[p] \/ (token'[p] = "revoked" /\ p \in Known)
    BY <1>1 DEF TInv, TypeOK, Issued, RevokeToken
  <1>6. /\ Known' = Known
        /\ (\A p \in Pairs : IF token[p] = "none" THEN family[p] = NoPair
                             ELSE family[p] \in Known \ {NoPair})'
    BY <1>5, KnownRevoked DEF RevokeToken, history
  <1>7. TypeOK'
    BY <1>4, <1>5 DEF TInv, TypeOK, RevokeToken, client, history
  <1>8. Issued'
    BY <1>2, <1>4, <1>6 DEF TInv, Issued, RevokeToken, client, history
  <1> QED
    BY <1>7, <1>8 DEF TInv

LEMMA TypeRevokeAll ==
  ASSUME TInv, RevokeAll
  PROVE  TInv'
  <1>1. /\ token' \in [Pairs -> {"none", "live", "revoked"}]
        /\ \A p \in Pairs : token'[p] = token[p] \/ (token'[p] = "revoked" /\ p \in Known)
    BY DEF TInv, TypeOK, RevokeAll, Live, Known
  <1>2. /\ Known' = Known
        /\ (\A p \in Pairs : IF token[p] = "none" THEN family[p] = NoPair
                             ELSE family[p] \in Known \ {NoPair})'
    BY <1>1, KnownRevoked DEF RevokeAll
  <1>3. TypeOK'
    BY <1>1 DEF TInv, TypeOK, RevokeAll, client, Live
  <1>4. Issued'
    BY <1>2 DEF TInv, Issued, RevokeAll, client
  <1> QED
    BY <1>3, <1>4 DEF TInv

LEMMA TypeAccessExpires ==
  ASSUME TInv, NEW p \in Pairs, AccessExpires(p)
  PROVE  TInv'
  <1>1. Known' = Known
    BY KnownStays DEF AccessExpires, history
  <1>2. TypeOK'
    BY DEF TInv, TypeOK, AccessExpires, client, history
  <1>3. Issued'
    BY <1>1 DEF TInv, Issued, AccessExpires, client, history
  <1> QED
    BY <1>2, <1>3 DEF TInv

LEMMA TypeIssuePair ==
  ASSUME TInv, NEW r \in Requests, NEW p \in Pairs, IssuePair(r, p)
  PROVE  TInv'
  <1>1. /\ req[r] \in Job /\ req[r].op = "issue" /\ req[r] # Idle
        /\ req[r].token \in Pairs \cup {NoPair} /\ req[r].tab \in Tabs \cup {NoTab}
        /\ req[r].token \in Known
    BY JobFacts DEF IssuePair, TInv, TypeOK, Issued, Idle
  <1>2. PICK from \in Pairs \cup {NoPair} : from = req[r].token
    BY <1>1
  <1> DEFINE job == [op |-> "granted", tab |-> req[r].tab, token |-> from, pair |-> p]
  <1>3. job \in Job /\ job.token = from /\ job.pair = p
    BY <1>1, <1>2, Jobs
  <1>4. Goto(r, job)
    BY <1>2 DEF IssuePair
  <1> HIDE DEF job
  <1>5. /\ req' \in [Requests -> Job]
        /\ \A s \in Requests : req'[s] = IF s = r THEN job ELSE req[s]
    BY <1>3, <1>4, JobMoves DEF TInv
  <1>6. /\ token' = [token EXCEPT ![p] = "live"]
        /\ family' = [family EXCEPT ![p] = IF from = NoPair THEN p ELSE family[from]]
    BY <1>2 DEF IssuePair
  <1>7. \/ from = NoPair
        \/ from \in Pairs /\ family[from] \in Known \ {NoPair} /\ family[from] \in Pairs
    BY <1>1, <1>2 DEF TInv, TypeOK, Issued, Known
  <1>8. Known' = Known \cup {p}
    BY <1>6 DEF Known, TInv, TypeOK
  <1>9. TypeOK'
    BY <1>5, <1>6, <1>7 DEF TInv, TypeOK, IssuePair, client
  <1>10. (\A x \in Pairs : IF token[x] = "none" THEN family[x] = NoPair
                           ELSE family[x] \in Known \ {NoPair})'
    BY <1>6, <1>7, <1>8, SessionAssumption DEF TInv, TypeOK, Issued
  <1>11. Issued'
    BY <1>1, <1>2, <1>3, <1>5, <1>8, <1>10 DEF TInv, Issued, IssuePair, client
  <1> QED
    BY <1>9, <1>11 DEF TInv

LEMMA TypeLoggedIn ==
  ASSUME TInv, NEW r \in Requests, LoggedIn(r)
  PROVE  TInv'
  <1>1. /\ req[r] \in Job /\ req[r].pair \in Pairs /\ req[r].pair \in Known
        /\ req[r] # Idle /\ req[r].tab \in Tabs
    BY JobFacts DEF LoggedIn, TInv, TypeOK, Issued, Grants, Idle
  <1>2. PICK p \in Pairs, t \in Tabs : p = req[r].pair /\ t = req[r].tab /\ p \in Known
    BY <1>1
  <1>3. Idle \in Job /\ ~Grants(Idle) /\ Goto(r, Idle)
    BY DEF LoggedIn, Job, Grants, Idle
  <1>4. /\ req' \in [Requests -> Job]
        /\ \A s \in Requests : req'[s] = IF s = r THEN Idle ELSE req[s]
    BY <1>3, JobMoves DEF TInv
  <1>5. stored' = p /\ memory' = [memory EXCEPT ![t] = p]
    BY <1>2 DEF LoggedIn
  <1>6. Known' = Known
    BY KnownStays DEF LoggedIn, server
  <1>7. TypeOK'
    BY <1>4, <1>5 DEF TInv, TypeOK, LoggedIn, server
  <1>8. Issued'
    BY <1>2, <1>3, <1>4, <1>5, <1>6 DEF TInv, TypeOK, Issued, LoggedIn, server
  <1> QED
    BY <1>7, <1>8 DEF TInv

\* The calls that are sent again.
LEMMA CallsResent ==
  ASSUME TypeOK, NEW t \in Tabs, NEW p \in Pairs, NEW qs,
         qs = {q \in Of(t) : call[q].state \in {"queued", "waiting"}},
         call' = Resent(qs, p)
  PROVE  /\ call' \in [Calls -> Call]
         /\ \A q \in Calls :
              /\ q \notin qs => call'[q] = call[q]
              /\ q \in qs => /\ call[q] # NoCall /\ call'[q] # NoCall
                             /\ call'[q].state = "sent"
                             /\ call'[q].kind = call[q].kind
                             /\ call'[q].tab = call[q].tab
                             /\ call'[q].token = call[q].token
  <1>1. ASSUME NEW q \in Calls
        PROVE  /\ q \notin qs => call'[q] = call[q]
               /\ q \in qs => /\ call[q] # NoCall /\ call'[q] \in Call \ {NoCall}
                              /\ call'[q].state = "sent"
                              /\ call'[q].kind = call[q].kind
                              /\ call'[q].tab = call[q].tab
                              /\ call'[q].token = call[q].token
    <2>1. CASE q \in qs
      <3>1. call[q] \in Call /\ call[q] # NoCall
        BY <2>1 DEF Of, TypeOK
      <3>2. call'[q] = [call[q] EXCEPT !.state = "sent", !.with = p]
        BY <2>1 DEF Resent
      <3>3. QED
        <4> DEFINE now == [call[q] EXCEPT !.state = "sent", !.with = p]
        <4>1. /\ now \in Call \ {NoCall} /\ now.state = "sent"
              /\ now.kind = call[q].kind /\ now.tab = call[q].tab /\ now.token = call[q].token
          BY <3>1, CallResent
        <4>2. call'[q] = now
          BY <3>2
        <4> HIDE DEF now
        <4>3. QED
          BY <2>1, <3>1, <4>1, <4>2
    <2>2. CASE q \notin qs
      BY <2>2 DEF Resent
    <2>3. QED
      BY <2>1, <2>2
  <1>2. DOMAIN call' = Calls /\ \A q \in Calls : call'[q] \in Call
    BY <1>1 DEF Resent, TypeOK
  <1>3. call' \in [Calls -> Call]
    BY <1>2 DEF Resent
  <1> QED
    BY <1>1, <1>3

LEMMA TypeRefreshed ==
  ASSUME TInv, NEW r \in Requests, Refreshed(r)
  PROVE  TInv'
  <1>1. /\ req[r] \in Job /\ req[r].pair \in Pairs /\ req[r].pair \in Known
        /\ req[r] # Idle /\ req[r].tab \in Tabs
    BY JobFacts DEF Refreshed, TInv, TypeOK, Issued, Grants, Idle
  <1>2. PICK p \in Pairs, t \in Tabs : p = req[r].pair /\ t = req[r].tab /\ p \in Known
    BY <1>1
  <1>3. Idle \in Job /\ ~Grants(Idle) /\ Goto(r, Idle)
    BY DEF Refreshed, Job, Grants, Idle
  <1>4. /\ req' \in [Requests -> Job]
        /\ \A s \in Requests : req'[s] = IF s = r THEN Idle ELSE req[s]
    BY <1>3, JobMoves DEF TInv
  <1>5. PICK qs : /\ qs = {q \in Of(t) : call[q].state \in {"queued", "waiting"}}
                  /\ call' = Resent(qs, p)
    BY <1>2 DEF Refreshed
  <1>6. /\ call' \in [Calls -> Call]
        /\ \A q \in Calls : \/ call'[q] = call[q]
                            \/ /\ call[q] # NoCall /\ call'[q].token = call[q].token
                               /\ call'[q].kind = call[q].kind
    BY <1>5, CallsResent DEF TInv
  <1>7. /\ stored' = p /\ refreshing' = refreshing \ {t}
    BY <1>2 DEF Refreshed
  <1>8. Known' = Known
    BY KnownStays DEF Refreshed, server
  <1>9. TypeOK'
    BY <1>4, <1>6, <1>7 DEF TInv, TypeOK, Refreshed, server
  <1>10. Issued'
    BY <1>2, <1>3, <1>4, <1>6, <1>7, <1>8 DEF TInv, TypeOK, Issued, Refreshed, server
  <1> QED
    BY <1>9, <1>10 DEF TInv

\* A page that goes away.
LEMMA TypePageGone ==
  ASSUME TInv, NEW t \in Tabs, NEW jobs \in [Requests -> Job],
         \A s \in Requests : jobs[s] \in {req[s], Idle},
         req' = Detached(t, jobs),
         call' = NoCallsOf(t),
         refreshing' = refreshing \ {t},
         stored' \in {stored, NoPair}, memory' \in {[memory EXCEPT ![t] = stored],
                                                    [memory EXCEPT ![t] = NoPair]},
         UNCHANGED <<server, sent, family, raced>>,
         ended' \subseteq Pairs, abandoned' \subseteq Pairs
  PROVE  TInv'
  <1>1. /\ req' \in [Requests -> Job]
        /\ \A s \in Requests : Alike(jobs[s], req'[s])
    BY DetachedJobs
  <1>2. \A s \in Requests : jobs[s] \in Job /\ req'[s] \in Job
    BY <1>1
  <1>3. \A s \in Requests : req'[s] # Idle =>
          /\ jobs[s] = req[s] /\ req[s] # Idle /\ req'[s].token = req[s].token
          /\ Grants(req'[s]) => Grants(req[s]) /\ req'[s].pair = req[s].pair
    BY <1>1, <1>2, JobFacts DEF Alike, Grants
  <1>4. \A s \in Requests : Grants(req'[s]) => req'[s] # Idle
    BY DEF Grants, Idle
  <1>5. /\ call' \in [Calls -> Call]
        /\ \A q \in Calls : call'[q] \in {NoCall, call[q]}
    BY CallsGone DEF TInv
  <1>6. Known' = Known /\ NoPair \in Known
    BY KnownStays DEF server, Known
  <1>7. TypeOK'
    BY <1>1, <1>5 DEF TInv, TypeOK, server
  <1>8. \A u \in Tabs : memory'[u] \in {memory[u], stored, NoPair}
    BY DEF TInv, TypeOK
  <1>9. Issued'
    BY <1>3, <1>4, <1>5, <1>6, <1>8 DEF TInv, Issued, server
  <1> QED
    BY <1>7, <1>9 DEF TInv

LEMMA TypeNothingToRefresh ==
  ASSUME TInv, NEW q \in Calls, NothingToRefresh(q)
  PROVE  TInv'
  <1>1. PICK t \in Tabs : t = call[q].tab
    BY NoCallIsCall, CallFacts DEF NothingToRefresh, Refused, TInv, TypeOK
  <1>2. /\ stored' = NoPair
        /\ memory' = [memory EXCEPT ![t] = NoPair]
        /\ refreshing' = refreshing \ {t}
        /\ call' = NoCallsOf(t)
        /\ req' = Detached(t, req)
        /\ UNCHANGED <<server, sent, family, raced>>
    BY <1>1 DEF NothingToRefresh, SignOut, history
  <1>3. req \in [Requests -> Job] /\ ended' \subseteq Pairs /\ abandoned' \subseteq Pairs
    BY DEF NothingToRefresh, history, TInv, TypeOK
  <1> QED
    BY <1>2, <1>3, TypePageGone

LEMMA TypeNotRefreshed ==
  ASSUME TInv, NEW r \in Requests, NotRefreshed(r)
  PROVE  TInv'
  <1>1. PICK t \in Tabs : t = req[r].tab
    BY JobFacts DEF NotRefreshed, TInv, TypeOK, Idle
  <1>2. PICK jobs : jobs = [req EXCEPT ![r] = Idle]
    OBVIOUS
  <1>3. /\ stored' = NoPair
        /\ memory' = [memory EXCEPT ![t] = NoPair]
        /\ refreshing' = refreshing \ {t}
        /\ call' = NoCallsOf(t)
        /\ req' = Detached(t, jobs)
        /\ UNCHANGED <<server, sent, family, raced>>
    BY <1>1, <1>2 DEF NotRefreshed, SignOut
  <1>4. ended' \subseteq Pairs /\ abandoned' \subseteq Pairs
    BY DEF NotRefreshed, TInv, TypeOK
  <1>5. jobs \in [Requests -> Job] /\ \A s \in Requests : jobs[s] \in {req[s], Idle}
    BY <1>2 DEF TInv, TypeOK, Job
  <1> QED
    BY <1>3, <1>4, <1>5, TypePageGone

LEMMA TypeReload ==
  ASSUME TInv, NEW t \in Tabs, Reload(t)
  PROVE  TInv'
  <1>1. req \in [Requests -> Job] /\ abandoned' \subseteq Pairs
    BY DEF Reload, TInv, TypeOK
  <1>2. ended' \subseteq Pairs
    <2>1. \A s \in Refreshes(t) : req[s].token \in Pairs
      BY <1>1, JobFacts DEF Refreshes
    <2>2. QED
      BY <2>1 DEF Reload, TInv, TypeOK
  <1>3. UNCHANGED <<server, sent, family, raced>>
    BY DEF Reload
  <1> QED
    BY <1>1, <1>2, <1>3, TypePageGone DEF Reload

LEMMA TypeStep ==
  ASSUME TInv, [Next]_vars
  PROVE  TInv'
  <1>1. ASSUME NEW q \in Calls, CallStep(q)
        PROVE  TInv'
    BY <1>1, TypeSend, TypeEnqueue, TypeNothingToRefresh, TypeGiveUp, TypeStartRefresh, TypeAnswer,
       TypeLogout, TypeSettleLogout, TypeCallFails DEF CallStep
  <1>2. ASSUME NEW r \in Requests, RequestStep(r)
        PROVE  TInv'
    BY <1>2, TypeLogin, TypeFindToken, TypeRevokeToken, TypeIssuePair, TypeLoggedIn, TypeRefreshed,
       TypeNotRefreshed, TypeAnswerDropped, TypeRequestFails DEF RequestStep
  <1>3. CASE World
    BY <1>3, TypeReload, TypeAccessExpires, TypeRevokeAll DEF World
  <1>4. CASE UNCHANGED vars
    BY <1>4 DEF vars, server, client, history, TInv, TypeOK, Issued, Known
  <1> QED
    BY <1>1, <1>2, <1>3, <1>4 DEF Next

\* Every token, call and job keeps its type, whatever the tabs and the server do.
THEOREM TypeCorrect == Spec => []TypeOK
  <1>1. Init => TInv
    BY TypeInit
  <1>2. TInv /\ [Next]_vars => TInv'
    BY TypeStep
  <1>3. TInv => TypeOK
    BY DEF TInv
  <1> QED
    BY <1>1, <1>2, <1>3, PTL DEF Spec

-----------------------------------------------------------------------------
(* What the steps do to the jobs and the tokens. *)

Others(r) == \A s \in Requests \ {r} : req'[s] = req[s]

\* The next await of the same job.
Continues(r, op) ==
  /\ req'[r].op = op /\ req'[r] # Idle
  /\ req'[r].token = req[r].token /\ req'[r].tab = req[r].tab
  /\ Others(r)

LEMMA StartRefreshDoes ==
  ASSUME TInv, NEW q \in Calls, NEW r \in Requests, StartRefresh(q, r)
  PROVE  /\ call[q] # NoCall /\ call[q].tab \in Tabs \ refreshing
         /\ call'[q].state = "waiting" /\ call'[q].tab = call[q].tab
         /\ \A x \in Calls \ {q} : call'[x] = call[x]
         /\ refreshing' = refreshing \cup {call[q].tab}
         /\ stored \in Pairs
         /\ req[r] = Idle
         /\ req'[r].op = "find" /\ req'[r] # Idle
         /\ req'[r].tab = call[q].tab /\ req'[r].token = stored
         /\ Others(r)
  <1>1. call[q] \in Call /\ call[q] # NoCall /\ call[q].tab \in Tabs
    BY NoCallIsCall, CallFacts DEF StartRefresh, Refused, TInv, TypeOK
  <1> DEFINE c == [call[q] EXCEPT !.state = "waiting", !.retried = TRUE]
             job == [op |-> "find", tab |-> call[q].tab, token |-> stored]
  <1>2. c \in Call /\ c.state = "waiting" /\ c.tab = call[q].tab /\ CallGoes(q, c)
    BY <1>1, CallWaits DEF StartRefresh
  <1>3. stored \in Pairs
    BY DEF StartRefresh, TInv, TypeOK
  <1>4. /\ job \in Job /\ job # Idle /\ job.op = "find" /\ job.tab = call[q].tab
        /\ job.token = stored /\ Goto(r, job)
    BY <1>1, <1>3, Jobs DEF StartRefresh, Idle
  <1> HIDE DEF c, job
  <1>5. call'[q] = c /\ \A x \in Calls \ {q} : call'[x] = call[x]
    BY <1>2, CallMoves DEF TInv
  <1>6. req'[r] = job /\ Others(r)
    BY <1>4, JobMoves DEF TInv, Others
  <1> QED
    BY <1>1, <1>2, <1>3, <1>4, <1>5, <1>6 DEF StartRefresh

LEMMA LoginDoes ==
  ASSUME TInv, NEW r \in Requests, NEW t \in Tabs, Login(r, t)
  PROVE  /\ req[r] = Idle
         /\ req'[r].op = "issue" /\ req'[r] # Idle /\ req'[r].token = NoPair
         /\ Others(r)
  <1> DEFINE job == [op |-> "issue", tab |-> t, token |-> NoPair]
  <1>1. job \in Job /\ job # Idle /\ job.op = "issue" /\ job.token = NoPair /\ Goto(r, job)
    BY Jobs DEF Login, Idle
  <1> HIDE DEF job
  <1>2. req'[r] = job /\ Others(r)
    BY <1>1, JobMoves DEF TInv, Others
  <1> QED
    BY <1>1, <1>2 DEF Login

LEMMA DenyDoes ==
  ASSUME TInv, NEW r \in Requests, req[r] # Idle, req[r].token \in Pairs,
         NEW why \in {"invalid", "error"}, Deny(r, why)
  PROVE  Continues(r, "denied") /\ req'[r].why = why
  <1>1. PICK job \in Job : /\ Goto(r, job)
                           /\ job # Idle /\ job.op = "denied"
                           /\ job.token = req[r].token /\ job.tab = req[r].tab
                           /\ job.why = why
    BY DenyJob
  <1>2. req'[r] = job /\ Others(r)
    BY <1>1, JobMoves DEF TInv, Others
  <1> QED
    BY <1>1, <1>2 DEF Continues

LEMMA FindTokenDoes ==
  ASSUME TInv, NEW r \in Requests, FindToken(r)
  PROVE  /\ req[r] # Idle /\ req[r].op = "find" /\ req[r].token \in Pairs
         /\ \/ Continues(r, "revoke") /\ req[r].token \in Live
            \/ /\ Continues(r, "denied")
               /\ req'[r].why = "invalid" => req[r].token \notin Live
  <1>1. req[r] \in Job /\ req[r].op = "find" /\ req[r] # Idle /\ req[r].token \in Pairs
    BY JobFacts DEF FindToken, TInv, TypeOK, Idle
  <1> DEFINE job == [req[r] EXCEPT !.op = "revoke"]
  <1>2. /\ job \in Job /\ job.op = "revoke" /\ job.tab = req[r].tab /\ job.token = req[r].token
    BY <1>1, RefreshGoesOn
  <1>3. \/ Goto(r, job) /\ req[r].token \in Live
        \/ Deny(r, "invalid") /\ req[r].token \notin Live
        \/ Deny(r, "error")
    BY DEF FindToken
  <1> HIDE DEF job
  <1>4. ASSUME Goto(r, job)
        PROVE  Continues(r, "revoke")
    <2>1. req'[r] = job /\ Others(r)
      BY <1>2, <1>4, JobMoves DEF TInv, Others
    <2>2. job # Idle
      BY <1>2 DEF Idle
    <2>3. QED
      BY <1>2, <2>1, <2>2 DEF Continues
  <1>5. ASSUME NEW why \in {"invalid", "error"}, Deny(r, why)
        PROVE  Continues(r, "denied") /\ req'[r].why = why
    BY <1>1, <1>5, DenyDoes
  <1>6. CASE Goto(r, job) /\ req[r].token \in Live
    BY <1>1, <1>4, <1>6
  <1>7. CASE Deny(r, "invalid") /\ req[r].token \notin Live
    BY <1>1, <1>5, <1>7
  <1>8. CASE Deny(r, "error")
    BY <1>1, <1>5, <1>8
  <1> QED
    BY <1>3, <1>6, <1>7, <1>8

LEMMA RevokeTokenDoes ==
  ASSUME TInv, NEW r \in Requests, RevokeToken(r)
  PROVE  /\ req[r] # Idle /\ req[r].op = "revoke" /\ req[r].token \in Pairs
         /\ Continues(r, "issue")
         /\ Live' = Live \ {req[r].token}
  <1>1. req[r] \in Job /\ req[r].op = "revoke" /\ req[r] # Idle /\ req[r].token \in Pairs
    BY JobFacts DEF RevokeToken, TInv, TypeOK, Idle
  <1> DEFINE job == [req[r] EXCEPT !.op = "issue"]
  <1>2. /\ job \in Job /\ job.op = "issue" /\ job.tab = req[r].tab /\ job.token = req[r].token
        /\ Goto(r, job)
    BY <1>1, RefreshGoesOn DEF RevokeToken
  <1> HIDE DEF job
  <1>3. job # Idle
    BY <1>2 DEF Idle
  <1>4. req'[r] = job /\ Others(r)
    BY <1>2, JobMoves DEF TInv, Others
  <1>5. Live' = Live \ {req[r].token}
    BY <1>1 DEF RevokeToken, Live, TInv, TypeOK
  <1> QED
    BY <1>1, <1>2, <1>3, <1>4, <1>5 DEF Continues

LEMMA IssuePairDoes ==
  ASSUME TInv, NEW r \in Requests, NEW p \in Pairs, IssuePair(r, p)
  PROVE  /\ req[r] # Idle /\ req[r].op = "issue" /\ req[r].token \in Known
         /\ Continues(r, "granted") /\ req'[r].pair = p
         /\ p \notin Known
         /\ Live' = Live \cup {p}
         /\ \A x \in Pairs \ {p} : family'[x] = family[x]
         /\ family'[p] = IF req[r].token = NoPair THEN p ELSE family[req[r].token]
  <1>1. /\ req[r] \in Job /\ req[r].op = "issue" /\ req[r] # Idle /\ req[r].token \in Known
        /\ req[r].token \in Pairs \cup {NoPair} /\ req[r].tab \in Tabs \cup {NoTab}
    BY JobFacts DEF IssuePair, TInv, TypeOK, Issued, Idle
  <1> DEFINE job == [op |-> "granted", tab |-> req[r].tab, token |-> req[r].token, pair |-> p]
  <1>2. /\ job \in Job /\ job.op = "granted" /\ job.tab = req[r].tab /\ job.token = req[r].token
        /\ job.pair = p /\ Goto(r, job)
    BY <1>1, Jobs DEF IssuePair
  <1> HIDE DEF job
  <1>3. job # Idle
    BY <1>2 DEF Idle
  <1>4. req'[r] = job /\ Others(r)
    BY <1>2, JobMoves DEF TInv, Others
  <1>5. p \notin Known
    BY SessionAssumption DEF IssuePair, Known
  <1>6. Live' = Live \cup {p}
    BY DEF IssuePair, Live, TInv, TypeOK
  <1>7. /\ \A x \in Pairs \ {p} : family'[x] = family[x]
        /\ family'[p] = IF req[r].token = NoPair THEN p ELSE family[req[r].token]
    BY DEF IssuePair, TInv, TypeOK
  <1> QED
    BY <1>1, <1>2, <1>3, <1>4, <1>5, <1>6, <1>7 DEF Continues

LEMMA RequestFailsDoes ==
  ASSUME TInv, NEW r \in Requests, RequestFails(r)
  PROVE  /\ req[r] # Idle
         /\ IF req[r].token = NoPair THEN req'[r] = Idle /\ Others(r)
            ELSE Continues(r, "denied") /\ req'[r].why = "error"
  <1>1. req[r] \in Job /\ req[r] # Idle /\ req[r].token \in Pairs \cup {NoPair}
    BY JobFacts DEF RequestFails, TInv, TypeOK
  <1>2. CASE req[r].token = NoPair
    <2>1. Goto(r, Idle) /\ Idle \in Job
      BY <1>2 DEF RequestFails, Job
    <2>2. QED
      BY <1>1, <1>2, <2>1, JobMoves DEF TInv, Others
  <1>3. CASE req[r].token # NoPair
    BY <1>1, <1>3, DenyDoes DEF RequestFails
  <1> QED
    BY <1>2, <1>3

LEMMA JobEnds ==
  ASSUME TInv, NEW r \in Requests, Goto(r, Idle)
  PROVE  req'[r] = Idle /\ Others(r)
  <1>1. Idle \in Job
    BY DEF Job
  <1> QED
    BY <1>1, JobMoves DEF TInv, Others

LEMMA PageGoneDoes ==
  ASSUME TInv, NEW t \in Tabs, NEW jobs \in [Requests -> Job],
         \A s \in Requests : jobs[s] \in {req[s], Idle},
         req' = Detached(t, jobs)
  PROVE  \A s \in Requests :
           \/ req'[s] = Idle
           \/ /\ req[s] # Idle /\ jobs[s] = req[s] /\ req'[s].op = req[s].op
              /\ req'[s].token = req[s].token
              /\ req[s].op = "granted" => req'[s].pair = req[s].pair
              /\ req[s].op = "denied" => req'[s].why = req[s].why
              /\ IF req[s].tab = t THEN req'[s].tab = NoTab ELSE req'[s] = req[s]
  <1> SUFFICES ASSUME NEW s \in Requests, req'[s] # Idle
               PROVE  /\ req[s] # Idle /\ jobs[s] = req[s] /\ req'[s].op = req[s].op
                      /\ req'[s].token = req[s].token
                      /\ req[s].op = "granted" => req'[s].pair = req[s].pair
                      /\ req[s].op = "denied" => req'[s].why = req[s].why
                      /\ IF req[s].tab = t THEN req'[s].tab = NoTab ELSE req'[s] = req[s]
    OBVIOUS
  <1>1. /\ Alike(jobs[s], req'[s])
        /\ jobs[s] # Idle /\ jobs[s].tab # t => req'[s] = jobs[s]
        /\ jobs[s] # Idle /\ jobs[s].tab = t => req'[s].tab = NoTab
    BY DetachedJobs
  <1>2. req'[s] \in Job /\ jobs[s] \in Job
    BY <1>1 DEF Alike
  <1>3. jobs[s] # Idle
    BY <1>1, <1>2, JobFacts DEF Alike
  <1>4. jobs[s] = req[s]
    BY <1>3
  <1> QED
    BY <1>1, <1>3, <1>4 DEF Alike

-----------------------------------------------------------------------------
(* The queue: whoever waits is answered. *)

SameHolders ==
  \A s \in Requests : /\ Holds(req'[s]) <=> Holds(req[s])
                      /\ Holds(req[s]) => req'[s].tab = req[s].tab

LEMMA OneRefreshKept ==
  ASSUME QInv, SameHolders, UNCHANGED refreshing
  PROVE  OneRefresh'
  <1>1. \A t \in Tabs : Refreshes(t)' = Refreshes(t)
    BY DEF Refreshes, SameHolders, Holds
  <1> QED
    BY <1>1 DEF QInv, OneRefresh

LEMMA ContinuesHolding ==
  ASSUME NEW r \in Requests, NEW op, Continues(r, op), req[r] # Idle
  PROVE  SameHolders
  BY DEF Continues, Others, SameHolders, Holds

\* A step after which no call waits that did not.
LEMMA AwaitedKept ==
  ASSUME QInv, UNCHANGED refreshing,
         \A q \in Calls : call'[q].state \in {"queued", "waiting"} =>
           \/ call'[q] = call[q]
           \/ call'[q].tab \in refreshing
  PROVE  Awaited'
  BY DEF QInv, Awaited

LEMMA QueueInit == ASSUME Init PROVE QInv
  <1>1. \A t \in Tabs : Refreshes(t) = {}
    BY DEF Init, Refreshes
  <1> QED
    BY <1>1, NoCallIsCall DEF Init, QInv, Awaited, OneRefresh

LEMMA QueueCallMoves ==
  ASSUME TInv, QInv, NEW q \in Calls, NEW c \in Call, CallGoes(q, c),
         c.state \notin {"queued", "waiting"} \/ c.tab \in refreshing,
         UNCHANGED <<refreshing, req>>
  PROVE  QInv'
  <1>1. call'[q] = c /\ \A x \in Calls \ {q} : call'[x] = call[x]
    BY CallMoves DEF TInv
  <1>2. Awaited'
    BY <1>1, AwaitedKept
  <1>3. OneRefresh'
    BY OneRefreshKept DEF SameHolders
  <1> QED
    BY <1>2, <1>3 DEF QInv

LEMMA QueueCall ==
  ASSUME TInv, QInv, NEW q \in Calls, Answer(q) \/ GiveUp(q) \/ SettleLogout(q) \/ CallFails(q)
  PROVE  QInv'
  <1>1. CallGoes(q, NoCall) /\ UNCHANGED <<refreshing, req>>
    BY DEF Answer, GiveUp, SettleLogout, CallFails, LogOut
  <1> QED
    BY <1>1, NoCallIsCall, QueueCallMoves

LEMMA QueueSend ==
  ASSUME TInv, QInv, NEW q \in Calls, NEW t \in Tabs, NEW kind \in {"data", "logout"},
         Send(q, t, kind)
  PROVE  QInv'
  <1> DEFINE c == [state |-> "sent", tab |-> t, kind |-> kind, retried |-> FALSE,
                   with |-> stored, token |-> IF kind = "logout" THEN memory[t] ELSE NoPair]
  <1>1. c \in Call /\ c.state = "sent"
    BY DEF TInv, TypeOK, Call
  <1>2. CallGoes(q, c) /\ UNCHANGED <<refreshing, req>>
    BY DEF Send
  <1> HIDE DEF c
  <1> QED
    BY <1>1, <1>2, QueueCallMoves

LEMMA QueueMarked ==
  ASSUME TInv, QInv, NEW q \in Calls, Enqueue(q) \/ Logout(q)
  PROVE  QInv'
  <1>1. call[q] \in Call /\ call[q] # NoCall
    BY NoCallIsCall DEF Enqueue, Refused, Logout, Accepted, TInv, TypeOK
  <1>2. CASE Enqueue(q)
    <2> DEFINE c == [call[q] EXCEPT !.state = "queued"]
    <2>1. c \in Call /\ c.tab = call[q].tab
      BY <1>1, CallMarked
    <2>2. CallGoes(q, c) /\ UNCHANGED <<refreshing, req>> /\ call[q].tab \in refreshing
      BY <1>2 DEF Enqueue
    <2> HIDE DEF c
    <2> QED
      BY <2>1, <2>2, QueueCallMoves
  <1>3. CASE Logout(q)
    <2> DEFINE c == [call[q] EXCEPT !.state = "revoked"]
    <2>1. c \in Call /\ c.state = "revoked"
      BY <1>1, CallMarked
    <2>2. CallGoes(q, c) /\ UNCHANGED <<refreshing, req>>
      BY <1>3 DEF Logout
    <2> HIDE DEF c
    <2> QED
      BY <2>1, <2>2, QueueCallMoves
  <1> QED
    BY <1>2, <1>3

LEMMA QueueStartRefresh ==
  ASSUME TInv, QInv, NEW q \in Calls, NEW r \in Requests, StartRefresh(q, r)
  PROVE  QInv'
  <1>1. PICK t \in Tabs : t = call[q].tab /\ t \notin refreshing
    BY StartRefreshDoes
  <1>2. /\ refreshing' = refreshing \cup {t}
        /\ call'[q].tab = t /\ \A x \in Calls \ {q} : call'[x] = call[x]
        /\ req[r] = Idle /\ req'[r] # Idle /\ req'[r].tab = t /\ req'[r].token # NoPair
        /\ Others(r)
    BY <1>1, StartRefreshDoes, SessionAssumption
  <1>3. Awaited'
    BY <1>2 DEF QInv, Awaited
  <1>4. Refreshes(t)' = {r}
    BY <1>1, <1>2 DEF QInv, OneRefresh, Refreshes, Others
  <1>5. \A u \in Tabs \ {t} : Refreshes(u)' = Refreshes(u)
    BY <1>2 DEF Refreshes, Others
  <1>6. OneRefresh'
    BY <1>1, <1>2, <1>4, <1>5 DEF QInv, OneRefresh
  <1> QED
    BY <1>3, <1>6 DEF QInv

LEMMA QueueJob ==
  ASSUME TInv, QInv, SameHolders, UNCHANGED <<refreshing, call>>
  PROVE  QInv'
  <1>1. Awaited'
    BY AwaitedKept
  <1> QED
    BY <1>1, OneRefreshKept DEF QInv

LEMMA QueueServer ==
  ASSUME TInv, QInv, NEW r \in Requests,
         \/ \E t \in Tabs : Login(r, t)
         \/ FindToken(r) \/ RevokeToken(r)
         \/ \E p \in Pairs : IssuePair(r, p)
         \/ RequestFails(r)
         \/ LoggedIn(r)
         \/ AnswerDropped(r)
  PROVE  QInv'
  <1>1. UNCHANGED <<refreshing, call>>
    BY DEF Login, FindToken, RevokeToken, IssuePair, RequestFails, LoggedIn, AnswerDropped, client
  <1>a. SameHolders => QInv'
    BY <1>1, QueueJob
  <1>2. ASSUME NEW t \in Tabs, Login(r, t)
        PROVE  SameHolders
    BY <1>2, LoginDoes DEF SameHolders, Holds, Others
  <1>3. CASE FindToken(r)
    BY <1>a, <1>3, FindTokenDoes, ContinuesHolding
  <1>4. CASE RevokeToken(r)
    BY <1>a, <1>4, RevokeTokenDoes, ContinuesHolding
  <1>5. ASSUME NEW p \in Pairs, IssuePair(r, p)
        PROVE  SameHolders
    BY <1>5, IssuePairDoes, ContinuesHolding
  <1>6. CASE RequestFails(r)
    <2>1. CASE req[r].token = NoPair
      BY <1>a, <1>6, <2>1, RequestFailsDoes DEF SameHolders, Holds, Others
    <2>2. CASE req[r].token # NoPair
      BY <1>a, <1>6, <2>2, RequestFailsDoes, ContinuesHolding
    <2>3. QED
      BY <2>1, <2>2
  <1>7. CASE LoggedIn(r)
    <2>1. req'[r] = Idle /\ Others(r) /\ req[r].token = NoPair
      BY <1>7, JobEnds DEF LoggedIn
    <2>2. QED
      BY <1>a, <2>1 DEF SameHolders, Holds, Others
  <1>8. CASE AnswerDropped(r)
    <2>1. req'[r] = Idle /\ Others(r) /\ req[r].tab = NoTab
      BY <1>8, JobEnds DEF AnswerDropped
    <2>2. \A t \in Tabs : Refreshes(t)' = Refreshes(t)
      BY <2>1, SessionAssumption DEF Refreshes, Others
    <2>3. OneRefresh'
      BY <1>1, <2>2 DEF QInv, OneRefresh
    <2>4. Awaited'
      BY <1>1, AwaitedKept
    <2>5. QED
      BY <2>3, <2>4 DEF QInv
  <1> QED
    BY <1>1, <1>2, <1>3, <1>4, <1>5, <1>6, <1>7, <1>8, <1>a

LEMMA QueueRefreshed ==
  ASSUME TInv, QInv, NEW r \in Requests, Refreshed(r)
  PROVE  QInv'
  <1>1. /\ req[r] \in Job /\ req[r].pair \in Pairs
        /\ req[r] # Idle /\ req[r].tab \in Tabs /\ req[r].token # NoPair
    BY JobFacts DEF Refreshed, TInv, TypeOK, Idle
  <1>2. PICK p \in Pairs, t \in Tabs : p = req[r].pair /\ t = req[r].tab
    BY <1>1
  <1>3. req'[r] = Idle /\ Others(r)
    BY JobEnds DEF Refreshed
  <1>4. PICK qs : /\ qs = {q \in Of(t) : call[q].state \in {"queued", "waiting"}}
                  /\ call' = Resent(qs, p)
    BY <1>2 DEF Refreshed
  <1>5. \A q \in Calls : /\ q \notin qs => call'[q] = call[q]
                         /\ q \in qs => call'[q].state = "sent"
    BY <1>4, CallsResent DEF TInv
  <1>6. refreshing' = refreshing \ {t}
    BY <1>2 DEF Refreshed
  <1>7. \A q \in Calls : call[q].state \in {"queued", "waiting"} /\ call[q].tab = t => q \in qs
    BY <1>4, NoCallIsCall DEF Of
  <1>8. Awaited'
    BY <1>5, <1>6, <1>7 DEF QInv, Awaited
  <1>9. r \in Refreshes(t)
    BY <1>1, <1>2 DEF Refreshes
  <1>10. Refreshes(t)' = {}
    BY <1>3, <1>9 DEF Refreshes, Others, QInv, OneRefresh
  <1>11. \A u \in Tabs \ {t} : Refreshes(u)' = Refreshes(u)
    BY <1>2, <1>3 DEF Refreshes, Others
  <1>12. OneRefresh'
    BY <1>6, <1>10, <1>11 DEF QInv, OneRefresh
  <1> QED
    BY <1>8, <1>12 DEF QInv

LEMMA QueuePageGone ==
  ASSUME TInv, QInv, NEW t \in Tabs, NEW jobs \in [Requests -> Job],
         \A s \in Requests : jobs[s] = req[s] \/ (jobs[s] = Idle /\ req[s].tab = t),
         req' = Detached(t, jobs),
         call' = NoCallsOf(t),
         refreshing' = refreshing \ {t}
  PROVE  QInv'
  <1>1. \A s \in Requests :
           \/ req'[s] = Idle
           \/ /\ req[s] # Idle
              /\ IF req[s].tab = t THEN req'[s].tab = NoTab ELSE req'[s] = req[s]
    BY PageGoneDoes
  <1>2. \A s \in Requests : req[s] # Idle /\ req[s].tab # t => req'[s] = req[s]
    BY DetachedJobs
  <1>3. \A q \in Calls : /\ call'[q] \in {NoCall, call[q]}
                         /\ call'[q] # NoCall => call[q].tab # t
    BY CallsGone DEF TInv
  <1>4. Awaited'
    BY <1>3, NoCallIsCall DEF QInv, Awaited
  <1>5. Refreshes(t)' = {}
    BY <1>1, SessionAssumption DEF Refreshes
  <1>6. \A u \in Tabs \ {t} : Refreshes(u)' = Refreshes(u)
    BY <1>1, <1>2, SessionAssumption DEF Refreshes
  <1>7. OneRefresh'
    BY <1>5, <1>6 DEF QInv, OneRefresh
  <1> QED
    BY <1>4, <1>7 DEF QInv

LEMMA QueueReload ==
  ASSUME TInv, QInv, NEW t \in Tabs, Reload(t)
  PROVE  QInv'
  <1>1. req \in [Requests -> Job]
    BY DEF TInv, TypeOK
  <1> QED
    BY <1>1, QueuePageGone DEF Reload

LEMMA QueueNothingToRefresh ==
  ASSUME TInv, QInv, NEW q \in Calls, NothingToRefresh(q)
  PROVE  QInv'
  <1>1. req \in [Requests -> Job]
    BY DEF TInv, TypeOK
  <1>2. PICK t \in Tabs : t = call[q].tab
    BY NoCallIsCall, CallFacts DEF NothingToRefresh, Refused, TInv, TypeOK
  <1>3. req' = Detached(t, req) /\ call' = NoCallsOf(t) /\ refreshing' = refreshing \ {t}
    BY <1>2 DEF NothingToRefresh, SignOut
  <1> QED
    BY <1>1, <1>3, QueuePageGone

LEMMA QueueNotRefreshed ==
  ASSUME TInv, QInv, NEW r \in Requests, NotRefreshed(r)
  PROVE  QInv'
  <1>1. PICK t \in Tabs : t = req[r].tab
    BY JobFacts DEF NotRefreshed, TInv, TypeOK, Idle
  <1>2. PICK jobs : jobs = [req EXCEPT ![r] = Idle]
    OBVIOUS
  <1>3. req' = Detached(t, jobs) /\ call' = NoCallsOf(t) /\ refreshing' = refreshing \ {t}
    BY <1>1, <1>2 DEF NotRefreshed, SignOut
  <1>4. /\ jobs \in [Requests -> Job]
        /\ \A s \in Requests : jobs[s] = req[s] \/ (jobs[s] = Idle /\ req[s].tab = t)
    BY <1>1, <1>2 DEF TInv, TypeOK, Job
  <1> QED
    BY <1>3, <1>4, QueuePageGone

LEMMA QueueStep ==
  ASSUME TInv, QInv, [Next]_vars
  PROVE  QInv'
  <1>1. ASSUME NEW q \in Calls, CallStep(q)
        PROVE  QInv'
    BY <1>1, QueueSend, QueueMarked, QueueNothingToRefresh, QueueCall, QueueStartRefresh DEF CallStep
  <1>2. ASSUME NEW r \in Requests, RequestStep(r)
        PROVE  QInv'
    BY <1>2, QueueServer, QueueRefreshed, QueueNotRefreshed DEF RequestStep
  <1>3. CASE World
    <2>1. ASSUME UNCHANGED <<req, call, refreshing>>
          PROVE  QInv'
      BY <2>1, QueueJob DEF SameHolders
    <2>2. QED
      BY <1>3, <2>1, QueueReload DEF World, AccessExpires, RevokeAll, client
  <1>4. CASE UNCHANGED vars
    BY <1>4, QueueJob DEF vars, client, SameHolders
  <1> QED
    BY <1>1, <1>2, <1>3, <1>4 DEF Next

\* As long as a call waits for a refresh, one is under way for its tab: whatever
\* fails, and whichever page goes, no call is left in the queue.
THEOREM QueueAwaited == Spec => []QueuedIsAwaited
  <1>1. Init => TInv /\ QInv
    BY TypeInit, QueueInit
  <1>2. TInv /\ QInv /\ [Next]_vars => (TInv /\ QInv)'
    BY TypeStep, QueueStep
  <1>3. TInv /\ QInv => QueuedIsAwaited
    <2>1. ASSUME TInv, QInv, NEW q \in Calls, call[q].state \in {"queued", "waiting"}
          PROVE  Refreshes(call[q].tab) # {}
      BY <2>1, NoCallIsCall, CallFacts DEF TInv, TypeOK, QInv, Awaited, OneRefresh
    <2>2. QED
      BY <2>1 DEF QueuedIsAwaited
  <1> QED
    BY <1>1, <1>2, <1>3, PTL DEF Spec

-----------------------------------------------------------------------------
(* Nothing a browser has let go of stays usable. *)

\* What a step must do: a job or a logout that is done with a token leaves it dead, and
\* what was stored or on its way is kept, dead or written off.
LEMMA KeptStep ==
  ASSUME TInv, SInv,
         \A p \in Known : p \in Live' => p \in Live,
         \A s \in Requests : Used(req'[s]) =>
           \/ Used(req[s]) /\ req'[s].token = req[s].token
           \/ req'[s].token \notin Live',
         \A q \in Calls : call'[q].state = "revoked" =>
           call'[q] = call[q] \/ call'[q].token \notin Live',
         Live' \subseteq Live,
         stored \in Live' => stored' = stored \/ stored \in abandoned',
         \A s \in Requests : Grants(req[s]) =>
           \/ Grants(req'[s]) /\ req'[s].pair = req[s].pair
           \/ req[s].pair \in abandoned' \cup {stored'},
         abandoned \subseteq abandoned'
  PROVE  SInv'
  <1>1. \A s \in Requests : Used(req[s]) => req[s].token \in Known /\ req[s].token \notin Live
    BY DEF TInv, Issued, SInv, Spent, Used, Holds
  <1>2. \A q \in Calls : call[q].state = "revoked" =>
          call[q].token \in Known /\ call[q].token \notin Live
    BY NoCallIsCall DEF TInv, Issued, SInv, Spent
  <1>3. Spent'
    BY <1>1, <1>2 DEF Spent
  <1>4. ASSUME NEW p \in Live'
        PROVE  \/ p = stored'
               \/ \E s \in Requests : req'[s].op = "granted" /\ req'[s].pair = p
               \/ p \in abandoned'
    <2>1. p \in Live
      BY <1>4
    <2>2. CASE p = stored
      BY <2>2, <1>4
    <2>3. CASE p \in abandoned
      BY <2>3
    <2>4. ASSUME NEW s \in Requests, req[s].op = "granted", req[s].pair = p
          PROVE  \/ p = stored'
                 \/ \E x \in Requests : req'[x].op = "granted" /\ req'[x].pair = p
                 \/ p \in abandoned'
      BY <2>4 DEF Grants
    <2>5. QED
      BY <2>1, <2>2, <2>3, <2>4 DEF SInv, LiveIsKept
  <1>5. LiveIsKept'
    BY <1>4 DEF LiveIsKept
  <1> QED
    BY <1>3, <1>5 DEF SInv

LEMMA KeptInit == ASSUME Init PROVE SInv
  <1>1. Live = {}
    BY DEF Init, Live
  <1> QED
    BY <1>1 DEF SInv, Spent, LiveIsKept

\* Steps of the client that leave jobs and tokens alone.
LEMMA KeptCall ==
  ASSUME TInv, SInv, UNCHANGED <<token, req>>, abandoned \subseteq abandoned',
         stored \in Live => stored' = stored \/ stored \in abandoned',
         \A q \in Calls : call'[q].state = "revoked" => call'[q] = call[q]
  PROVE  SInv'
  <1>1. Live' = Live
    BY DEF Live
  <1> QED
    BY <1>1, KeptStep

LEMMA KeptCallEnds ==
  ASSUME TInv, SInv, NEW q \in Calls, Answer(q) \/ GiveUp(q) \/ SettleLogout(q) \/ CallFails(q)
  PROVE  SInv'
  <1>1. CallGoes(q, NoCall) /\ UNCHANGED <<token, req>> /\ abandoned \subseteq abandoned'
    BY DEF Answer, GiveUp, SettleLogout, CallFails, LogOut, server, history
  <1>2. \A x \in Calls : call'[x].state = "revoked" => call'[x] = call[x]
    BY <1>1, CallMoves, NoCallIsCall DEF TInv
  <1>3. stored \in Live => stored' = stored \/ stored \in abandoned'
    <2>1. stored \in Live => stored # NoPair
      BY SessionAssumption DEF Live
    <2>2. CASE SettleLogout(q)
      BY <2>1, <2>2 DEF SettleLogout, SInv, Spent
    <2>3. CASE Answer(q) \/ GiveUp(q) \/ CallFails(q)
      BY <2>1, <2>3 DEF Answer, GiveUp, CallFails
    <2>4. QED
      BY <2>2, <2>3
  <1> QED
    BY <1>1, <1>2, <1>3, KeptCall

LEMMA KeptSend ==
  ASSUME TInv, SInv, NEW q \in Calls, NEW t \in Tabs, NEW kind \in {"data", "logout"},
         Send(q, t, kind)
  PROVE  SInv'
  <1> DEFINE c == [state |-> "sent", tab |-> t, kind |-> kind, retried |-> FALSE,
                   with |-> stored, token |-> IF kind = "logout" THEN memory[t] ELSE NoPair]
  <1>1. c \in Call /\ c.state = "sent" /\ CallGoes(q, c)
    BY DEF TInv, TypeOK, Call, Send
  <1> HIDE DEF c
  <1>2. \A x \in Calls : call'[x].state = "revoked" => call'[x] = call[x]
    BY <1>1, CallMoves DEF TInv
  <1> QED
    BY <1>2, KeptCall DEF Send, server, history

LEMMA KeptEnqueue ==
  ASSUME TInv, SInv, NEW q \in Calls, Enqueue(q)
  PROVE  SInv'
  <1>1. call[q] \in Call /\ call[q] # NoCall
    BY NoCallIsCall DEF Enqueue, Refused, TInv, TypeOK
  <1> DEFINE c == [call[q] EXCEPT !.state = "queued"]
  <1>2. c \in Call /\ c.state = "queued" /\ CallGoes(q, c)
    BY <1>1, CallMarked DEF Enqueue
  <1> HIDE DEF c
  <1>3. \A x \in Calls : call'[x].state = "revoked" => call'[x] = call[x]
    BY <1>2, CallMoves DEF TInv
  <1> QED
    BY <1>3, KeptCall DEF Enqueue, server, history

LEMMA KeptLogout ==
  ASSUME TInv, SInv, NEW q \in Calls, Logout(q)
  PROVE  SInv'
  <1>1. call[q] \in Call /\ call[q] # NoCall
    BY NoCallIsCall DEF Logout, Accepted, TInv, TypeOK
  <1> DEFINE c == [call[q] EXCEPT !.state = "revoked"]
  <1>2. c \in Call /\ c.token = call[q].token /\ CallGoes(q, c)
    BY <1>1, CallMarked DEF Logout
  <1> HIDE DEF c
  <1>3. call'[q] = c /\ \A x \in Calls \ {q} : call'[x] = call[x]
    BY <1>2, CallMoves DEF TInv
  <1>4. Live' = Live \ {c.token}
    BY <1>2 DEF Logout, Live, TInv, TypeOK
  <1>5. UNCHANGED <<req, stored, abandoned>>
    BY DEF Logout
  <1> QED
    BY <1>2, <1>3, <1>4, <1>5, KeptStep

LEMMA KeptStartRefresh ==
  ASSUME TInv, SInv, NEW q \in Calls, NEW r \in Requests, StartRefresh(q, r)
  PROVE  SInv'
  <1>1. /\ call'[q].state = "waiting" /\ \A x \in Calls \ {q} : call'[x] = call[x]
        /\ req[r] = Idle /\ req'[r].op = "find" /\ Others(r)
    BY StartRefreshDoes
  <1>2. ~Used(req'[r]) /\ ~Grants(req[r])
    BY <1>1 DEF Used, Grants, Idle
  <1>3. UNCHANGED <<token, stored, abandoned>> /\ Live' = Live
    BY DEF StartRefresh, server, Live
  <1> QED
    BY <1>1, <1>2, <1>3, KeptStep DEF Others

\* Steps of a job.
LEMMA KeptJob ==
  ASSUME TInv, SInv, NEW r \in Requests, Others(r), UNCHANGED call,
         Live' \subseteq Live,
         Used(req'[r]) => \/ Used(req[r]) /\ req'[r].token = req[r].token
                          \/ req'[r].token \notin Live',
         Grants(req[r]) => req[r].pair \in abandoned' \cup {stored'},
         stored \in Live' => stored' = stored \/ stored \in abandoned',
         abandoned \subseteq abandoned'
  PROVE  SInv'
  BY KeptStep DEF Others

LEMMA KeptServer ==
  ASSUME TInv, SInv, NEW r \in Requests,
         (\E t \in Tabs : Login(r, t)) \/ FindToken(r) \/ RevokeToken(r) \/ RequestFails(r)
  PROVE  SInv'
  <1>1. UNCHANGED <<call, stored>>
    BY DEF Login, FindToken, RevokeToken, RequestFails, client
  <1>2. ASSUME NEW t \in Tabs, Login(r, t)
        PROVE  SInv'
    <2>1. Others(r) /\ ~Used(req'[r]) /\ ~Grants(req[r])
      BY <1>2, LoginDoes DEF Used, Holds, Grants, Idle
    <2>2. Live' = Live /\ UNCHANGED abandoned
      BY <1>2 DEF Login, Live, server, history
    <2>3. QED
      BY <1>1, <2>1, <2>2, KeptJob
  <1>3. CASE FindToken(r)
    <2>1. Live' = Live /\ UNCHANGED abandoned
      BY <1>3 DEF FindToken, Live, server, history
    <2>2. Others(r) /\ ~Grants(req[r])
      BY <1>3, FindTokenDoes DEF Continues, Grants
    <2>3. Used(req'[r]) => req'[r].token \notin Live
      BY <1>3, FindTokenDoes DEF Used, Continues
    <2>4. QED
      BY <1>1, <2>1, <2>2, <2>3, KeptJob
  <1>4. CASE RevokeToken(r)
    <2>1. Others(r) /\ ~Grants(req[r]) /\ Live' \subseteq Live /\ req'[r].token \notin Live'
      BY <1>4, RevokeTokenDoes DEF Continues, Grants
    <2>2. UNCHANGED abandoned
      BY <1>4 DEF RevokeToken, history
    <2>3. QED
      BY <1>1, <2>1, <2>2, KeptJob
  <1>5. CASE RequestFails(r)
    <2>1. Live' = Live /\ abandoned \subseteq abandoned'
      BY <1>5 DEF RequestFails, Live, server
    <2>2. Others(r) /\ ~Used(req'[r])
      <3>1. CASE req[r].token = NoPair
        BY <1>5, <3>1, RequestFailsDoes DEF Used, Holds
      <3>2. CASE req[r].token # NoPair
        BY <1>5, <3>2, RequestFailsDoes DEF Used, Continues
      <3>3. QED
        BY <3>1, <3>2
    <2>3. Grants(req[r]) => req[r].pair \in abandoned'
      BY <1>5 DEF RequestFails, Grants
    <2>4. QED
      BY <1>1, <2>1, <2>2, <2>3, KeptJob
  <1> QED
    BY <1>2, <1>3, <1>4, <1>5

LEMMA KeptIssuePair ==
  ASSUME TInv, SInv, NEW r \in Requests, NEW p \in Pairs, IssuePair(r, p)
  PROVE  SInv'
  <1>1. /\ req[r] # Idle /\ req[r].op = "issue" /\ req[r].token \in Known
        /\ req'[r].op = "granted" /\ req'[r].token = req[r].token /\ req'[r].pair = p
        /\ Others(r) /\ p \notin Known /\ Live' = Live \cup {p}
    BY IssuePairDoes DEF Continues
  <1>2. UNCHANGED <<call, stored, abandoned>>
    BY DEF IssuePair, client
  <1>3. \A s \in Requests : Used(req'[s]) => Used(req[s]) /\ req'[s].token = req[s].token
    BY <1>1 DEF Used, Holds, Others
  <1>4. \A s \in Requests : Used(req'[s]) => req'[s].token \in Known
    BY <1>3 DEF TInv, Issued, Used, Holds
  <1>5. \A q \in Calls : call[q].state = "revoked" => call[q].token \in Known
    BY NoCallIsCall DEF TInv, Issued
  <1>6. Spent'
    BY <1>1, <1>2, <1>3, <1>4, <1>5 DEF SInv, Spent
  <1>7. \A s \in Requests : req[s].op = "granted" => req'[s] = req[s]
    BY <1>1 DEF Others
  <1>8. LiveIsKept'
    <2> SUFFICES ASSUME NEW x \in Live'
                 PROVE  \/ x = stored'
                        \/ \E s \in Requests : req'[s].op = "granted" /\ req'[s].pair = x
                        \/ x \in abandoned'
      BY DEF LiveIsKept
    <2>1. CASE x = p
      BY <1>1, <2>1
    <2>2. CASE x \in Live
      BY <1>2, <1>7, <2>2 DEF SInv, LiveIsKept
    <2>3. QED
      BY <1>1, <2>1, <2>2
  <1> QED
    BY <1>6, <1>8 DEF SInv

LEMMA KeptAnswer ==
  ASSUME TInv, SInv, NEW r \in Requests, LoggedIn(r) \/ AnswerDropped(r)
  PROVE  SInv'
  <1>1. req'[r] = Idle /\ Others(r) /\ ~Used(req'[r])
    BY JobEnds DEF LoggedIn, AnswerDropped, Used, Holds
  <1>2. Live' = Live /\ UNCHANGED call /\ abandoned \subseteq abandoned'
    BY DEF LoggedIn, AnswerDropped, Live, server, client
  <1>3. stored \in Live => stored' = stored \/ stored \in abandoned'
    BY SessionAssumption DEF LoggedIn, AnswerDropped, client, Live
  <1>4. Grants(req[r]) => req[r].pair \in abandoned' \cup {stored'}
    BY DEF LoggedIn, AnswerDropped, Grants
  <1> QED
    BY <1>1, <1>2, <1>3, <1>4, KeptJob

LEMMA KeptRefreshed ==
  ASSUME TInv, SInv, NEW r \in Requests, Refreshed(r)
  PROVE  SInv'
  <1>1. /\ req[r] \in Job /\ req[r].pair \in Pairs
        /\ req[r] # Idle /\ req[r].tab \in Tabs /\ req[r].token # NoPair
    BY JobFacts DEF Refreshed, TInv, TypeOK, Idle
  <1>2. PICK p \in Pairs, t \in Tabs : p = req[r].pair /\ t = req[r].tab
    BY <1>1
  <1>3. req'[r] = Idle /\ Others(r) /\ ~Used(req'[r])
    BY JobEnds DEF Refreshed, Used, Holds
  <1>4. PICK qs : /\ qs = {q \in Of(t) : call[q].state \in {"queued", "waiting"}}
                  /\ call' = Resent(qs, p)
    BY <1>2 DEF Refreshed
  <1>5. \A q \in Calls : call'[q].state = "revoked" => call'[q] = call[q]
    BY <1>4, CallsResent DEF TInv
  <1>6. /\ Live' = Live /\ stored' = req[r].pair
        /\ abandoned' = abandoned \cup ({stored} \ {NoPair, req[r].token})
    BY DEF Refreshed, server, Live
  <1>7. req[r].token \notin Live
    BY <1>1 DEF SInv, Spent, Used, Holds, Refreshed
  <1>8. stored \in Live => stored \in abandoned'
    BY <1>6, <1>7, SessionAssumption DEF Live
  <1> QED
    BY <1>3, <1>5, <1>6, <1>8, KeptStep DEF Others

LEMMA KeptPageGone ==
  ASSUME TInv, SInv, NEW t \in Tabs, NEW jobs \in [Requests -> Job],
         \A s \in Requests : jobs[s] = req[s] \/ (jobs[s] = Idle /\ ~Grants(req[s])),
         req' = Detached(t, jobs),
         call' = NoCallsOf(t),
         UNCHANGED token,
         stored \in Live => stored' = stored \/ stored \in abandoned',
         abandoned \subseteq abandoned'
  PROVE  SInv'
  <1>1. \A s \in Requests :
           \/ req'[s] = Idle
           \/ /\ req[s] # Idle /\ jobs[s] = req[s] /\ req'[s].op = req[s].op
              /\ req'[s].token = req[s].token
              /\ req[s].op = "granted" => req'[s].pair = req[s].pair
              /\ req[s].op = "denied" => req'[s].why = req[s].why
              /\ IF req[s].tab = t THEN req'[s].tab = NoTab ELSE req'[s] = req[s]
    BY PageGoneDoes
  <1>2. \A s \in Requests : Grants(req[s]) => Grants(req'[s]) /\ req'[s].pair = req[s].pair
    BY DetachedJobs DEF Alike, Grants
  <1>3. \A s \in Requests : Used(req'[s]) => Used(req[s]) /\ req'[s].token = req[s].token
    BY <1>1 DEF Used, Holds
  <1>4. \A q \in Calls : call'[q].state = "revoked" => call'[q] = call[q]
    BY CallsGone, NoCallIsCall DEF TInv
  <1>5. Live' = Live
    BY DEF Live
  <1> QED
    BY <1>2, <1>3, <1>4, <1>5, KeptStep

LEMMA KeptReload ==
  ASSUME TInv, SInv, NEW t \in Tabs, Reload(t)
  PROVE  SInv'
  <1>1. req \in [Requests -> Job]
    BY DEF TInv, TypeOK
  <1>2. UNCHANGED <<token, stored, abandoned>>
    BY DEF Reload, server
  <1> QED
    BY <1>1, <1>2, KeptPageGone DEF Reload

LEMMA KeptNothingToRefresh ==
  ASSUME TInv, SInv, NEW q \in Calls, NothingToRefresh(q)
  PROVE  SInv'
  <1>1. req \in [Requests -> Job]
    BY DEF TInv, TypeOK
  <1>2. PICK t \in Tabs : t = call[q].tab
    BY NoCallIsCall, CallFacts DEF NothingToRefresh, Refused, TInv, TypeOK
  <1>3. /\ req' = Detached(t, req) /\ call' = NoCallsOf(t) /\ stored' = stored
        /\ UNCHANGED <<token, abandoned>>
    BY <1>2 DEF NothingToRefresh, SignOut, server, history
  <1> QED
    BY <1>1, <1>3, KeptPageGone

LEMMA KeptNotRefreshed ==
  ASSUME TInv, SInv, NEW r \in Requests, NotRefreshed(r)
  PROVE  SInv'
  <1>1. /\ req[r] \in Job /\ req[r].op = "denied" /\ req[r] # Idle
        /\ req[r].token \in Pairs /\ req[r].tab \in Tabs
    BY JobFacts DEF NotRefreshed, TInv, TypeOK, Idle
  <1>2. PICK t \in Tabs : t = req[r].tab
    BY <1>1
  <1>3. PICK jobs : jobs = [req EXCEPT ![r] = Idle]
    OBVIOUS
  <1>4. req' = Detached(t, jobs) /\ call' = NoCallsOf(t) /\ UNCHANGED token
    BY <1>2, <1>3 DEF NotRefreshed, SignOut, server
  <1>5. /\ jobs \in [Requests -> Job]
        /\ \A s \in Requests : jobs[s] = req[s] \/ (jobs[s] = Idle /\ ~Grants(req[s]))
    BY <1>1, <1>3 DEF TInv, TypeOK, Job, Grants
  <1>6. req[r].why = "invalid" => req[r].token \notin Live
    BY <1>1, SessionAssumption DEF SInv, Spent, Used, Holds
  <1>7. abandoned \subseteq abandoned' /\ (stored \in Live => stored \in abandoned')
    BY <1>6, SessionAssumption DEF NotRefreshed, Live
  <1> QED
    BY <1>4, <1>5, <1>7, KeptPageGone

LEMMA KeptAlways ==
  ASSUME TInv, SInv, [Next]_vars
  PROVE  SInv'
  <1>1. ASSUME NEW q \in Calls, CallStep(q)
        PROVE  SInv'
    BY <1>1, KeptSend, KeptEnqueue, KeptLogout, KeptNothingToRefresh, KeptCallEnds,
       KeptStartRefresh DEF CallStep
  <1>2. ASSUME NEW r \in Requests, RequestStep(r)
        PROVE  SInv'
    BY <1>2, KeptServer, KeptIssuePair, KeptAnswer, KeptRefreshed, KeptNotRefreshed DEF RequestStep
  <1>3. ASSUME UNCHANGED <<req, call, stored, abandoned>>, Live' \subseteq Live
        PROVE  SInv'
    BY <1>3, KeptStep
  <1>4. CASE World
    <2>1. CASE RevokeAll
      <3>1. Live' = {}
        BY <2>1 DEF RevokeAll, Live, TInv, TypeOK
      <3>2. QED
        BY <1>3, <2>1, <3>1 DEF RevokeAll, client
    <2>2. ASSUME NEW p \in Pairs, AccessExpires(p)
          PROVE  SInv'
      BY <1>3, <2>2 DEF AccessExpires, client, history, Live
    <2>3. QED
      BY <1>4, <2>1, <2>2, KeptReload DEF World
  <1>5. CASE UNCHANGED vars
    BY <1>3, <1>5 DEF vars, server, client, history, Live
  <1> QED
    BY <1>1, <1>2, <1>4, <1>5 DEF Next

\* Nothing a browser has let go of stays usable, unless it was dropped without the
\* server's knowledge, for any number of tabs, calls and refreshes.
THEOREM LiveKept == Spec => []LiveIsKept
  <1>1. Init => TInv /\ SInv
    BY TypeInit, KeptInit
  <1>2. TInv /\ SInv /\ [Next]_vars => (TInv /\ SInv)'
    BY TypeStep, KeptAlways
  <1>3. TInv /\ SInv => LiveIsKept
    BY DEF SInv
  <1> QED
    BY <1>1, <1>2, <1>3, PTL DEF Spec

-----------------------------------------------------------------------------
(* Rotation: one live token per login. *)

\* What a step may do to a job without bringing it to another login.
Steady(s) ==
  \/ ~Holds(req'[s]) /\ ~Grants(req'[s])
  \/ /\ req[s] # Idle /\ req'[s].token = req[s].token
     /\ Grants(req'[s]) => Grants(req[s]) /\ req'[s].pair = req[s].pair

LEMMA FamilyKept ==
  ASSUME TInv, UNCHANGED family, NEW s \in Requests, Steady(s)
  PROVE  \/ FamilyOf(req[s])' = NoPair
         \/ /\ FamilyOf(req[s])' = FamilyOf(req[s])
            /\ req'[s].token = req[s].token
  <1>1. CASE ~Holds(req'[s]) /\ ~Grants(req'[s])
    BY <1>1 DEF FamilyOf, Holds, Grants
  <1>2. CASE /\ req[s] # Idle /\ req'[s].token = req[s].token
             /\ Grants(req'[s]) => Grants(req[s]) /\ req'[s].pair = req[s].pair
    <2>1. CASE req'[s] = Idle
      BY <2>1 DEF FamilyOf, Holds, Grants, Idle
    <2>2. CASE req'[s] # Idle /\ req[s].token # NoPair
      BY <1>2, <2>2 DEF FamilyOf, Holds
    <2>3. CASE req'[s] # Idle /\ req[s].token = NoPair
      BY <1>2, <2>3 DEF FamilyOf, Holds, Grants
    <2>4. QED
      BY <2>1, <2>2, <2>3
  <1> QED
    BY <1>1, <1>2 DEF Steady

LEMMA StoredHasFamily ==
  ASSUME TInv, stored \in Pairs
  PROVE  stored \in Known /\ family[stored] \in Pairs
  BY DEF TInv, TypeOK, Issued, Known

LEMMA LoginsStep ==
  ASSUME TInv, LInv, TInv', UNCHANGED <<family, raced>>, Live' \subseteq Live,
         \A s \in Requests : Steady(s),
         \/ stored' \in {stored, NoPair}
         \/ \E r \in Requests : /\ FamilyOf(req[r]) = family[stored']
                                /\ FamilyOf(req[r])' = NoPair,
         Rotating'
  PROVE  LInv'
  <1>1. \A s \in Requests :
           \/ FamilyOf(req[s])' = NoPair
           \/ FamilyOf(req[s])' = FamilyOf(req[s]) /\ req'[s].token = req[s].token
    BY FamilyKept
  <1>2. OneJob'
    BY <1>1, SessionAssumption DEF LInv, OneJob
  <1>3. stored' \in Pairs => family[stored'] \in Pairs
    <2>1. (stored \in Pairs => family[stored] \in Pairs)'
      BY StoredHasFamily, PTL
    <2>2. QED
      BY <2>1
  <1>4. StoredIsHeld'
    <2> SUFFICES ASSUME NEW s \in Requests, stored' \in Pairs,
                        FamilyOf(req[s])' = family[stored'], family[stored'] \notin raced
                 PROVE  req'[s].token = stored'
      BY DEF StoredIsHeld
    <2>1. FamilyOf(req[s]) = family[stored'] /\ req'[s].token = req[s].token
      BY <1>1, <1>3, SessionAssumption
    <2>2. CASE stored' \in {stored, NoPair}
      BY <2>1, <2>2, SessionAssumption DEF LInv, StoredIsHeld
    <2>3. ASSUME NEW r \in Requests, FamilyOf(req[r]) = family[stored'],
                 FamilyOf(req[r])' = NoPair
          PROVE  FALSE
      <3>1. r = s
        BY <1>3, <2>1, <2>3 DEF LInv, OneJob
      <3>2. QED
        BY <1>3, <2>3, <3>1, SessionAssumption
    <2>4. QED
      BY <2>2, <2>3
  <1>5. Inherits'
    BY DEF LInv, Inherits, Steady, Holds
  <1>6. OneLivePerLogin'
    BY DEF LInv, OneLivePerLogin
  <1> QED
    BY <1>2, <1>4, <1>5, <1>6 DEF LInv

\* A job that revokes or issues was doing so before.
LEMMA RotatingKept ==
  ASSUME LInv, UNCHANGED <<family, raced>>, Live' \subseteq Live,
         \A s \in Requests :
           \/ ~Holds(req'[s])
           \/ req'[s].op \notin {"revoke", "issue"}
           \/ /\ req'[s].op = req[s].op /\ req'[s].token = req[s].token
              /\ Holds(req[s])
  PROVE  Rotating'
  BY DEF LInv, Rotating

LEMMA LoginsInit == ASSUME Init PROVE LInv
  <1>1. /\ Live = {} /\ \A r \in Requests : ~Holds(req[r]) /\ ~Grants(req[r])
        /\ stored \notin Pairs
    BY SessionAssumption DEF Init, Live, Holds, Grants, Idle
  <1>2. \A r \in Requests : FamilyOf(req[r]) = NoPair
    BY <1>1 DEF FamilyOf
  <1> QED
    BY <1>1, <1>2, SessionAssumption
       DEF LInv, OneJob, StoredIsHeld, Rotating, Inherits, OneLivePerLogin

LEMMA LoginsSame ==
  ASSUME TInv, LInv, TInv', UNCHANGED <<req, family, raced>>, Live' \subseteq Live,
         stored' \in {stored, NoPair}
  PROVE  LInv'
  <1>1. \A s \in Requests : Steady(s)
    BY DEF Steady, Holds, Grants, Idle
  <1>2. \A s \in Requests : ~Holds(req'[s]) \/ Holds(req[s])
    OBVIOUS
  <1>3. Rotating'
    BY <1>2, RotatingKept
  <1> QED
    BY <1>1, <1>3, LoginsStep

LEMMA LoginsCall ==
  ASSUME TInv, LInv, TInv', NEW q \in Calls,
         \/ \E t \in Tabs, kind \in {"data", "logout"} : Send(q, t, kind)
         \/ Enqueue(q) \/ GiveUp(q) \/ Answer(q) \/ Logout(q) \/ SettleLogout(q) \/ CallFails(q)
  PROVE  LInv'
  <1>1. /\ UNCHANGED <<req, family, raced>> /\ stored' \in {stored, NoPair}
    BY DEF Send, Enqueue, GiveUp, Answer, Logout, SettleLogout, CallFails, LogOut, history
  <1>2. Live' \subseteq Live
    <2>1. CASE Logout(q)
      BY <2>1 DEF Logout, Live, TInv, TypeOK
    <2>2. CASE ~Logout(q)
      BY <2>2 DEF Send, Enqueue, GiveUp, Answer, SettleLogout, CallFails, server, Live
    <2>3. QED
      BY <2>1, <2>2
  <1> QED
    BY <1>1, <1>2, LoginsSame

LEMMA LoginsStartRefresh ==
  ASSUME TInv, LInv, TInv', NEW q \in Calls, NEW r \in Requests, StartRefresh(q, r)
  PROVE  LInv'
  <1>1. /\ stored \in Pairs /\ req[r] = Idle
        /\ req'[r].op = "find" /\ req'[r] # Idle /\ req'[r].token = stored
        /\ Others(r)
    BY StartRefreshDoes
  <1>2. /\ UNCHANGED <<token, stored, family>> /\ Live' = Live
        /\ raced' = IF Presented(stored) # {} THEN raced \cup {family[stored]} ELSE raced
    BY DEF StartRefresh, server, Live
  <1>3. stored # NoPair /\ family[stored] \in Pairs
    BY <1>1, StoredHasFamily, SessionAssumption
  <1>4. FamilyOf(req[r])' = family[stored]
    BY <1>1, <1>2, <1>3 DEF FamilyOf, Holds
  <1>5. \A s \in Requests \ {r} : FamilyOf(req[s])' = FamilyOf(req[s])
    BY <1>1, <1>2 DEF FamilyOf, Others
  <1>6. ASSUME NEW s \in Requests, FamilyOf(req[s]) = family[stored], family[stored] \notin raced'
        PROVE  FALSE
    <2>1. family[stored] \notin raced /\ Presented(stored) = {}
      BY <1>2, <1>6
    <2>2. req[s].token = stored
      BY <1>1, <1>6, <2>1 DEF LInv, StoredIsHeld
    <2>3. req[s] # Idle
      BY <1>3, <1>6, SessionAssumption DEF FamilyOf, Holds, Grants, Idle
    <2>4. QED
      BY <2>1, <2>2, <2>3 DEF Presented
  <1>7. raced \subseteq raced'
    BY <1>2
  <1>8. OneJob'
    BY <1>2, <1>4, <1>5, <1>6, <1>7 DEF LInv, OneJob
  <1>9. StoredIsHeld'
    BY <1>1, <1>2, <1>5, <1>7 DEF LInv, StoredIsHeld, Others
  <1>10. Rotating'
    BY <1>1, <1>2, <1>7 DEF LInv, Rotating, Others
  <1>11. Inherits'
    BY <1>1, <1>2 DEF LInv, Inherits, Others, Grants
  <1>12. OneLivePerLogin'
    BY <1>2, <1>7 DEF LInv, OneLivePerLogin
  <1> QED
    BY <1>8, <1>9, <1>10, <1>11, <1>12 DEF LInv

\* A job that goes on with its token, or ends.
LEMMA LoginsJob ==
  ASSUME TInv, LInv, TInv', NEW r \in Requests, Others(r), Steady(r),
         UNCHANGED <<family, raced>>, Live' \subseteq Live,
         \/ stored' = stored
         \/ FamilyOf(req[r]) = family[stored'] /\ FamilyOf(req[r])' = NoPair,
         ~Holds(req'[r]) \/ req'[r].op \notin {"revoke", "issue"}
  PROVE  LInv'
  <1>1. \A s \in Requests : Steady(s)
    BY DEF Steady, Others, Holds, Grants, Idle
  <1>2. Rotating'
    BY RotatingKept DEF Others
  <1> QED
    BY <1>1, <1>2, LoginsStep

LEMMA LoginsServer ==
  ASSUME TInv, LInv, TInv', NEW r \in Requests,
         (\E t \in Tabs : Login(r, t)) \/ FindToken(r) \/ RevokeToken(r) \/ RequestFails(r)
  PROVE  LInv'
  <1>1. UNCHANGED <<stored, family, raced>>
    BY DEF Login, FindToken, RevokeToken, RequestFails, client, history
  <1>2. ASSUME NEW t \in Tabs, Login(r, t)
        PROVE  LInv'
    <2>1. Others(r) /\ ~Holds(req'[r]) /\ ~Grants(req'[r])
      BY <1>2, LoginDoes DEF Holds, Grants
    <2>2. Live' = Live
      BY <1>2 DEF Login, Live, server
    <2>3. QED
      BY <1>1, <2>1, <2>2, LoginsJob DEF Steady
  <1>3. CASE FindToken(r)
    <2>1. Live' = Live
      BY <1>3 DEF FindToken, Live, server
    <2>2. CASE Continues(r, "denied")
      <3>1. req[r] # Idle /\ ~Grants(req'[r]) /\ req'[r].token = req[r].token /\ Others(r)
            /\ req'[r].op = "denied"
        BY <1>3, <2>2, FindTokenDoes DEF Continues, Grants
      <3>2. QED
        BY <1>1, <2>1, <3>1, LoginsJob DEF Steady
    <2>3. CASE Continues(r, "revoke") /\ req[r].token \in Live
      <3>1. /\ req[r] # Idle /\ ~Grants(req'[r]) /\ req'[r].token = req[r].token /\ Others(r)
            /\ req'[r].op = "revoke"
        BY <1>3, <2>3, FindTokenDoes DEF Continues, Grants
      <3>2. \A s \in Requests : Steady(s)
        BY <3>1 DEF Steady, Others, Holds, Grants, Idle
      <3>3. Rotating'
        BY <1>1, <2>1, <2>3, <3>1 DEF LInv, Rotating, Others, OneLivePerLogin
      <3>4. QED
        BY <1>1, <2>1, <3>2, <3>3, LoginsStep
    <2>4. QED
      BY <1>3, <2>2, <2>3, FindTokenDoes
  <1>4. CASE RevokeToken(r)
    <2>1. /\ req[r] # Idle /\ req[r].op = "revoke" /\ req[r].token \in Pairs
          /\ ~Grants(req'[r]) /\ req'[r].token = req[r].token /\ Others(r)
          /\ req'[r].op = "issue"
          /\ Live' = Live \ {req[r].token}
      BY <1>4, RevokeTokenDoes DEF Continues, Grants
    <2>2. \A s \in Requests : Steady(s)
      BY <2>1 DEF Steady, Others, Holds, Grants, Idle
    <2>3. Holds(req[r])
      BY <2>1, SessionAssumption DEF Holds
    <2>4. Rotating'
      BY <1>1, <2>1, <2>3 DEF LInv, Rotating, Others
    <2>5. QED
      BY <1>1, <2>1, <2>2, <2>4, LoginsStep
  <1>5. CASE RequestFails(r)
    <2>1. Live' = Live
      BY <1>5 DEF RequestFails, Live, server
    <2>2. CASE req[r].token = NoPair
      <3>1. Others(r) /\ ~Holds(req'[r]) /\ ~Grants(req'[r])
        BY <1>5, <2>2, RequestFailsDoes DEF Holds, Grants, Idle
      <3>2. QED
        BY <1>1, <2>1, <3>1, LoginsJob DEF Steady
    <2>3. CASE req[r].token # NoPair
      <3>1. /\ req[r] # Idle /\ ~Grants(req'[r]) /\ req'[r].token = req[r].token /\ Others(r)
            /\ req'[r].op = "denied"
        BY <1>5, <2>3, RequestFailsDoes DEF Continues, Grants
      <3>2. QED
        BY <1>1, <2>1, <3>1, LoginsJob DEF Steady
    <2>4. QED
      BY <2>2, <2>3
  <1> QED
    BY <1>2, <1>3, <1>4, <1>5

LEMMA LoginsAnswer ==
  ASSUME TInv, LInv, TInv', NEW r \in Requests, LoggedIn(r) \/ AnswerDropped(r) \/ Refreshed(r)
  PROVE  LInv'
  <1>1. req'[r] = Idle /\ Others(r) /\ ~Holds(req'[r]) /\ ~Grants(req'[r])
    BY JobEnds DEF LoggedIn, AnswerDropped, Refreshed, Holds, Grants, Idle
  <1>2. UNCHANGED <<family, raced>> /\ Live' = Live
    BY DEF LoggedIn, AnswerDropped, Refreshed, Live, server
  <1>3. FamilyOf(req[r])' = NoPair
    BY <1>1 DEF FamilyOf
  <1>4. stored' = stored \/ FamilyOf(req[r]) = family[stored']
    <2>1. CASE AnswerDropped(r)
      BY <2>1 DEF AnswerDropped, client
    <2>2. CASE LoggedIn(r)
      BY <2>2 DEF LoggedIn, FamilyOf, Holds, Grants
    <2>3. CASE Refreshed(r)
      BY <2>3 DEF Refreshed, FamilyOf, Holds, Grants, LInv, Inherits
    <2>4. QED
      BY <2>1, <2>2, <2>3
  <1> QED
    BY <1>1, <1>2, <1>3, <1>4, LoginsJob DEF Steady

LEMMA LoginsIssuePair ==
  ASSUME TInv, LInv, NEW r \in Requests, NEW p \in Pairs, IssuePair(r, p)
  PROVE  LInv'
  <1>1. /\ req[r] # Idle /\ req[r].op = "issue" /\ req[r].token \in Known
        /\ req'[r].op = "granted" /\ req'[r] # Idle
        /\ req'[r].token = req[r].token /\ req'[r].pair = p
        /\ Others(r) /\ p \notin Known /\ Live' = Live \cup {p}
        /\ \A x \in Pairs \ {p} : family'[x] = family[x]
        /\ family'[p] = IF req[r].token = NoPair THEN p ELSE family[req[r].token]
    BY IssuePairDoes DEF Continues
  <1>2. UNCHANGED <<stored, raced>>
    BY DEF IssuePair, client
  <1>3. \A x \in Known \ {NoPair} : x \in Pairs \ {p} /\ family'[x] = family[x] /\ family[x] \in Pairs \ {p}
    BY <1>1 DEF TInv, TypeOK, Issued, Known
  <1>4. \A s \in Requests : /\ Holds(req[s]) => req[s].token \in Known \ {NoPair}
                            /\ Grants(req[s]) => req[s].pair \in Known \ {NoPair}
    BY JobFacts, SessionAssumption DEF TInv, TypeOK, Issued, Holds, Grants
  <1>5. \A s \in Requests \ {r} : FamilyOf(req[s])' = FamilyOf(req[s])
    BY <1>1, <1>3, <1>4 DEF FamilyOf, Others
  <1>6. \A s \in Requests : FamilyOf(req[s]) # p
    BY <1>3, <1>4, SessionAssumption DEF FamilyOf
  <1>7. IF req[r].token = NoPair
        THEN FamilyOf(req[r])' = p /\ family'[p] = p /\ ~Holds(req'[r])
        ELSE /\ Holds(req[r])
             /\ FamilyOf(req[r])' = FamilyOf(req[r])
             /\ family'[p] = family[req[r].token]
             /\ family[req[r].token] = FamilyOf(req[r])
    BY <1>1, <1>3, <1>4 DEF FamilyOf, Holds, Grants
  <1>8. stored \in Pairs => family'[stored] = family[stored] /\ family[stored] # p
    BY <1>3, StoredHasFamily, SessionAssumption
  <1>9. OneJob'
    BY <1>2, <1>5, <1>6, <1>7 DEF LInv, OneJob
  <1>10. StoredIsHeld'
    BY <1>1, <1>2, <1>5, <1>7, <1>8 DEF LInv, StoredIsHeld, Others
  <1>11. \A x \in Live : x \in Known \ {NoPair}
    BY SessionAssumption DEF Live, Known
  <1>12. Rotating'
    <2> SUFFICES ASSUME NEW s \in Requests, NEW x \in Live', req'[s].op \in {"revoke", "issue"},
                        Holds(req'[s]), family'[x] = family'[req'[s].token],
                        family'[x] \notin raced
                 PROVE  req'[s].op = "revoke" /\ x = req'[s].token
      BY <1>2 DEF Rotating
    <2>1. s # r /\ req'[s] = req[s]
      BY <1>1 DEF Others
    <2>2. family'[req[s].token] = FamilyOf(req[s]) /\ family[req[s].token] = FamilyOf(req[s])
      BY <1>3, <1>4, <2>1 DEF FamilyOf
    <2>3. CASE x \in Live
      BY <1>3, <1>11, <2>1, <2>2, <2>3 DEF LInv, Rotating
    <2>4. CASE x = p
      <3>1. req[r].token # NoPair
        BY <1>6, <1>7, <2>1, <2>2, <2>4
      <3>2. FamilyOf(req[s]) = FamilyOf(req[r]) /\ FamilyOf(req[s]) \in Pairs \ raced
        BY <1>3, <1>4, <1>7, <2>1, <2>2, <2>4, <3>1 DEF FamilyOf
      <3>3. QED
        BY <2>1, <3>2 DEF LInv, OneJob
    <2>5. QED
      BY <1>1, <2>3, <2>4
  <1>13. Inherits'
    <2> SUFFICES ASSUME NEW s \in Requests, Grants(req'[s]), Holds(req'[s])
                 PROVE  family'[req'[s].pair] = family'[req'[s].token]
      BY DEF Inherits
    <2>1. CASE s = r
      BY <1>1, <1>3, <1>4, <1>7, <2>1 DEF Holds
    <2>2. CASE s # r
      BY <1>1, <1>3, <1>4, <2>2 DEF LInv, Inherits, Others
    <2>3. QED
      BY <2>1, <2>2
  <1>14. OneLivePerLogin'
    <2> SUFFICES ASSUME NEW x \in Live', NEW y \in Live', family'[x] = family'[y], x # y
                 PROVE  family'[x] \in raced
      BY <1>2 DEF OneLivePerLogin
    <2>1. CASE x \in Live /\ y \in Live
      BY <1>3, <1>11, <2>1 DEF LInv, OneLivePerLogin
    <2>2. ASSUME NEW z \in Live, family'[z] = family'[p], family'[p] \notin raced
          PROVE  FALSE
      <3>1. family'[z] = family[z] /\ family[z] # p
        BY <1>3, <1>11
      <3>2. req[r].token # NoPair
        BY <1>7, <2>2, <3>1
      <3>3. QED
        BY <1>1, <1>7, <2>2, <3>1, <3>2 DEF LInv, Rotating
    <2>3. QED
      BY <1>1, <2>1, <2>2
  <1> QED
    BY <1>9, <1>10, <1>12, <1>13, <1>14 DEF LInv

LEMMA LoginsPageGone ==
  ASSUME TInv, LInv, TInv', NEW t \in Tabs, NEW jobs \in [Requests -> Job],
         \A s \in Requests : jobs[s] \in {req[s], Idle},
         req' = Detached(t, jobs),
         UNCHANGED <<token, family, raced>>,
         stored' \in {stored, NoPair}
  PROVE  LInv'
  <1>1. \A s \in Requests :
           \/ req'[s] = Idle
           \/ /\ req[s] # Idle /\ jobs[s] = req[s] /\ req'[s].op = req[s].op
              /\ req'[s].token = req[s].token
              /\ req[s].op = "granted" => req'[s].pair = req[s].pair
              /\ req[s].op = "denied" => req'[s].why = req[s].why
              /\ IF req[s].tab = t THEN req'[s].tab = NoTab ELSE req'[s] = req[s]
    BY PageGoneDoes
  <1>2. \A s \in Requests : Steady(s)
    BY <1>1 DEF Steady, Holds, Grants, Idle
  <1>3. Live' = Live
    BY DEF Live
  <1>4. Rotating'
    BY <1>1, <1>3, RotatingKept DEF Holds
  <1> QED
    BY <1>2, <1>3, <1>4, LoginsStep

LEMMA LoginsGone ==
  ASSUME TInv, LInv, TInv',
         \/ \E q \in Calls : NothingToRefresh(q)
         \/ \E r \in Requests : NotRefreshed(r)
         \/ \E t \in Tabs : Reload(t)
  PROVE  LInv'
  <1>1. req \in [Requests -> Job]
    BY DEF TInv, TypeOK
  <1>2. ASSUME NEW q \in Calls, NothingToRefresh(q)
        PROVE  LInv'
    <2>1. PICK t \in Tabs : t = call[q].tab
      BY <1>2, NoCallIsCall, CallFacts DEF NothingToRefresh, Refused, TInv, TypeOK
    <2>2. req' = Detached(t, req) /\ stored' = NoPair /\ UNCHANGED <<token, family, raced>>
      BY <1>2, <2>1 DEF NothingToRefresh, SignOut, server, history
    <2>3. QED
      BY <1>1, <2>2, LoginsPageGone
  <1>3. ASSUME NEW r \in Requests, NotRefreshed(r)
        PROVE  LInv'
    <2>1. PICK t \in Tabs : t = req[r].tab
      BY <1>3, JobFacts DEF NotRefreshed, TInv, TypeOK, Idle
    <2>2. PICK jobs : jobs = [req EXCEPT ![r] = Idle]
      OBVIOUS
    <2>3. req' = Detached(t, jobs) /\ stored' = NoPair /\ UNCHANGED <<token, family, raced>>
      BY <1>3, <2>1, <2>2 DEF NotRefreshed, SignOut, server
    <2>4. jobs \in [Requests -> Job] /\ \A s \in Requests : jobs[s] \in {req[s], Idle}
      BY <1>1, <2>2 DEF Job
    <2>5. QED
      BY <2>3, <2>4, LoginsPageGone
  <1>4. ASSUME NEW t \in Tabs, Reload(t)
        PROVE  LInv'
    BY <1>1, <1>4, LoginsPageGone DEF Reload, server
  <1> QED
    BY <1>2, <1>3, <1>4

LEMMA LoginsAlways ==
  ASSUME TInv, LInv, [Next]_vars
  PROVE  LInv'
  <1>0. TInv'
    BY TypeStep
  <1>1. ASSUME NEW q \in Calls, CallStep(q)
        PROVE  LInv'
    BY <1>0, <1>1, LoginsCall, LoginsStartRefresh, LoginsGone DEF CallStep
  <1>2. ASSUME NEW r \in Requests, RequestStep(r)
        PROVE  LInv'
    BY <1>0, <1>2, LoginsServer, LoginsIssuePair, LoginsAnswer, LoginsGone DEF RequestStep
  <1>3. CASE World
    <2>1. CASE RevokeAll
      BY <1>0, <2>1, LoginsSame DEF RevokeAll, Live, client, TInv, TypeOK
    <2>2. ASSUME NEW p \in Pairs, AccessExpires(p)
          PROVE  LInv'
      BY <1>0, <2>2, LoginsSame DEF AccessExpires, client, history, Live
    <2>3. QED
      BY <1>0, <1>3, <2>1, <2>2, LoginsGone DEF World
  <1>4. CASE UNCHANGED vars
    BY <1>0, <1>4, LoginsSame DEF vars, server, client, history, Live
  <1> QED
    BY <1>1, <1>2, <1>3, <1>4 DEF Next

\* Rotation works: of the tokens that descend from one login at most one is live, unless
\* two refreshes presented one of them at the same time.
THEOREM OneLive == Spec => []OneLivePerLogin
  <1>1. Init => TInv /\ LInv
    BY TypeInit, LoginsInit
  <1>2. TInv /\ LInv /\ [Next]_vars => (TInv /\ LInv)'
    BY TypeStep, LoginsAlways
  <1>3. TInv /\ LInv => OneLivePerLogin
    BY DEF LInv
  <1> QED
    BY <1>1, <1>2, <1>3, PTL DEF Spec

-----------------------------------------------------------------------------
(* The client never keeps a token that was rotated away. *)

Good == Live \cup ended

LEMMA KeptStored ==
  ASSUME KInv, stored \in Pairs
  PROVE  \/ stored \in Good
         \/ \E s \in Requests : Holds(req[s]) /\ req[s].token = stored /\ req[s].tab # NoTab
  BY SessionAssumption DEF KInv, KeptTokenIsLive, Presented, Good, Holds

\* What a step must do: no grant out of nothing, no job that loses its page without its
\* token being ended, and what is stored was so before, or was on its way.
LEMMA GoodStep ==
  ASSUME TInv, KInv, Good \subseteq Good', ended \subseteq ended',
         \A s \in Requests : Grants(req'[s]) => Grants(req[s]) /\ req'[s].pair = req[s].pair,
         \A s \in Requests : Holds(req'[s]) =>
           /\ Holds(req[s]) /\ req'[s].token = req[s].token
           /\ req'[s].tab = NoTab => req[s].tab = NoTab \/ req[s].token \in ended',
         \/ stored' = NoPair
         \/ \E r \in Requests : Grants(req[r]) /\ stored' = req[r].pair /\ ~Grants(req'[r])
         \/ /\ stored' = stored
            /\ \A s \in Requests :
                 Holds(req[s]) /\ req[s].token = stored /\ req[s].tab # NoTab =>
                   \/ stored \in ended'
                   \/ Holds(req'[s]) /\ req'[s].token = stored /\ req'[s].tab # NoTab
  PROVE  KInv'
  <1>1. Orphaned'
    BY DEF KInv, Orphaned
  <1>2. \A s \in Requests : Grants(req[s]) => req[s].pair \in Pairs
    BY JobFacts DEF TInv, TypeOK, Grants
  <1>3. OnItsWay'
    <2> SUFFICES ASSUME NEW s \in Requests, Grants(req'[s])
                 PROVE  /\ req'[s].pair # stored'
                        /\ req'[s].pair \in Live' \cup ended'
                        /\ \A x \in Requests : Holds(req'[x]) => req'[x].token # req'[s].pair
                        /\ \A x \in Requests : Grants(req'[x]) /\ req'[x].pair = req'[s].pair => x = s
      BY DEF OnItsWay
    <2>1. Grants(req[s]) /\ req'[s].pair = req[s].pair /\ req[s].pair \in Pairs
      BY <1>2
    <2>2. req[s].pair # stored'
      BY <2>1, SessionAssumption DEF KInv, OnItsWay
    <2>3. req[s].pair \in Live' \cup ended'
      BY <2>1 DEF KInv, OnItsWay, Good
    <2>4. \A x \in Requests : Holds(req'[x]) => req'[x].token # req[s].pair
      BY <2>1 DEF KInv, OnItsWay
    <2>5. \A x \in Requests : Grants(req'[x]) /\ req'[x].pair = req[s].pair => x = s
      BY <2>1 DEF KInv, OnItsWay
    <2>6. QED
      BY <2>1, <2>2, <2>3, <2>4, <2>5
  <1>4. KeptTokenIsLive'
    <2> SUFFICES ASSUME stored' \in Pairs
                 PROVE  \/ stored' \in Live' \cup ended'
                        \/ \E s \in Requests : /\ req'[s] # Idle /\ req'[s].token = stored'
                                               /\ req'[s].tab # NoTab
      BY DEF KeptTokenIsLive, Presented
    <2>1. ASSUME NEW r \in Requests, Grants(req[r]), stored' = req[r].pair
          PROVE  stored' \in Live' \cup ended'
      BY <2>1 DEF KInv, OnItsWay, Good
    <2>2. ASSUME stored' = stored,
                 \A s \in Requests :
                   Holds(req[s]) /\ req[s].token = stored /\ req[s].tab # NoTab =>
                     \/ stored \in ended'
                     \/ Holds(req'[s]) /\ req'[s].token = stored /\ req'[s].tab # NoTab
          PROVE  \/ stored' \in Live' \cup ended'
                 \/ \E s \in Requests : /\ req'[s] # Idle /\ req'[s].token = stored'
                                        /\ req'[s].tab # NoTab
      BY <2>2, KeptStored DEF Good, Holds
    <2>3. stored' # NoPair
      BY SessionAssumption
    <2>4. QED
      BY <2>1, <2>2, <2>3
  <1> QED
    BY <1>1, <1>3, <1>4 DEF KInv

LEMMA GoodInit == ASSUME Init PROVE KInv
  <1>1. /\ \A r \in Requests : ~Holds(req[r]) /\ ~Grants(req[r])
        /\ stored \notin Pairs
    BY SessionAssumption DEF Init, Holds, Grants, Idle
  <1> QED
    BY <1>1 DEF KInv, OnItsWay, Orphaned, KeptTokenIsLive

LEMMA GoodSame ==
  ASSUME TInv, KInv, UNCHANGED req, Good \subseteq Good', ended \subseteq ended',
         stored' \in {stored, NoPair}
  PROVE  KInv'
  BY GoodStep

LEMMA GoodCall ==
  ASSUME TInv, KInv, NEW q \in Calls,
         \/ \E t \in Tabs, kind \in {"data", "logout"} : Send(q, t, kind)
         \/ Enqueue(q) \/ GiveUp(q) \/ Answer(q) \/ Logout(q) \/ SettleLogout(q) \/ CallFails(q)
  PROVE  KInv'
  <1>1. UNCHANGED req /\ stored' \in {stored, NoPair} /\ ended \subseteq ended'
    BY DEF Send, Enqueue, GiveUp, Answer, Logout, SettleLogout, CallFails, LogOut, history
  <1>2. Good \subseteq Good'
    <2>1. CASE Logout(q)
      BY <2>1 DEF Logout, Live, Good, TInv, TypeOK
    <2>2. CASE ~Logout(q)
      BY <2>2 DEF Send, Enqueue, GiveUp, Answer, SettleLogout, CallFails, server, history, Live, Good
    <2>3. QED
      BY <2>1, <2>2
  <1> QED
    BY <1>1, <1>2, GoodSame

LEMMA GoodStartRefresh ==
  ASSUME TInv, KInv, NEW q \in Calls, NEW r \in Requests, StartRefresh(q, r)
  PROVE  KInv'
  <1>1. /\ call[q].tab \in Tabs /\ stored \in Pairs /\ req[r] = Idle
        /\ req'[r].op = "find" /\ req'[r] # Idle
        /\ req'[r].tab = call[q].tab /\ req'[r].token = stored
        /\ Others(r)
    BY StartRefreshDoes
  <1>2. UNCHANGED <<stored, ended>> /\ Live' = Live
    BY DEF StartRefresh, server, Live
  <1>3. req'[r].tab # NoTab
    BY <1>1, SessionAssumption
  <1>4. KeptTokenIsLive'
    BY <1>1, <1>2, <1>3 DEF KeptTokenIsLive, Presented
  <1>5. Orphaned'
    BY <1>1, <1>2, <1>3 DEF KInv, Orphaned, Others
  <1>6. ~Grants(req[r]) /\ ~Grants(req'[r])
    BY <1>1 DEF Grants, Idle
  <1>7. OnItsWay'
    BY <1>1, <1>2, <1>6 DEF KInv, OnItsWay, Others
  <1> QED
    BY <1>4, <1>5, <1>7 DEF KInv

LEMMA GoodJob ==
  ASSUME TInv, KInv, NEW r \in Requests, Others(r), Good \subseteq Good', UNCHANGED <<stored, ended>>,
         ~Grants(req'[r]),
         Holds(req'[r]) <=> Holds(req[r]),
         Holds(req[r]) => req'[r].token = req[r].token /\ req'[r].tab = req[r].tab
  PROVE  KInv'
  BY GoodStep DEF Others

LEMMA GoodServer ==
  ASSUME TInv, KInv, NEW r \in Requests, (\E t \in Tabs : Login(r, t)) \/ FindToken(r) \/ RequestFails(r)
  PROVE  KInv'
  <1>1. UNCHANGED <<stored, ended>> /\ Good' = Good
    BY DEF Login, FindToken, RequestFails, client, server, history, Good, Live
  <1>2. ASSUME NEW t \in Tabs, Login(r, t)
        PROVE  KInv'
    <2>1. Others(r) /\ ~Holds(req'[r]) /\ ~Holds(req[r]) /\ ~Grants(req'[r])
      BY <1>2, LoginDoes DEF Holds, Grants
    <2>2. QED
      BY <1>1, <2>1, GoodJob
  <1>3. CASE FindToken(r)
    <2>1. /\ Others(r) /\ ~Grants(req'[r])
          /\ Holds(req'[r]) <=> Holds(req[r])
          /\ req'[r].token = req[r].token /\ req'[r].tab = req[r].tab
      BY <1>3, FindTokenDoes DEF Continues, Grants, Holds
    <2>2. QED
      BY <1>1, <2>1, GoodJob
  <1>4. CASE RequestFails(r)
    <2>1. CASE req[r].token = NoPair
      <3>1. Others(r) /\ ~Holds(req'[r]) /\ ~Holds(req[r]) /\ ~Grants(req'[r])
        BY <1>4, <2>1, RequestFailsDoes DEF Holds, Grants, Idle
      <3>2. QED
        BY <1>1, <3>1, GoodJob
    <2>2. CASE req[r].token # NoPair
      <3>1. /\ Others(r) /\ ~Grants(req'[r])
            /\ Holds(req'[r]) <=> Holds(req[r])
            /\ req'[r].token = req[r].token /\ req'[r].tab = req[r].tab
        BY <1>4, <2>2, RequestFailsDoes DEF Continues, Grants, Holds
      <3>2. QED
        BY <1>1, <3>1, GoodJob
    <2>3. QED
      BY <2>1, <2>2
  <1> QED
    BY <1>2, <1>3, <1>4

LEMMA GoodRevokeToken ==
  ASSUME TInv, KInv, NEW r \in Requests, RevokeToken(r)
  PROVE  KInv'
  <1>1. /\ req[r] # Idle /\ req[r].op = "revoke" /\ req[r].token \in Pairs
        /\ req'[r].op = "issue" /\ req'[r] # Idle
        /\ req'[r].token = req[r].token /\ req'[r].tab = req[r].tab /\ Others(r)
        /\ Live' = Live \ {req[r].token}
    BY RevokeTokenDoes DEF Continues
  <1>2. UNCHANGED <<stored, ended>>
    BY DEF RevokeToken, client, history
  <1>3. /\ Holds(req[r]) /\ Holds(req'[r])
        /\ \A s \in Requests : Grants(req'[s]) => Grants(req[s]) /\ req'[s].pair = req[s].pair
        /\ \A s \in Requests : Holds(req'[s]) => /\ Holds(req[s]) /\ req'[s].token = req[s].token
                                                 /\ req'[s].tab = req[s].tab
    BY <1>1, SessionAssumption DEF Holds, Grants, Others
  <1>4. OnItsWay'
    BY <1>1, <1>2, <1>3 DEF KInv, OnItsWay
  <1>5. Orphaned'
    BY <1>2, <1>3 DEF KInv, Orphaned
  <1>6. KeptTokenIsLive'
    <2> SUFFICES ASSUME stored \in Pairs, stored \notin Live' \cup ended
                 PROVE  \E s \in Requests : /\ req'[s] # Idle /\ req'[s].token = stored
                                            /\ req'[s].tab # NoTab
      BY <1>2 DEF KeptTokenIsLive, Presented
    <2>1. CASE stored = req[r].token
      BY <1>1, <1>3, <2>1 DEF KInv, Orphaned
    <2>2. CASE stored # req[r].token
      <3>1. stored \notin Good
        BY <1>1, <2>2 DEF Good
      <3>2. PICK s \in Requests : Holds(req[s]) /\ req[s].token = stored /\ req[s].tab # NoTab
        BY <3>1, KeptStored
      <3>3. s # r /\ req'[s] = req[s]
        BY <1>1, <2>2, <3>2 DEF Others
      <3>4. QED
        BY <3>2, <3>3 DEF Holds
    <2>3. QED
      BY <2>1, <2>2
  <1> QED
    BY <1>4, <1>5, <1>6 DEF KInv

LEMMA GoodIssuePair ==
  ASSUME TInv, KInv, NEW r \in Requests, NEW p \in Pairs, IssuePair(r, p)
  PROVE  KInv'
  <1>1. /\ req[r] # Idle /\ req[r].op = "issue"
        /\ req'[r].op = "granted" /\ req'[r] # Idle /\ req'[r].pair = p
        /\ req'[r].token = req[r].token /\ req'[r].tab = req[r].tab /\ Others(r)
        /\ p \notin Known /\ Live' = Live \cup {p}
    BY IssuePairDoes DEF Continues
  <1>2. UNCHANGED <<stored, ended>>
    BY DEF IssuePair, client
  <1>3. /\ stored \in Known
        /\ \A s \in Requests : Holds(req[s]) => req[s].token \in Known
        /\ \A s \in Requests : Grants(req[s]) => req[s].pair \in Known
    BY DEF TInv, Issued, Holds
  <1>4. \A s \in Requests : /\ Holds(req'[s]) <=> Holds(req[s])
                            /\ Holds(req[s]) => /\ req'[s].token = req[s].token
                                                /\ req'[s].tab = req[s].tab
    BY <1>1 DEF Holds, Others
  <1>5. ~Grants(req[r]) /\ \A s \in Requests \ {r} : req'[s] = req[s]
    BY <1>1 DEF Grants, Others
  <1>6. OnItsWay'
    <2> SUFFICES ASSUME NEW s \in Requests, Grants(req'[s])
                 PROVE  /\ req'[s].pair # stored
                        /\ req'[s].pair \in Live' \cup ended
                        /\ \A x \in Requests : Holds(req'[x]) => req'[x].token # req'[s].pair
                        /\ \A x \in Requests : Grants(req'[x]) /\ req'[x].pair = req'[s].pair => x = s
      BY <1>2 DEF OnItsWay
    <2>1. CASE s = r
      BY <1>1, <1>3, <1>4, <1>5, <2>1
    <2>2. CASE s # r
      BY <1>1, <1>3, <1>4, <1>5, <2>2 DEF KInv, OnItsWay
    <2>3. QED
      BY <2>1, <2>2
  <1>7. Orphaned'
    BY <1>2, <1>4 DEF KInv, Orphaned
  <1>8. KeptTokenIsLive'
    <2> SUFFICES ASSUME stored \in Pairs, stored \notin Live' \cup ended
                 PROVE  \E s \in Requests : /\ req'[s] # Idle /\ req'[s].token = stored
                                            /\ req'[s].tab # NoTab
      BY <1>2 DEF KeptTokenIsLive, Presented
    <2>1. stored \notin Good
      BY <1>1 DEF Good
    <2>2. PICK s \in Requests : Holds(req[s]) /\ req[s].token = stored /\ req[s].tab # NoTab
      BY <2>1, KeptStored
    <2>3. Holds(req'[s]) /\ req'[s].token = stored /\ req'[s].tab # NoTab
      BY <1>4, <2>2
    <2>4. QED
      BY <2>3 DEF Holds
  <1> QED
    BY <1>6, <1>7, <1>8 DEF KInv

LEMMA GoodAnswer ==
  ASSUME TInv, KInv, NEW r \in Requests, LoggedIn(r) \/ AnswerDropped(r) \/ Refreshed(r)
  PROVE  KInv'
  <1>1. req'[r] = Idle /\ Others(r) /\ ~Holds(req'[r]) /\ ~Grants(req'[r])
    BY JobEnds DEF LoggedIn, AnswerDropped, Refreshed, Holds, Grants, Idle
  <1>2. UNCHANGED ended /\ Good' = Good
    BY DEF LoggedIn, AnswerDropped, Refreshed, Live, server, Good
  <1>3. /\ \A s \in Requests : Grants(req'[s]) => Grants(req[s]) /\ req'[s].pair = req[s].pair
        /\ \A s \in Requests : Holds(req'[s]) => req'[s] = req[s]
    BY <1>1 DEF Others
  <1>4. CASE AnswerDropped(r)
    <2>1. stored' = stored /\ req[r].tab = NoTab
      BY <1>4 DEF AnswerDropped, client
    <2>2. \A s \in Requests :
            Holds(req[s]) /\ req[s].token = stored /\ req[s].tab # NoTab =>
              Holds(req'[s]) /\ req'[s].token = stored /\ req'[s].tab # NoTab
      BY <1>1, <2>1 DEF Others
    <2>3. QED
      BY <1>2, <1>3, <2>1, <2>2, GoodStep
  <1>5. CASE LoggedIn(r) \/ Refreshed(r)
    <2>1. Grants(req[r]) /\ stored' = req[r].pair
      BY <1>5 DEF LoggedIn, Refreshed, Grants
    <2>2. QED
      BY <1>1, <1>2, <1>3, <2>1, GoodStep
  <1> QED
    BY <1>4, <1>5

LEMMA GoodPageGone ==
  ASSUME TInv, KInv, NEW t \in Tabs, NEW jobs \in [Requests -> Job],
         \A s \in Requests : jobs[s] \in {req[s], Idle},
         req' = Detached(t, jobs),
         UNCHANGED token, ended \subseteq ended',
         \A s \in Requests : Holds(req[s]) /\ req[s].tab = t => req[s].token \in ended' \/ jobs[s] = Idle,
         stored' = NoPair \/ (stored' = stored /\ jobs = req)
  PROVE  KInv'
  <1>1. \A s \in Requests :
           \/ req'[s] = Idle
           \/ /\ req[s] # Idle /\ jobs[s] = req[s] /\ req'[s].op = req[s].op
              /\ req'[s].token = req[s].token
              /\ req[s].op = "granted" => req'[s].pair = req[s].pair
              /\ req[s].op = "denied" => req'[s].why = req[s].why
              /\ IF req[s].tab = t THEN req'[s].tab = NoTab ELSE req'[s] = req[s]
    BY PageGoneDoes
  <1>2. Good \subseteq Good'
    BY DEF Good, Live
  <1>3. \A s \in Requests : Grants(req'[s]) => Grants(req[s]) /\ req'[s].pair = req[s].pair
    BY <1>1 DEF Grants, Idle
  <1>4. \A s \in Requests : Holds(req'[s]) =>
           /\ Holds(req[s]) /\ req'[s].token = req[s].token
           /\ req'[s].tab = NoTab => req[s].tab = NoTab \/ req[s].token \in ended'
    BY <1>1 DEF Holds
  <1>5. ASSUME stored' = stored, jobs = req, NEW s \in Requests,
               Holds(req[s]), req[s].token = stored, req[s].tab # NoTab, stored \notin ended'
        PROVE  Holds(req'[s]) /\ req'[s].token = stored /\ req'[s].tab # NoTab
    <2>1. req[s].tab # t /\ req[s] # Idle
      BY <1>5 DEF Holds
    <2>2. req'[s] = req[s]
      BY <1>5, <2>1, DetachedJobs
    <2>3. QED
      BY <1>5, <2>2
  <1> QED
    BY <1>2, <1>3, <1>4, <1>5, GoodStep

LEMMA GoodGone ==
  ASSUME TInv, QInv, KInv,
         \/ \E q \in Calls : NothingToRefresh(q)
         \/ \E r \in Requests : NotRefreshed(r)
         \/ \E t \in Tabs : Reload(t)
  PROVE  KInv'
  <1>1. req \in [Requests -> Job]
    BY DEF TInv, TypeOK
  <1>2. ASSUME NEW q \in Calls, NothingToRefresh(q)
        PROVE  KInv'
    <2>1. PICK t \in Tabs : t = call[q].tab /\ t \notin refreshing
      BY <1>2, NoCallIsCall, CallFacts DEF NothingToRefresh, Refused, TInv, TypeOK
    <2>2. req' = Detached(t, req) /\ stored' = NoPair /\ UNCHANGED <<token, ended>>
      BY <1>2, <2>1 DEF NothingToRefresh, SignOut, server, history
    <2>3. \A s \in Requests : ~(Holds(req[s]) /\ req[s].tab = t)
      BY <2>1 DEF QInv, OneRefresh, Refreshes, Holds
    <2>4. QED
      BY <1>1, <2>2, <2>3, GoodPageGone
  <1>3. ASSUME NEW r \in Requests, NotRefreshed(r)
        PROVE  KInv'
    <2>1. req[r] # Idle /\ req[r].token # NoPair /\ req[r].tab \in Tabs
      BY <1>3, JobFacts, SessionAssumption DEF NotRefreshed, TInv, TypeOK, Idle
    <2>2. PICK t \in Tabs : t = req[r].tab
      BY <2>1
    <2>3. PICK jobs : jobs = [req EXCEPT ![r] = Idle]
      OBVIOUS
    <2>4. req' = Detached(t, jobs) /\ stored' = NoPair /\ UNCHANGED <<token, ended>>
      BY <1>3, <2>2, <2>3 DEF NotRefreshed, SignOut, server
    <2>5. /\ jobs \in [Requests -> Job] /\ jobs[r] = Idle
          /\ \A s \in Requests : jobs[s] \in {req[s], Idle}
      BY <1>1, <2>3 DEF Job
    <2>6. \A s \in Requests : Holds(req[s]) /\ req[s].tab = t => s = r
      BY <2>1, <2>2 DEF QInv, OneRefresh, Refreshes, Holds
    <2>7. QED
      BY <2>4, <2>5, <2>6, GoodPageGone
  <1>4. ASSUME NEW t \in Tabs, Reload(t)
        PROVE  KInv'
    <2>1. req' = Detached(t, req) /\ stored' = stored /\ UNCHANGED token
      BY <1>4 DEF Reload, server
    <2>2. ended' = ended \cup {req[s].token : s \in Refreshes(t)}
      BY <1>4 DEF Reload
    <2>3. \A s \in Requests : Holds(req[s]) /\ req[s].tab = t => s \in Refreshes(t)
      BY DEF Holds, Refreshes
    <2>4. QED
      BY <1>1, <2>1, <2>2, <2>3, GoodPageGone
  <1> QED
    BY <1>2, <1>3, <1>4

LEMMA GoodAlways ==
  ASSUME TInv, QInv, KInv, [Next]_vars
  PROVE  KInv'
  <1>1. ASSUME NEW q \in Calls, CallStep(q)
        PROVE  KInv'
    BY <1>1, GoodCall, GoodStartRefresh, GoodGone DEF CallStep
  <1>2. ASSUME NEW r \in Requests, RequestStep(r)
        PROVE  KInv'
    BY <1>2, GoodServer, GoodRevokeToken, GoodIssuePair, GoodAnswer, GoodGone DEF RequestStep
  <1>3. CASE World
    <2>1. CASE RevokeAll
      BY <2>1, GoodSame DEF RevokeAll, Live, client, Good, TInv, TypeOK
    <2>2. ASSUME NEW p \in Pairs, AccessExpires(p)
          PROVE  KInv'
      BY <2>2, GoodSame DEF AccessExpires, client, history, Live, Good
    <2>3. QED
      BY <1>3, <2>1, <2>2, GoodGone DEF World
  <1>4. CASE UNCHANGED vars
    BY <1>4, GoodSame DEF vars, server, client, history, Live, Good
  <1> QED
    BY <1>1, <1>2, <1>3, <1>4 DEF Next

\* The token the browser keeps is never one that was rotated away: it is live, or was
\* ended, or its refresh is under way for a tab that is open.
THEOREM KeptLive == Spec => []KeptTokenIsLive
  <1>1. Init => TInv /\ QInv /\ KInv
    BY TypeInit, QueueInit, GoodInit
  <1>2. TInv /\ QInv /\ KInv /\ [Next]_vars => (TInv /\ QInv /\ KInv)'
    BY TypeStep, QueueStep, GoodAlways
  <1>3. TInv /\ QInv /\ KInv => KeptTokenIsLive
    BY DEF KInv
  <1> QED
    BY <1>1, <1>2, <1>3, PTL DEF Spec

=============================================================================
