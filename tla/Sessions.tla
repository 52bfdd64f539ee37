------------------------------- MODULE Sessions -------------------------------
(***************************************************************************)
(* The session of one user in one browser: the refresh tokens of           *)
(* auth.service.ts and refresh-token.repository.ts, and the client that    *)
(* keeps a pair of tokens in localStorage (axios-instance.ts, auth.store.ts *)
(* and the hooks for login and logout).                                    *)
(*                                                                         *)
(* Tabs share localStorage but nothing else: each has its own `refreshing` *)
(* flag, its own queue of calls behind it and its own copy of the refresh  *)
(* token, read when the page was loaded.  The server looks a refresh token *)
(* up, revokes it and stores the next one in different awaits.              *)
(***************************************************************************)
EXTENDS Naturals, FiniteSets

CONSTANTS
  Tabs,      \* pages of the browser
  NoTab,     \* a page that is gone
  Pairs,     \* pairs of an access and a refresh token the server may issue; a bound
  NoPair,    \* no Authorization header, no item in storage
  Calls,     \* calls of the API in flight
  Requests,  \* logins and refreshes in flight
  MaxCalls   \* bound: calls sent

ASSUME SessionAssumption ==
  /\ NoTab \notin Tabs
  /\ NoPair \notin Pairs
  /\ MaxCalls \in Nat

VARIABLES
  token,       \* [Pairs -> {"none", "live", "revoked"}]: refresh_tokens; one that is
               \* past its seven days counts as revoked, as refresh treats them alike
  stale,       \* pairs whose access token has expired (15 minutes)
  stored,      \* localStorage: the pair kept for all tabs
  memory,      \* [Tabs -> Pairs \cup {NoPair}]: the refresh token in auth.store
  refreshing,  \* tabs with isRefreshing
  call,        \* [Calls -> Call]
  req,         \* [Requests -> Job]
  sent,        \* calls sent so far
  family,      \* history: [Pairs -> Pairs \cup {NoPair}] the pair of the login it descends from
  raced,       \* history: logins with a token that two refreshes presented at once
  ended,       \* history: pairs a logout or the clock ended, or whose refresh outlived its page
  abandoned    \* history: pairs no longer kept for a reason the server cannot see

server == <<token, stale>>
client == <<stored, memory, refreshing, call, sent>>
history == <<family, raced, ended, abandoned>>
vars == <<server, client, req, history>>

Live == {p \in Pairs : token[p] = "live"}

NoCall == [state |-> "idle"]

\* sent: its answer is awaited; queued: in failedQueue; waiting: it started the
\* refresh; revoked: a logout is answered.  `with`
\* is the access token it carries, `token` what a logout asks to revoke.
Call ==
  {NoCall}
  \cup [state : {"sent", "queued", "waiting", "revoked"}, tab : Tabs,
        kind : {"data", "logout"}, retried : BOOLEAN,
        with : Pairs \cup {NoPair}, token : Pairs \cup {NoPair}]

Idle == [op |-> "idle"]

\* The next await of a refresh: look the token up and read its user, revoke,
\* store the new one; or its answer on the way.  A login (token NoPair) has the last two.
Job ==
  {Idle}
  \cup [op : {"find", "revoke"}, tab : Tabs \cup {NoTab}, token : Pairs]
  \cup [op : {"issue"}, tab : Tabs \cup {NoTab}, token : Pairs \cup {NoPair}]
  \cup [op : {"granted"}, tab : Tabs \cup {NoTab}, token : Pairs \cup {NoPair}, pair : Pairs]
  \cup [op : {"denied"}, tab : Tabs \cup {NoTab}, token : Pairs,
        why : {"invalid", "error"}]

TypeOK ==
  /\ token \in [Pairs -> {"none", "live", "revoked"}]
  /\ stale \subseteq Pairs
  /\ stored \in Pairs \cup {NoPair}
  /\ memory \in [Tabs -> Pairs \cup {NoPair}]
  /\ refreshing \subseteq Tabs
  /\ call \in [Calls -> Call]
  /\ req \in [Requests -> Job]
  /\ sent \in 0 .. MaxCalls
  /\ family \in [Pairs -> Pairs \cup {NoPair}]
  /\ raced \subseteq Pairs
  /\ ended \subseteq Pairs
  /\ abandoned \subseteq Pairs

Init ==
  /\ token = [p \in Pairs |-> "none"]
  /\ stale = {}
  /\ stored = NoPair
  /\ memory = [t \in Tabs |-> NoPair]
  /\ refreshing = {}
  /\ call = [q \in Calls |-> NoCall]
  /\ req = [r \in Requests |-> Idle]
  /\ sent = 0
  /\ family = [p \in Pairs |-> NoPair]
  /\ raced = {}
  /\ ended = {}
  /\ abandoned = {}

Goto(r, job) == req' = [req EXCEPT ![r] = job]
CallGoes(q, c) == call' = [call EXCEPT ![q] = c]

Of(t) == {q \in Calls : call[q] # NoCall /\ call[q].tab = t}

\* The page goes away: its calls are aborted, the server finishes what it has begun.
NoCallsOf(t) == [q \in Calls |-> IF q \in Of(t) THEN NoCall ELSE call[q]]
Detached(t, jobs) ==
  [r \in Requests |-> IF jobs[r] # Idle /\ jobs[r].tab = t
                      THEN [jobs[r] EXCEPT !.tab = NoTab] ELSE jobs[r]]
Refreshes(t) == {r \in Requests : req[r] # Idle /\ req[r].tab = t /\ req[r].token # NoPair}

\* Presented now: sent for a refresh whose answer is not in yet.
Presented(p) == {r \in Requests : req[r] # Idle /\ req[r].token = p}

-----------------------------------------------------------------------------
(* Calls of the API and the two interceptors. *)

\* The request interceptor adds what is in storage; useLogout adds the token its
\* store holds.
Send(q, t, kind) ==
  /\ call[q] = NoCall
  /\ memory[t] # NoPair
  /\ sent < MaxCalls /\ sent' = sent + 1
  /\ CallGoes(q, [state |-> "sent", tab |-> t, kind |-> kind, retried |-> FALSE,
                  with |-> stored, token |-> IF kind = "logout" THEN memory[t] ELSE NoPair])
  /\ UNCHANGED <<server, stored, memory, refreshing, req, history>>

\* storeLogout: whatever the store's token was, localStorage is emptied.
LogOut(q) ==
  /\ stored' = NoPair
  /\ memory' = [memory EXCEPT ![call[q].tab] = NoPair]
  /\ CallGoes(q, NoCall)

\* What a failed refresh leaves: an empty storage and the login page.
SignOut(t) ==
  /\ stored' = NoPair
  /\ memory' = [memory EXCEPT ![t] = NoPair]
  /\ refreshing' = refreshing \ {t}
  /\ call' = NoCallsOf(t)

Refused(q) ==
  /\ call[q].state = "sent"
  /\ call[q].with \in stale \cup {NoPair}

\* 401 while a refresh is under way: into failedQueue.
Enqueue(q) ==
  /\ Refused(q)
  /\ ~call[q].retried
  /\ call[q].tab \in refreshing
  /\ CallGoes(q, [call[q] EXCEPT !.state = "queued"])
  /\ UNCHANGED <<sent, server, stored, memory, refreshing, req, history>>

\* 401: the first one refreshes with the stored token.
StartRefresh(q, r) ==
  LET t == call[q].tab IN
  /\ Refused(q)
  /\ ~call[q].retried
  /\ t \notin refreshing
  /\ stored # NoPair
  /\ req[r] = Idle
  /\ raced' = IF Presented(stored) # {} THEN raced \cup {family[stored]} ELSE raced
  /\ refreshing' = refreshing \cup {t}
  /\ CallGoes(q, [call[q] EXCEPT !.state = "waiting", !.retried = TRUE])
  /\ Goto(r, [op |-> "find", tab |-> t, token |-> stored])
  /\ UNCHANGED <<sent, server, stored, memory, family, ended, abandoned>>

\* 401 with nothing to refresh with.
NothingToRefresh(q) ==
  LET t == call[q].tab IN
  /\ Refused(q)
  /\ ~call[q].retried
  /\ t \notin refreshing
  /\ stored = NoPair
  /\ SignOut(t)
  /\ req' = Detached(t, req)
  /\ UNCHANGED <<sent, server, history>>

\* 401 after a retry: the error goes to the caller.
GiveUp(q) ==
  /\ Refused(q)
  /\ call[q].retried
  /\ IF call[q].kind = "logout"
     THEN /\ LogOut(q)
          /\ abandoned' = abandoned \cup ({stored} \ {NoPair})
     ELSE /\ CallGoes(q, NoCall)
          /\ UNCHANGED <<stored, memory, abandoned>>
  /\ UNCHANGED <<sent, server, refreshing, req, family, raced, ended>>

Accepted(q) ==
  /\ call[q].state = "sent"
  /\ call[q].with \notin stale \cup {NoPair}

Answer(q) ==
  /\ Accepted(q)
  /\ call[q].kind = "data"
  /\ CallGoes(q, NoCall)
  /\ UNCHANGED <<sent, server, stored, memory, refreshing, req, history>>

\* Mutant: the logout is answered but revokes nothing.
LogoutWithoutRevoke(q) ==
  /\ Accepted(q)
  /\ call[q].kind = "logout"
  /\ CallGoes(q, [call[q] EXCEPT !.state = "revoked"])
  /\ UNCHANGED <<sent, server, stored, memory, refreshing, req, history>>

\* revokeByTokenHash.
Logout(q) ==
  LET p == call[q].token IN
  /\ Accepted(q)
  /\ call[q].kind = "logout"
  /\ token' = [token EXCEPT ![p] = "revoked"]
  /\ ended' = ended \cup {p}
  /\ CallGoes(q, [call[q] EXCEPT !.state = "revoked"])
  /\ UNCHANGED <<sent, stale, stored, memory, refreshing, req, family, raced, abandoned>>

\* onSettled.  A tab that has not been loaded since the last refresh revoked an
\* older token than the one it drops.
SettleLogout(q) ==
  /\ call[q].state = "revoked"
  /\ abandoned' = abandoned \cup ({stored} \ {NoPair, call[q].token})
  /\ LogOut(q)
  /\ UNCHANGED <<sent, server, refreshing, req, family, raced, ended>>

\* An exception, or no connection.  A logout is settled all the same.
CallFails(q) ==
  /\ call[q].state = "sent"
  /\ IF call[q].kind = "logout"
     THEN /\ LogOut(q)
          /\ abandoned' = abandoned \cup ({stored} \ {NoPair})
     ELSE /\ CallGoes(q, NoCall)
          /\ UNCHANGED <<stored, memory, abandoned>>
  /\ UNCHANGED <<sent, server, refreshing, req, family, raced, ended>>

-----------------------------------------------------------------------------
(* The server: login and refresh. *)

\* The checks of login, of the account and its password; a login that is turned
\* away changes nothing.
Login(r, t) ==
  /\ req[r] = Idle
  /\ memory[t] = NoPair
  /\ \A s \in Requests : req[s] # Idle /\ req[s].tab = t => req[s].token # NoPair
  /\ Goto(r, [op |-> "issue", tab |-> t, token |-> NoPair])
  /\ UNCHANGED <<server, client, history>>

Deny(r, why) ==
  Goto(r, [op |-> "denied", tab |-> req[r].tab, token |-> req[r].token, why |-> why])

\* The token must be neither revoked nor expired, and the user active: an admin
\* deactivates and activates him whenever he likes.
FindToken(r) ==
  /\ req[r].op = "find"
  /\ IF req[r].token \notin Live THEN Deny(r, "invalid")
     ELSE \/ Goto(r, [req[r] EXCEPT !.op = "revoke"])
          \/ Deny(r, "error")
  /\ UNCHANGED <<server, client, history>>

\* Mutant: rotation keeps the old token.
RevokeNothing(r) ==
  /\ req[r].op = "revoke"
  /\ Goto(r, [req[r] EXCEPT !.op = "issue"])
  /\ UNCHANGED <<server, client, history>>

RevokeToken(r) ==
  /\ req[r].op = "revoke"
  /\ token' = [token EXCEPT ![req[r].token] = "revoked"]
  /\ Goto(r, [req[r] EXCEPT !.op = "issue"])
  /\ UNCHANGED <<stale, client, history>>

\* storeRefreshToken.
IssuePair(r, p) ==
  LET from == req[r].token IN
  /\ req[r].op = "issue"
  /\ token[p] = "none"
  /\ token' = [token EXCEPT ![p] = "live"]
  /\ family' = [family EXCEPT ![p] = IF from = NoPair THEN p ELSE family[from]]
  /\ Goto(r, [op |-> "granted", tab |-> req[r].tab, token |-> from, pair |-> p])
  /\ UNCHANGED <<stale, client, raced, ended, abandoned>>

\* An await throws, or the answer is lost: to the client a refresh has failed.
RequestFails(r) ==
  /\ req[r].op \in {"find", "revoke", "issue", "granted"}
  /\ abandoned' = IF req[r].op = "granted" THEN abandoned \cup {req[r].pair} ELSE abandoned
  /\ IF req[r].token = NoPair THEN Goto(r, Idle) ELSE Deny(r, "error")
  /\ UNCHANGED <<server, client, family, raced, ended>>

-----------------------------------------------------------------------------
(* The answers. *)

\* store.login.
LoggedIn(r) ==
  LET t == req[r].tab IN
  /\ req[r].op = "granted"
  /\ req[r].token = NoPair
  /\ t # NoTab
  /\ stored' = req[r].pair
  /\ memory' = [memory EXCEPT ![t] = req[r].pair]
  /\ abandoned' = abandoned \cup ({stored} \ {NoPair})
  /\ Goto(r, Idle)
  /\ UNCHANGED <<sent, server, refreshing, call, family, raced, ended>>

\* Sent again with the new access token.
Resent(qs, p) ==
  [q \in Calls |-> IF q \in qs THEN [call[q] EXCEPT !.state = "sent", !.with = p] ELSE call[q]]

\* Mutant: the calls in the queue are forgotten.
RefreshedNoQueue(r) ==
  LET t == req[r].tab
      p == req[r].pair
  IN
  /\ req[r].op = "granted"
  /\ req[r].token # NoPair
  /\ t # NoTab
  /\ stored' = p
  /\ abandoned' = abandoned \cup ({stored} \ {NoPair, req[r].token})
  /\ call' = Resent({q \in Of(t) : call[q].state = "waiting"}, p)
  /\ refreshing' = refreshing \ {t}
  /\ Goto(r, Idle)
  /\ UNCHANGED <<sent, server, memory, family, raced, ended>>

\* Mutant: only the access token is stored.
RefreshedAccessOnly(r) ==
  LET t == req[r].tab
      p == req[r].pair
  IN
  /\ req[r].op = "granted"
  /\ req[r].token # NoPair
  /\ t # NoTab
  /\ call' = Resent({q \in Of(t) : call[q].state \in {"queued", "waiting"}}, p)
  /\ refreshing' = refreshing \ {t}
  /\ Goto(r, Idle)
  /\ UNCHANGED <<sent, server, stored, memory, history>>

\* Stored for all tabs; processQueue, then the call that started it.  The store
\* is not told.
Refreshed(r) ==
  LET t == req[r].tab
      p == req[r].pair
  IN
  /\ req[r].op = "granted"
  /\ req[r].token # NoPair
  /\ t # NoTab
  /\ stored' = p
  /\ abandoned' = abandoned \cup ({stored} \ {NoPair, req[r].token})
  /\ call' = Resent({q \in Of(t) : call[q].state \in {"queued", "waiting"}}, p)
  /\ refreshing' = refreshing \ {t}
  /\ Goto(r, Idle)
  /\ UNCHANGED <<sent, server, memory, family, raced, ended>>

\* What another tab stored meanwhile is removed too.
NotRefreshed(r) ==
  LET t == req[r].tab IN
  /\ req[r].op = "denied"
  /\ t # NoTab
  /\ abandoned' = abandoned \cup
       IF req[r].why = "invalid" THEN {stored} \ {NoPair, req[r].token} ELSE {stored} \ {NoPair}
  /\ SignOut(t)
  /\ req' = Detached(t, [req EXCEPT ![r] = Idle])
  /\ UNCHANGED <<sent, server, family, raced, ended>>

\* Nobody waits for it any more.
AnswerDropped(r) ==
  /\ req[r].op \in {"granted", "denied"}
  /\ req[r].tab = NoTab
  /\ abandoned' = IF req[r].op = "granted" THEN abandoned \cup {req[r].pair} ELSE abandoned
  /\ Goto(r, Idle)
  /\ UNCHANGED <<server, client, family, raced, ended>>

-----------------------------------------------------------------------------
(* The rest of the world. *)

\* The page is loaded again: the store starts from localStorage.
Reload(t) ==
  /\ memory' = [memory EXCEPT ![t] = stored]
  /\ refreshing' = refreshing \ {t}
  /\ call' = NoCallsOf(t)
  /\ req' = Detached(t, req)
  /\ ended' = ended \cup {req[r].token : r \in Refreshes(t)}
  /\ UNCHANGED <<sent, server, stored, family, raced, abandoned>>

AccessExpires(p) ==
  /\ token[p] # "none"
  /\ p \notin stale
  /\ stale' = stale \cup {p}
  /\ UNCHANGED <<token, client, req, history>>

\* logoutAll, resetPassword or changePassword, here or on another device: after
\* its own writes each ends in revokeAllByUserId.  Seven days without a refresh do
\* the same.
RevokeAll ==
  /\ Live # {}
  /\ token' = [p \in Pairs |-> IF p \in Live THEN "revoked" ELSE token[p]]
  /\ ended' = ended \cup Live
  /\ UNCHANGED <<stale, client, req, family, raced, abandoned>>

-----------------------------------------------------------------------------
CallStep(q) ==
  \/ \E t \in Tabs, kind \in {"data", "logout"} : Send(q, t, kind)
  \/ Enqueue(q) \/ NothingToRefresh(q) \/ GiveUp(q)
  \/ \E r \in Requests : StartRefresh(q, r)
  \/ Answer(q) \/ Logout(q) \/ SettleLogout(q)
  \/ CallFails(q)

RequestStep(r) ==
  \/ \E t \in Tabs : Login(r, t)
  \/ FindToken(r) \/ RevokeToken(r)
  \/ \E p \in Pairs : IssuePair(r, p)
  \/ LoggedIn(r) \/ Refreshed(r) \/ NotRefreshed(r) \/ AnswerDropped(r)
  \/ RequestFails(r)

World ==
  \/ \E t \in Tabs : Reload(t)
  \/ \E p \in Pairs : AccessExpires(p)
  \/ RevokeAll

Next ==
  \/ \E q \in Calls : CallStep(q)
  \/ \E r \in Requests : RequestStep(r)
  \/ World

Spec == Init /\ [][Next]_vars

-----------------------------------------------------------------------------
(* Safety. *)

\* Rotation: of the tokens that descend from one login at most one is live, unless
\* two refreshes presented one of them at the same time (refresh looks a token up
\* and revokes it in different awaits).
OneLivePerLogin ==
  \A p, q \in Live : family[p] = family[q] /\ p # q => family[p] \in raced

\* The client never keeps a token the server has rotated away: what is stored is
\* live, or a logout or time ended it, or its refresh is under way or lost its page.
KeptTokenIsLive ==
  stored \in Pairs =>
    \/ stored \in Live \cup ended
    \/ \E r \in Presented(stored) : req[r].tab # NoTab

\* Nothing a browser has let go of stays usable: a live token is stored, or on its
\* way, unless the browser dropped it without the server's knowledge (a failure, a
\* page that was left, another tab's login, or a logout in a tab whose store holds
\* an older token than localStorage).
LiveIsKept ==
  \A p \in Live :
    \/ p = stored
    \/ \E r \in Requests : req[r].op = "granted" /\ req[r].pair = p
    \/ p \in abandoned

\* No call is left in the queue: as long as one waits for a refresh, one is under
\* way for its tab.
QueuedIsAwaited ==
  \A q \in Calls : call[q].state \in {"queued", "waiting"} => Refreshes(call[q].tab) # {}

=============================================================================
