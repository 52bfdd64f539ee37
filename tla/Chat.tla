--------------------------------- MODULE Chat ---------------------------------
(***************************************************************************)
(* One conversation of a customer and a shop: chat.service.ts, its         *)
(* repositories, chat.gateway.ts and the client's useChatRoom.ts.          *)
(*                                                                         *)
(* The gateway keeps in memory who is online and who has the thread open;  *)
(* a join is counted after an await, a leave and a disconnect at once.     *)
(* The service stores a message and then, in awaits of their own, its      *)
(* receipt and the recipient's unread counter; markRead writes the same    *)
(* two in two awaits.                                                      *)
(***************************************************************************)
EXTENDS Integers, FiniteSets

CONSTANTS
  Users,      \* the customer and the shop's owner
  Tabs,
  UserOf,     \* [Tabs -> Users]
  Sockets,    \* connections the server may hold at once
  NoSocket,
  Messages,   \* rows of `messages`; a bound
  Requests,   \* HTTP requests in flight
  MaxJoins,   \* bound: joins of a socket that are awaited, packets a tab buffers
  MaxRoom     \* bound on the count of a user's sockets in the room, which ghosts raise

ASSUME ChatAssumption ==
  /\ UserOf \in [Tabs -> Users]
  /\ NoSocket \notin Sockets
  /\ MaxJoins \in Nat /\ MaxRoom \in Nat
  /\ IsFiniteSet(Sockets) /\ IsFiniteSet(Messages) /\ IsFiniteSet(Requests)

VARIABLES
  open,       \* tabs that show the thread
  link,       \* [Tabs -> Sockets \cup {NoSocket}] the connection a tab has
  buffer,     \* [Tabs -> packets socket.io keeps until the tab is connected]
  owner,      \* [Sockets -> Users \cup {NoUser}] client.data.userId
  connected,  \* sockets between handleConnection and handleDisconnect
  joined,     \* sockets with the conversation in their socketConversations
  joining,    \* [Sockets -> handleJoin calls that await assertParticipant]
  onlineCount,
  room,       \* [Users -> Int]: conversationUsers
  msg,        \* [Messages -> Message]
  unread,     \* [Users -> Nat]: customer_unread and seller_unread
  req,        \* [Requests -> Job]
  disturbed,  \* history: users with a join that came twice, after its socket was gone or
              \* after its tab had left, or a leave that came before its join
  drifted,    \* history: users whose counter two requests wrote at once or one left half
              \* done, and no other has reset since
  seen,       \* history: messages whose recipient had the thread open or marked it read
  unheard     \* history: messages that came when all the gateway had of the recipient in
              \* the room were connections it had not heard are gone

gateway == <<owner, connected, joined, joining, onlineCount, room>>
client == <<open, link, buffer>>
service == <<msg, unread, req, drifted, seen, unheard>>
vars == <<gateway, client, service, disturbed>>

NoUser == "nobody"
NoMessage == [status |-> "none"]
Message == {NoMessage} \cup [to : Users, status : {"sent", "delivered", "read"}]

Idle == [op |-> "idle"]

\* The next await of sendMessage: insert, resolve the receipt, write it, bump the
\* counter; of markRead: mark the messages, reset the counter (clean: no message
\* came in between).
Job ==
  {Idle}
  \cup [op : {"create"}, to : Users]
  \cup [op : {"resolve"}, to : Users, msg : Messages]
  \cup [op : {"status", "bump"}, to : Users, msg : Messages,
        delivery : {"sent", "delivered", "read"}]
  \cup [op : {"mark"}, by : Users]
  \cup [op : {"reset"}, by : Users, clean : BOOLEAN]

TypeOK ==
  /\ open \subseteq Tabs
  /\ link \in [Tabs -> Sockets \cup {NoSocket}]
  /\ buffer \in [Tabs -> [joins : 0 .. MaxJoins, leaves : 0 .. MaxJoins]]
  /\ owner \in [Sockets -> Users \cup {NoUser}]
  /\ connected \subseteq Sockets
  /\ joined \subseteq connected
  /\ joining \in [Sockets -> Nat]
  /\ onlineCount \in [Users -> Nat]
  /\ room \in [Users -> Nat]
  /\ msg \in [Messages -> Message]
  /\ unread \in [Users -> Nat]
  /\ req \in [Requests -> Job]
  /\ disturbed \cup drifted \subseteq Users
  /\ seen \cup unheard \subseteq Messages

Empty == [joins |-> 0, leaves |-> 0]

Init ==
  /\ open = {}
  /\ link = [t \in Tabs |-> NoSocket]
  /\ buffer = [t \in Tabs |-> Empty]
  /\ owner = [s \in Sockets |-> NoUser]
  /\ connected = {}
  /\ joined = {}
  /\ joining = [s \in Sockets |-> 0]
  /\ onlineCount = [u \in Users |-> 0]
  /\ room = [u \in Users |-> 0]
  /\ msg = [m \in Messages |-> NoMessage]
  /\ unread = [u \in Users |-> 0]
  /\ req = [r \in Requests |-> Idle]
  /\ disturbed = {}
  /\ drifted = {}
  /\ seen = {}
  /\ unheard = {}

-----------------------------------------------------------------------------
(* The gateway's counters. *)

\* leaveConversationRoom, n times: a count that is not there stays away.
Left(counts, u, n) == [counts EXCEPT ![u] = IF @ >= n THEN @ - n ELSE 0]

\* Sockets of a user that are in the room.
Present(u) == {s \in joined : owner[s] = u}

-----------------------------------------------------------------------------
(* Connections.  The client notices a broken one at once, the server later: a
   tab may be connected again before. *)

\* handleConnection; then what the tab had buffered, leaves before joins since those
\* await; then 'connect', for which the thread joins again.
Connect(t, s) ==
  LET u == UserOf[t]
      left == buffer[t].leaves
  IN
  /\ link[t] = NoSocket
  /\ s \notin connected /\ joining[s] = 0
  /\ link' = [link EXCEPT ![t] = s]
  /\ owner' = [owner EXCEPT ![s] = u]
  /\ connected' = connected \cup {s}
  /\ onlineCount' = [onlineCount EXCEPT ![u] = @ + 1]
  /\ room' = Left(room, u, left)
  /\ joining' = [joining EXCEPT ![s] = buffer[t].joins + IF t \in open THEN 1 ELSE 0]
  /\ disturbed' = IF left > 0 THEN disturbed \cup {u} ELSE disturbed
  /\ buffer' = [buffer EXCEPT ![t] = Empty]
  /\ UNCHANGED <<open, joined, service>>

Disconnect(t) ==
  /\ link[t] # NoSocket
  /\ link' = [link EXCEPT ![t] = NoSocket]
  /\ UNCHANGED <<open, buffer, gateway, service, disturbed>>

\* Mutant: the rooms the socket was in are forgotten.
HandleDisconnectOnly(s) ==
  LET u == owner[s] IN
  /\ s \in connected
  /\ \A t \in Tabs : link[t] # s
  /\ connected' = connected \ {s}
  /\ joined' = joined \ {s}
  /\ onlineCount' = [onlineCount EXCEPT ![u] = @ - 1]
  /\ UNCHANGED <<owner, joining, room, client, service, disturbed>>

HandleDisconnect(s) ==
  LET u == owner[s] IN
  /\ s \in connected
  /\ \A t \in Tabs : link[t] # s
  /\ room' = IF s \in joined THEN Left(room, u, 1) ELSE room
  /\ connected' = connected \ {s}
  /\ joined' = joined \ {s}
  /\ onlineCount' = [onlineCount EXCEPT ![u] = @ - 1]
  /\ UNCHANGED <<owner, joining, client, service, disturbed>>

\* The thread is mounted: a join, or one for the buffer.
Open(t) ==
  /\ t \notin open
  /\ open' = open \cup {t}
  /\ IF link[t] # NoSocket
     THEN /\ joining[link[t]] < MaxJoins
          /\ joining' = [joining EXCEPT ![link[t]] = @ + 1]
          /\ UNCHANGED buffer
     ELSE /\ buffer[t].joins + 1 < MaxJoins
          /\ buffer' = [buffer EXCEPT ![t].joins = @ + 1]
          /\ UNCHANGED joining
  /\ UNCHANGED <<link, owner, connected, joined, onlineCount, room, service, disturbed>>

\* handleJoin once the membership is checked.
HandleJoin(s) ==
  LET u == owner[s] IN
  /\ joining[s] > 0 /\ room[u] < MaxRoom
  /\ joining' = [joining EXCEPT ![s] = @ - 1]
  /\ room' = [room EXCEPT ![u] = @ + 1]
  /\ joined' = IF s \in connected THEN joined \cup {s} ELSE joined
  /\ disturbed' = IF \/ s \in joined \/ s \notin connected
                     \/ \E t \in Tabs \ open : link[t] = s
                  THEN disturbed \cup {u} ELSE disturbed
  /\ UNCHANGED <<owner, connected, onlineCount, client, service>>

\* assertParticipant throws.
JoinFails(s) ==
  /\ joining[s] > 0
  /\ joining' = [joining EXCEPT ![s] = @ - 1]
  /\ UNCHANGED <<owner, connected, joined, onlineCount, room, client, service, disturbed>>

\* The thread is unmounted: handleLeave, or a leave for the buffer.
Close(t) ==
  LET s == link[t]
      u == UserOf[t]
  IN
  /\ t \in open
  /\ open' = open \ {t}
  /\ IF s # NoSocket
     THEN /\ joined' = joined \ {s}
          /\ room' = Left(room, u, 1)
          /\ disturbed' = IF s \in joined THEN disturbed ELSE disturbed \cup {u}
          /\ UNCHANGED buffer
     ELSE /\ buffer[t].leaves < MaxJoins
          /\ buffer' = [buffer EXCEPT ![t].leaves = @ + 1]
          /\ UNCHANGED <<joined, room, disturbed>>
  /\ UNCHANGED <<link, owner, connected, joining, onlineCount, service>>

-----------------------------------------------------------------------------
(* Messages. *)

Goto(r, job) == req' = [req EXCEPT ![r] = job]

\* Sends to u that have inserted their message.
Sending(u) == {r \in Requests : req[r].op \in {"resolve", "status", "bump"} /\ req[r].to = u}
Resetting(u) == {r \in Requests : req[r].op = "reset" /\ req[r].by = u}

\* A tab of the recipient shows the thread; or the gateway only believes one does.
Showing(u) == \E t \in open : UserOf[t] = u
HalfOpen(u) == Present(u) # {} /\ \A s \in Present(u), t \in Tabs : link[t] # s

Send(r, u) ==
  /\ req[r] = Idle
  /\ Goto(r, [op |-> "create", to |-> u])
  /\ UNCHANGED <<gateway, client, msg, unread, disturbed, drifted, seen, unheard>>

CreateMessage(r, m) ==
  LET u == req[r].to IN
  /\ req[r].op = "create"
  /\ msg[m] = NoMessage
  /\ msg' = [msg EXCEPT ![m] = [to |-> u, status |-> "sent"]]
  /\ req' = [q \in Requests |->
       IF q = r THEN [op |-> "resolve", to |-> u, msg |-> m]
       ELSE IF q \in Resetting(u) THEN [req[q] EXCEPT !.clean = FALSE] ELSE req[q]]
  /\ drifted' = IF Resetting(u) # {} THEN drifted \cup {u} ELSE drifted
  /\ UNCHANGED <<gateway, client, unread, disturbed, seen, unheard>>

\* Mutant: who is online is taken to be reading.
ResolveOnline(r) ==
  LET job == req[r]
      delivery == IF onlineCount[job.to] > 0 THEN "read" ELSE "sent"
  IN
  /\ job.op = "resolve"
  /\ Goto(r, [op |-> IF delivery = "sent" THEN "bump" ELSE "status",
              to |-> job.to, msg |-> job.msg, delivery |-> delivery])
  /\ seen' = IF Showing(job.to) THEN seen \cup {job.msg} ELSE seen
  /\ unheard' = IF HalfOpen(job.to) THEN unheard \cup {job.msg} ELSE unheard
  /\ UNCHANGED <<gateway, client, msg, unread, disturbed, drifted>>

\* resolveDeliveryStatus.
Resolve(r) ==
  LET job == req[r]
      delivery == IF room[job.to] > 0 THEN "read"
                  ELSE IF onlineCount[job.to] > 0 THEN "delivered" ELSE "sent"
  IN
  /\ job.op = "resolve"
  /\ Goto(r, [op |-> IF delivery = "sent" THEN "bump" ELSE "status",
              to |-> job.to, msg |-> job.msg, delivery |-> delivery])
  /\ seen' = IF Showing(job.to) THEN seen \cup {job.msg} ELSE seen
  /\ unheard' = IF HalfOpen(job.to) THEN unheard \cup {job.msg} ELSE unheard
  /\ UNCHANGED <<gateway, client, msg, unread, disturbed, drifted>>

UpdateStatus(r) ==
  LET job == req[r] IN
  /\ job.op = "status"
  /\ msg' = [msg EXCEPT ![job.msg].status = job.delivery]
  /\ Goto(r, [job EXCEPT !.op = "bump"])
  /\ UNCHANGED <<gateway, client, unread, disturbed, drifted, seen, unheard>>

\* Mutant: the counter moves for messages that were read as well.
BumpAlways(r) ==
  LET job == req[r] IN
  /\ job.op = "bump"
  /\ unread' = [unread EXCEPT ![job.to] = @ + 1]
  /\ Goto(r, Idle)
  /\ UNCHANGED <<gateway, client, msg, disturbed, drifted, seen, unheard>>

\* bumpOnNewMessage; the events that follow change nothing here.
Bump(r) ==
  LET job == req[r] IN
  /\ job.op = "bump"
  /\ unread' = IF job.delivery = "read" THEN unread ELSE [unread EXCEPT ![job.to] = @ + 1]
  /\ Goto(r, Idle)
  /\ UNCHANGED <<gateway, client, msg, disturbed, drifted, seen, unheard>>

MarkRead(r, u) ==
  /\ req[r] = Idle
  /\ Goto(r, [op |-> "mark", by |-> u])
  /\ UNCHANGED <<gateway, client, msg, unread, disturbed, drifted, seen, unheard>>

\* markConversationRead: every message to the reader.
MarkMessages(r) ==
  LET u == req[r].by
      mine == {m \in Messages : msg[m] # NoMessage /\ msg[m].to = u}
  IN
  /\ req[r].op = "mark"
  /\ msg' = [m \in Messages |-> IF m \in mine THEN [msg[m] EXCEPT !.status = "read"] ELSE msg[m]]
  /\ seen' = seen \cup mine
  /\ Goto(r, [op |-> "reset", by |-> u, clean |-> Sending(u) = {}])
  /\ drifted' = IF Sending(u) # {} THEN drifted \cup {u} ELSE drifted
  /\ UNCHANGED <<gateway, client, unread, disturbed, unheard>>

ResetUnread(r) ==
  LET u == req[r].by IN
  /\ req[r].op = "reset"
  /\ unread' = [unread EXCEPT ![u] = 0]
  /\ drifted' = IF req[r].clean THEN drifted \ {u} ELSE drifted
  /\ Goto(r, Idle)
  /\ UNCHANGED <<gateway, client, msg, disturbed, seen, unheard>>

\* An await throws.
Fail(r) ==
  LET half == CASE req[r].op \in {"resolve", "status", "bump"} -> {req[r].to}
                [] req[r].op = "reset" -> {req[r].by}
                [] OTHER -> {}
  IN
  /\ req[r] # Idle
  /\ drifted' = drifted \cup half
  /\ Goto(r, Idle)
  /\ UNCHANGED <<gateway, client, msg, unread, disturbed, seen, unheard>>

-----------------------------------------------------------------------------
Presence ==
  \/ \E t \in Tabs : \/ \E s \in Sockets : Connect(t, s)
                     \/ Disconnect(t) \/ Open(t) \/ Close(t)
  \/ \E s \in Sockets : HandleDisconnect(s) \/ HandleJoin(s) \/ JoinFails(s)

Request(r) ==
  \/ \E u \in Users : Send(r, u) \/ MarkRead(r, u)
  \/ \E m \in Messages : CreateMessage(r, m)
  \/ Resolve(r) \/ UpdateStatus(r) \/ Bump(r) \/ MarkMessages(r) \/ ResetUnread(r)
  \/ Fail(r)

Next == Presence \/ \E r \in Requests : Request(r)

Spec == Init /\ [][Next]_vars

-----------------------------------------------------------------------------
(* Safety. *)

\* conversationUsers counts the sockets in the room, and the tab behind one shows the
\* thread, over reconnections the server learns of late, unless a join or a leave of
\* the user was out of turn.
RoomIsExact ==
  \A u \in Users \ disturbed :
    /\ room[u] = Cardinality(Present(u))
    /\ \A t \in Tabs : UserOf[t] = u /\ link[t] \in joined => t \in open

\* An unread counter at rest is the number of unread messages, although messages
\* and counter are written in different awaits; if two requests drift them apart,
\* the next markRead that meets no message brings them together.
UnreadIsExact ==
  \A u \in Users :
    u \notin drifted /\ Sending(u) = {} /\ Resetting(u) = {} =>
      unread[u] = Cardinality({m \in Messages : msg[m] # NoMessage /\ msg[m].to = u
                                                /\ msg[m].status # "read"})

\* A read receipt is true: the recipient had the thread open in a tab when the message
\* came, or marked it read, unless his presence was disturbed or the gateway had yet to
\* hear that the connections it took for his presence were gone.
ReadWasSeen ==
  \A m \in Messages :
    msg[m].status = "read" => m \in seen \cup unheard \/ msg[m].to \in disturbed

=============================================================================
