---------------------------- MODULE ChatProofs ----------------------------
(***************************************************************************)
(* Proofs about Chat, for any users, tabs, sockets, messages and requests. *)
(***************************************************************************)
EXTENDS Chat, FiniteSetTheorems, TLAPS

TypePresence ==
  /\ open \subseteq Tabs
  /\ link \in [Tabs -> Sockets \cup {NoSocket}]
  /\ buffer \in [Tabs -> [joins : 0 .. MaxJoins, leaves : 0 .. MaxJoins]]
  /\ owner \in [Sockets -> Users \cup {NoUser}]
  /\ connected \subseteq Sockets
  /\ joined \subseteq connected
  /\ joining \in [Sockets -> Nat]
  /\ onlineCount \in [Users -> Nat]
  /\ room \in [Users -> Nat]
  /\ disturbed \subseteq Users

TypeService ==
  /\ msg \in [Messages -> Message]
  /\ unread \in [Users -> Nat]
  /\ req \in [Requests -> Job]
  /\ drifted \subseteq Users
  /\ seen \cup unheard \subseteq Messages

\* A tab's connection is one the server holds for its user.
Linked ==
  \A t \in Tabs : link[t] # NoSocket => link[t] \in connected /\ owner[link[t]] = UserOf[t]

Owned == \A s \in Sockets : s \in connected \/ joining[s] > 0 => owner[s] \in Users

Online(u) == {s \in connected : owner[s] = u}

RoomCounts == \A u \in Users \ disturbed : room[u] = Cardinality(Present(u))

\* A tab whose connection is in the room shows the thread.
Shown == \A t \in Tabs : link[t] \in joined => t \in open \/ UserOf[t] \in disturbed

OnlineIsExact == \A u \in Users : onlineCount[u] = Cardinality(Online(u))

PInv == TypePresence /\ Linked /\ Owned /\ OnlineIsExact /\ RoomCounts

SendOps == {"resolve", "status", "bump"}

\* A send works on a stored message to its recipient, and no other does.
Sends ==
  \A r \in Requests : req[r].op \in SendOps =>
    /\ msg[req[r].msg] # NoMessage /\ msg[req[r].msg].to = req[r].to
    /\ \A q \in Requests : req[q].op \in SendOps /\ req[q].msg = req[r].msg => q = r

UnreadTo(u) ==
  {m \in Messages : msg[m] # NoMessage /\ msg[m].to = u /\ msg[m].status # "read"}

\* Sends that have yet to count their message, or to mark it read.
Owing(u) == {r \in Sending(u) : req[r].op = "bump" => req[r].delivery # "read"}

OwedIsUnread ==
  \A u \in Users \ drifted : \A r \in Owing(u) : msg[req[r].msg].status # "read"

\* A reset that no message crossed finds nothing unread.
ResetsAreLast ==
  \A u \in Users : \A r \in Resetting(u) :
    req[r].clean \/ u \notin drifted => Sending(u) = {} /\ UnreadTo(u) = {}

Tally ==
  \A u \in Users \ drifted : Resetting(u) = {} =>
    unread[u] + Cardinality(Owing(u)) = Cardinality(UnreadTo(u))

SInv == TypeService /\ Sends /\ OwedIsUnread /\ ResetsAreLast /\ Tally

\* A receipt that is to say `read` is true already.
Receipted ==
  \A r \in Requests : req[r].op \in {"status", "bump"} /\ req[r].delivery = "read" =>
    req[r].msg \in seen \cup unheard \/ req[r].to \in disturbed

RInv == Receipted /\ ReadWasSeen

-----------------------------------------------------------------------------
(* Presence. *)

LEMMA SocketSets ==
  ASSUME PInv, NEW u \in Users
  PROVE  /\ IsFiniteSet(Online(u)) /\ IsFiniteSet(Present(u))
         /\ Cardinality(Online(u)) \in Nat /\ Cardinality(Present(u)) \in Nat
  <1>1. Online(u) \in SUBSET Sockets /\ Present(u) \in SUBSET Sockets
    BY DEF PInv, TypePresence, Online, Present
  <1>2. IsFiniteSet(Online(u)) /\ IsFiniteSet(Present(u))
    BY <1>1, ChatAssumption, FS_Subset
  <1> QED
    BY <1>2, FS_CardinalityType

LEMMA PresenceInit == ASSUME Init PROVE PInv
  <1>1. TypePresence
    BY ChatAssumption DEF Init, TypePresence, Empty
  <1>2. Linked /\ Owned
    BY DEF Init, Linked, Owned
  <1>3. \A u \in Users : Online(u) = {} /\ Present(u) = {}
    BY DEF Init, Online, Present
  <1>4. OnlineIsExact /\ RoomCounts
    BY <1>3, FS_EmptySet DEF Init, OnlineIsExact, RoomCounts
  <1> QED
    BY <1>1, <1>2, <1>4 DEF PInv

LEMMA PresenceSame ==
  ASSUME PInv, UNCHANGED <<gateway, client, disturbed>>
  PROVE  PInv'
  <1>1. TypePresence'
    BY DEF PInv, TypePresence, gateway, client
  <1>2. Linked' /\ Owned'
    BY DEF PInv, Linked, Owned, gateway, client
  <1>3. OnlineIsExact' /\ RoomCounts'
    BY DEF PInv, OnlineIsExact, RoomCounts, Online, Present, gateway, client
  <1> QED
    BY <1>1, <1>2, <1>3 DEF PInv

LEMMA PresenceConnect ==
  ASSUME PInv, NEW t \in Tabs, NEW s \in Sockets, Connect(t, s)
  PROVE  PInv'
  <1> DEFINE u == UserOf[t]
  <1>1. u \in Users /\ buffer[t] \in [joins : 0 .. MaxJoins, leaves : 0 .. MaxJoins]
    BY ChatAssumption DEF PInv, TypePresence
  <1>2. buffer[t].leaves \in Nat /\ buffer[t].joins \in Nat
    BY <1>1, ChatAssumption
  <1>3. /\ s \notin connected /\ s # NoSocket /\ link[t] = NoSocket
        /\ link' = [link EXCEPT ![t] = s]
        /\ owner' = [owner EXCEPT ![s] = u]
        /\ connected' = connected \cup {s} /\ joined' = joined
        /\ onlineCount' = [onlineCount EXCEPT ![u] = @ + 1]
        /\ room' = Left(room, u, buffer[t].leaves)
        /\ disturbed' = IF buffer[t].leaves > 0 THEN disturbed \cup {u} ELSE disturbed
    BY ChatAssumption DEF Connect
  <1>4. /\ buffer' = [buffer EXCEPT ![t] = Empty] /\ open' = open
        /\ joining' = [joining EXCEPT ![s] = buffer[t].joins + IF t \in open THEN 1 ELSE 0]
    BY DEF Connect
  <1> HIDE DEF u
  <1>5. TypePresence'
    <2>1. Empty \in [joins : 0 .. MaxJoins, leaves : 0 .. MaxJoins]
      BY ChatAssumption DEF Empty
    <2>2. buffer' \in [Tabs -> [joins : 0 .. MaxJoins, leaves : 0 .. MaxJoins]]
      BY <1>4, <2>1 DEF PInv, TypePresence
    <2>3. room' \in [Users -> Nat]
      BY <1>1, <1>2, <1>3 DEF PInv, TypePresence, Left
    <2>4. joining' \in [Sockets -> Nat]
      BY <1>2, <1>4 DEF PInv, TypePresence
    <2>5. QED
      BY <1>1, <1>3, <1>4, <2>2, <2>3, <2>4 DEF PInv, TypePresence
  <1>6. owner'[s] = u /\ \A x \in Sockets \ {s} : owner'[x] = owner[x]
    BY <1>3 DEF PInv, TypePresence
  <1>7. Linked'
    <2>1. \A x \in Tabs : link'[x] = IF x = t THEN s ELSE link[x]
      BY <1>3 DEF PInv, TypePresence
    <2>2. \A x \in Tabs : link[x] # NoSocket => link[x] \in Sockets
      BY DEF PInv, TypePresence
    <2>3. QED
      BY <1>3, <1>6, <2>1, <2>2 DEF PInv, Linked, u
  <1>8. Owned'
    <2>1. \A x \in Sockets \ {s} : joining'[x] = joining[x]
      BY <1>4 DEF PInv, TypePresence
    <2>2. QED
      BY <1>1, <1>3, <1>6, <2>1 DEF PInv, Owned
  <1>9. OnlineIsExact'
    <2>1. ASSUME NEW v \in Users
          PROVE  Online(v)' = IF v = u THEN Online(v) \cup {s} ELSE Online(v)
      BY <1>3, <1>6 DEF Online, PInv, TypePresence
    <2>2. \A v \in Users : s \notin Online(v)
      BY <1>3 DEF Online
    <2>3. \A v \in Users : onlineCount'[v] = IF v = u THEN onlineCount[v] + 1 ELSE onlineCount[v]
      BY <1>3 DEF PInv, TypePresence
    <2>4. ASSUME NEW v \in Users PROVE onlineCount'[v] = Cardinality(Online(v)')
      <3>1. Cardinality(Online(v) \cup {s}) = Cardinality(Online(v)) + 1
        BY <2>2, SocketSets, FS_AddElement
      <3>2. onlineCount[v] = Cardinality(Online(v))
        BY DEF PInv, OnlineIsExact
      <3>3. QED
        BY <2>1, <2>3, <3>1, <3>2
    <2>5. QED
      BY <2>4 DEF OnlineIsExact
  <1>10. RoomCounts'
    <2>1. ASSUME NEW v \in Users PROVE Present(v)' = Present(v)
      BY <1>3, <1>6 DEF Present, PInv, TypePresence
    <2>2. ASSUME NEW v \in Users, v \notin disturbed' PROVE room'[v] = room[v] /\ v \notin disturbed
      BY <1>1, <1>2, <1>3, <2>2 DEF Left, PInv, TypePresence
    <2>3. QED
      BY <2>1, <2>2 DEF PInv, RoomCounts
  <1> QED
    BY <1>5, <1>7, <1>8, <1>9, <1>10 DEF PInv

LEMMA PresenceDisconnect ==
  ASSUME PInv, NEW t \in Tabs, Disconnect(t)
  PROVE  PInv'
  <1>1. link' = [link EXCEPT ![t] = NoSocket] /\ UNCHANGED <<open, buffer, gateway, disturbed>>
    BY DEF Disconnect
  <1>2. TypePresence'
    BY <1>1 DEF PInv, TypePresence, gateway
  <1>3. Linked' /\ Owned'
    BY <1>1 DEF PInv, TypePresence, Linked, Owned, gateway
  <1>4. OnlineIsExact' /\ RoomCounts'
    BY <1>1 DEF PInv, OnlineIsExact, RoomCounts, Online, Present, gateway
  <1> QED
    BY <1>2, <1>3, <1>4 DEF PInv

\* A socket the room forgets: the count goes down with it.
LEMMA RoomLeaves ==
  ASSUME PInv, NEW u \in Users, NEW s \in joined, owner[s] = u, u \notin disturbed
  PROVE  Left(room, u, 1)[u] = Cardinality(Present(u) \ {s})
  <1>1. s \in Present(u)
    BY DEF Present
  <1>2. Cardinality(Present(u) \ {s}) = Cardinality(Present(u)) - 1
        /\ IsFiniteSet(Present(u) \ {s})
    BY <1>1, SocketSets, FS_RemoveElement
  <1>3. Cardinality(Present(u) \ {s}) \in Nat
    BY <1>2, FS_CardinalityType
  <1>4. room[u] = Cardinality(Present(u)) /\ room \in [Users -> Nat]
    BY DEF PInv, RoomCounts, TypePresence
  <1> QED
    BY <1>2, <1>3, <1>4, SocketSets DEF Left

LEMMA LeftFacts ==
  ASSUME room \in [Users -> Nat], NEW u \in Users
  PROVE  /\ Left(room, u, 1) \in [Users -> Nat]
         /\ \A v \in Users \ {u} : Left(room, u, 1)[v] = room[v]
  BY DEF Left

LEMMA PresenceHandleDisconnect ==
  ASSUME PInv, NEW s \in Sockets, HandleDisconnect(s)
  PROVE  PInv'
  <1> DEFINE u == owner[s]
  <1>1. /\ s \in connected /\ \A t \in Tabs : link[t] # s
        /\ room' = IF s \in joined THEN Left(room, u, 1) ELSE room
        /\ connected' = connected \ {s} /\ joined' = joined \ {s}
        /\ onlineCount' = [onlineCount EXCEPT ![u] = @ - 1]
        /\ UNCHANGED <<owner, joining, client, disturbed>>
    BY DEF HandleDisconnect
  <1>2. u \in Users
    BY <1>1 DEF PInv, Owned
  <1> HIDE DEF u
  <1>3. \A v \in Users : Online(v)' = IF v = u THEN Online(v) \ {s} ELSE Online(v)
    BY <1>1 DEF Online, u
  <1>4. s \in Online(u)
    BY <1>1 DEF Online, u
  <1>5. /\ Cardinality(Online(u) \ {s}) = Cardinality(Online(u)) - 1
        /\ Cardinality(Online(u) \ {s}) \in Nat
    BY <1>2, <1>4, SocketSets, FS_RemoveElement, FS_CardinalityType
  <1>6. onlineCount \in [Users -> Nat] /\ onlineCount[u] = Cardinality(Online(u))
    BY <1>2 DEF PInv, TypePresence, OnlineIsExact
  <1>7. \A v \in Users : onlineCount'[v] = IF v = u THEN Cardinality(Online(u) \ {s}) ELSE onlineCount[v]
    BY <1>1, <1>5, <1>6
  <1>8. OnlineIsExact'
    BY <1>3, <1>7 DEF PInv, OnlineIsExact
  <1>9. room \in [Users -> Nat]
    BY DEF PInv, TypePresence
  <1>10. TypePresence'
    <2>1. room' \in [Users -> Nat]
      BY <1>1, <1>2, <1>9, LeftFacts
    <2>2. onlineCount' \in [Users -> Nat]
      BY <1>1, <1>2, <1>5, <1>6
    <2>3. QED
      BY <1>1, <2>1, <2>2 DEF PInv, TypePresence, client
  <1>11. Linked' /\ Owned'
    BY <1>1 DEF PInv, Linked, Owned, client
  <1>12. RoomCounts'
    <2>1. \A v \in Users : Present(v)' = IF v = u THEN Present(v) \ {s} ELSE Present(v)
      BY <1>1 DEF Present, u
    <2>2. ASSUME NEW v \in Users, v \notin disturbed PROVE room'[v] = Cardinality(Present(v)')
      <3>1. room[v] = Cardinality(Present(v))
        BY <2>2 DEF PInv, RoomCounts
      <3>2. CASE s \notin joined
        <4>1. Present(v) \ {s} = Present(v)
          BY <3>2 DEF Present
        <4>2. QED
          BY <1>1, <2>1, <3>1, <3>2, <4>1
      <3>3. CASE s \in joined
        <4>1. v = u => Left(room, u, 1)[v] = Cardinality(Present(v) \ {s})
          BY <1>2, <2>2, <3>3, RoomLeaves DEF u
        <4>2. QED
          BY <1>1, <1>2, <1>9, <2>1, <3>1, <3>3, <4>1, LeftFacts
      <3>4. QED
        BY <3>2, <3>3
    <2>3. QED
      BY <1>1, <2>2 DEF RoomCounts
  <1> QED
    BY <1>8, <1>10, <1>11, <1>12 DEF PInv

LEMMA PresenceOpen ==
  ASSUME PInv, NEW t \in Tabs, Open(t)
  PROVE  PInv'
  <1>1. UNCHANGED <<link, owner, connected, joined, onlineCount, room, disturbed>>
        /\ open' \subseteq Tabs
    BY DEF Open, PInv, TypePresence
  <1>2. link[t] # NoSocket => link[t] \in connected /\ link[t] \in Sockets
    BY DEF PInv, TypePresence, Linked
  <1>3. /\ joining' \in [Sockets -> Nat]
        /\ \A s \in Sockets : joining'[s] > 0 => joining[s] > 0 \/ s \in connected
    BY <1>2 DEF Open, PInv, TypePresence
  <1>4. buffer' \in [Tabs -> [joins : 0 .. MaxJoins, leaves : 0 .. MaxJoins]]
    <2>1. CASE link[t] # NoSocket
      BY <2>1 DEF Open, PInv, TypePresence
    <2>2. CASE link[t] = NoSocket
      <3>1. /\ buffer' = [buffer EXCEPT ![t].joins = @ + 1] /\ buffer[t].joins + 1 < MaxJoins
            /\ buffer \in [Tabs -> [joins : 0 .. MaxJoins, leaves : 0 .. MaxJoins]]
        BY <2>2 DEF Open, PInv, TypePresence
      <3>2. [buffer[t] EXCEPT !.joins = @ + 1] \in [joins : 0 .. MaxJoins, leaves : 0 .. MaxJoins]
        BY <3>1, ChatAssumption
      <3>3. QED
        BY <3>1, <3>2
    <2>3. QED
      BY <2>1, <2>2
  <1>5. TypePresence'
    BY <1>1, <1>3, <1>4 DEF PInv, TypePresence
  <1>6. Linked' /\ Owned'
    BY <1>1, <1>3 DEF PInv, Linked, Owned
  <1>7. OnlineIsExact' /\ RoomCounts'
    BY <1>1 DEF PInv, OnlineIsExact, RoomCounts, Online, Present
  <1> QED
    BY <1>5, <1>6, <1>7 DEF PInv

LEMMA PresenceHandleJoin ==
  ASSUME PInv, NEW s \in Sockets, HandleJoin(s)
  PROVE  PInv'
  <1> DEFINE u == owner[s]
  <1>1. /\ joining[s] > 0
        /\ joining' = [joining EXCEPT ![s] = @ - 1]
        /\ room' = [room EXCEPT ![u] = @ + 1]
        /\ joined' = IF s \in connected THEN joined \cup {s} ELSE joined
        /\ disturbed' = IF \/ s \in joined \/ s \notin connected
                           \/ \E t \in Tabs \ open : link[t] = s
                        THEN disturbed \cup {u} ELSE disturbed
        /\ UNCHANGED <<owner, connected, onlineCount, client>>
    BY DEF HandleJoin
  <1>2. u \in Users
    BY <1>1 DEF PInv, Owned
  <1>3. joined \subseteq connected /\ joining \in [Sockets -> Nat] /\ room \in [Users -> Nat]
    BY DEF PInv, TypePresence
  <1> HIDE DEF u
  <1>4. TypePresence'
    BY <1>1, <1>2, <1>3 DEF PInv, TypePresence, client
  <1>5. Linked' /\ Owned'
    BY <1>1, <1>3 DEF PInv, Linked, Owned, client
  <1>6. OnlineIsExact'
    BY <1>1 DEF PInv, OnlineIsExact, Online
  <1>7. RoomCounts'
    <2>1. ASSUME NEW v \in Users, v \notin disturbed' PROVE room'[v] = Cardinality(Present(v)')
      <3>1. v \notin disturbed /\ room[v] = Cardinality(Present(v))
        BY <1>1, <2>1 DEF PInv, RoomCounts
      <3>2. CASE v # u
        <4>1. Present(v)' = Present(v)
          BY <1>1, <3>2 DEF Present, u
        <4>2. QED
          BY <1>1, <1>2, <1>3, <3>1, <3>2, <4>1
      <3>3. CASE v = u
        <4>1. s \notin joined /\ s \in connected
          BY <1>1, <2>1, <3>3
        <4>2. Present(v)' = Present(v) \cup {s} /\ s \notin Present(v)
          BY <1>1, <3>3, <4>1 DEF Present, u
        <4>3. Cardinality(Present(v)') = Cardinality(Present(v)) + 1
          BY <4>2, SocketSets, FS_AddElement
        <4>4. QED
          BY <1>1, <1>2, <1>3, <3>1, <3>3, <4>3
      <3>4. QED
        BY <3>2, <3>3
    <2>2. QED
      BY <2>1 DEF RoomCounts
  <1> QED
    BY <1>4, <1>5, <1>6, <1>7 DEF PInv

LEMMA PresenceJoinFails ==
  ASSUME PInv, NEW s \in Sockets, JoinFails(s)
  PROVE  PInv'
  <1>1. /\ joining[s] > 0 /\ joining' = [joining EXCEPT ![s] = @ - 1]
        /\ UNCHANGED <<owner, connected, joined, onlineCount, room, client, disturbed>>
        /\ joining \in [Sockets -> Nat]
    BY DEF JoinFails, PInv, TypePresence
  <1>2. TypePresence'
    BY <1>1 DEF PInv, TypePresence, client
  <1>3. Linked' /\ Owned'
    BY <1>1 DEF PInv, Linked, Owned, client
  <1>4. OnlineIsExact' /\ RoomCounts'
    BY <1>1 DEF PInv, OnlineIsExact, RoomCounts, Online, Present
  <1> QED
    BY <1>2, <1>3, <1>4 DEF PInv

LEMMA PresenceClose ==
  ASSUME PInv, NEW t \in Tabs, Close(t)
  PROVE  PInv'
  <1> DEFINE s == link[t]
             u == UserOf[t]
  <1>1. open' \subseteq Tabs /\ UNCHANGED <<link, owner, connected, joining, onlineCount>>
    BY DEF Close, PInv, TypePresence
  <1>2. u \in Users
    BY ChatAssumption
  <1>3. Linked' /\ Owned'
    BY <1>1 DEF PInv, Linked, Owned
  <1>4. OnlineIsExact'
    BY <1>1 DEF PInv, OnlineIsExact, Online
  <1>5. CASE s = NoSocket
    <2>1. /\ buffer[t].leaves < MaxJoins /\ buffer' = [buffer EXCEPT ![t].leaves = @ + 1]
          /\ UNCHANGED <<joined, room, disturbed>>
          /\ buffer \in [Tabs -> [joins : 0 .. MaxJoins, leaves : 0 .. MaxJoins]]
      BY <1>5 DEF Close, PInv, TypePresence
    <2>2. [buffer[t] EXCEPT !.leaves = @ + 1] \in [joins : 0 .. MaxJoins, leaves : 0 .. MaxJoins]
      BY <2>1, ChatAssumption
    <2>3. TypePresence'
      BY <1>1, <2>1, <2>2 DEF PInv, TypePresence
    <2>4. RoomCounts'
      BY <1>1, <2>1 DEF PInv, RoomCounts, Present
    <2>5. QED
      BY <1>3, <1>4, <2>3, <2>4 DEF PInv
  <1>6. CASE s # NoSocket
    <2>1. /\ joined' = joined \ {s} /\ room' = Left(room, u, 1)
          /\ disturbed' = IF s \in joined THEN disturbed ELSE disturbed \cup {u}
          /\ buffer' = buffer
      BY <1>6 DEF Close
    <2>2. owner[s] = u /\ room \in [Users -> Nat]
      BY <1>6 DEF PInv, Linked, TypePresence
    <2> HIDE DEF s, u
    <2>3. TypePresence'
      BY <1>1, <1>2, <2>1, <2>2, LeftFacts DEF PInv, TypePresence
    <2>4. RoomCounts'
      <3>1. ASSUME NEW v \in Users, v \notin disturbed' PROVE room'[v] = Cardinality(Present(v)')
        <4>1. v \notin disturbed /\ room[v] = Cardinality(Present(v))
          BY <2>1, <3>1 DEF PInv, RoomCounts
        <4>2. CASE v # u
          <5>1. Present(v)' = Present(v)
            BY <1>1, <2>1, <2>2, <4>2 DEF Present
          <5>2. QED
            BY <1>2, <2>1, <2>2, <4>1, <4>2, <5>1, LeftFacts
        <4>3. CASE v = u
          <5>1. s \in joined
            BY <2>1, <3>1, <4>3
          <5>2. Present(v)' = Present(v) \ {s}
            BY <1>1, <2>1 DEF Present
          <5>3. QED
            BY <1>2, <2>1, <2>2, <4>1, <4>3, <5>1, <5>2, RoomLeaves
        <4>4. QED
          BY <4>2, <4>3
      <3>2. QED
        BY <3>1 DEF RoomCounts
    <2>5. QED
      BY <1>3, <1>4, <2>3, <2>4 DEF PInv
  <1> QED
    BY <1>5, <1>6

LEMMA PresenceStep ==
  ASSUME PInv, [Next]_vars
  PROVE  PInv'
  <1>1. CASE Presence
    BY <1>1, PresenceConnect, PresenceDisconnect, PresenceHandleDisconnect, PresenceOpen,
       PresenceHandleJoin, PresenceJoinFails, PresenceClose DEF Presence
  <1>2. ASSUME NEW r \in Requests, Request(r) PROVE PInv'
    <2>1. UNCHANGED <<gateway, client, disturbed>>
      BY <1>2 DEF Request, Send, MarkRead, CreateMessage, Resolve, UpdateStatus, Bump,
         MarkMessages, ResetUnread, Fail
    <2>2. QED
      BY <2>1, PresenceSame
  <1>3. CASE UNCHANGED vars
    BY <1>3, PresenceSame DEF vars
  <1> QED
    BY <1>1, <1>2, <1>3 DEF Next

LEMMA ShownInit == ASSUME Init PROVE Shown
  BY DEF Init, Shown

\* A join that finds its tab gone, and a leave that finds no socket in the room, disturb
\* the user; any other leave takes the socket with it.
LEMMA ShownStep ==
  ASSUME PInv, Shown, [Next]_vars
  PROVE  Shown'
  <1>0. /\ joined \subseteq connected /\ connected \subseteq Sockets
        /\ link \in [Tabs -> Sockets \cup {NoSocket}] /\ NoSocket \notin Sockets
    BY ChatAssumption DEF PInv, TypePresence
  <1>1. ASSUME UNCHANGED <<link, joined, disturbed>>, open \subseteq open' PROVE Shown'
    BY <1>1 DEF Shown
  <1>2. ASSUME NEW t \in Tabs, NEW s \in Sockets, Connect(t, s) PROVE Shown'
    <2>1. /\ s \notin joined /\ link' = [link EXCEPT ![t] = s] /\ UNCHANGED <<open, joined>>
          /\ disturbed \subseteq disturbed'
      BY <1>0, <1>2 DEF Connect
    <2>2. QED
      BY <1>0, <2>1 DEF Shown
  <1>3. ASSUME NEW t \in Tabs, Disconnect(t) PROVE Shown'
    <2>1. link' = [link EXCEPT ![t] = NoSocket] /\ UNCHANGED <<open, joined, disturbed>>
      BY <1>3 DEF Disconnect, gateway
    <2>2. QED
      BY <1>0, <2>1 DEF Shown
  <1>4. ASSUME NEW s \in Sockets, HandleDisconnect(s) PROVE Shown'
    BY <1>4 DEF HandleDisconnect, client, Shown
  <1>5. ASSUME NEW t \in Tabs, Open(t) PROVE Shown'
    BY <1>1, <1>5 DEF Open
  <1>6. ASSUME NEW s \in Sockets, HandleJoin(s) PROVE Shown'
    <2>1. /\ joining[s] > 0 /\ UNCHANGED <<open, link>> /\ joined' \subseteq joined \cup {s}
          /\ disturbed \subseteq disturbed'
          /\ (\E t \in Tabs \ open : link[t] = s) => owner[s] \in disturbed'
      BY <1>6 DEF HandleJoin, client
    <2>2. ASSUME NEW t \in Tabs, link[t] = s PROVE t \in open \/ UserOf[t] \in disturbed'
      <3>1. owner[s] = UserOf[t]
        BY <1>0, <2>2 DEF PInv, Linked
      <3>2. QED
        BY <2>1, <2>2, <3>1
    <2>3. QED
      BY <2>1, <2>2 DEF Shown
  <1>7. ASSUME NEW s \in Sockets, JoinFails(s) PROVE Shown'
    BY <1>1, <1>7 DEF JoinFails, client
  <1>8. ASSUME NEW t \in Tabs, Close(t) PROVE Shown'
    <2>1. open' = open \ {t} /\ link' = link
      BY <1>8 DEF Close
    <2>2. CASE link[t] = NoSocket
      <3>1. UNCHANGED <<joined, disturbed>>
        BY <1>8, <2>2 DEF Close
      <3>2. QED
        BY <1>0, <2>1, <2>2, <3>1 DEF Shown
    <2>3. CASE link[t] # NoSocket
      <3>1. joined' = joined \ {link[t]} /\ disturbed \subseteq disturbed'
        BY <1>8, <2>3 DEF Close
      <3>2. QED
        BY <2>1, <3>1 DEF Shown
    <2>4. QED
      BY <2>2, <2>3
  <1>9. ASSUME NEW r \in Requests, Request(r) PROVE Shown'
    <2>1. UNCHANGED <<gateway, client, disturbed>>
      BY <1>9 DEF Request, Send, MarkRead, CreateMessage, Resolve, UpdateStatus, Bump,
         MarkMessages, ResetUnread, Fail
    <2>2. QED
      BY <1>1, <2>1 DEF gateway, client
  <1>10. CASE UNCHANGED vars
    BY <1>1, <1>10 DEF vars, gateway, client
  <1> QED
    BY <1>2, <1>3, <1>4, <1>5, <1>6, <1>7, <1>8, <1>9, <1>10 DEF Next, Presence

\* conversationUsers counts the sockets in the room, and the tab behind one shows the
\* thread, for any users, tabs and sockets, unless a join or a leave of the user came out
\* of turn.
THEOREM RoomExact == Spec => []RoomIsExact
  <1>1. PInv /\ Shown => RoomIsExact
    BY DEF PInv, RoomCounts, Shown, RoomIsExact
  <1> QED
    BY <1>1, PresenceInit, PresenceStep, ShownInit, ShownStep, PTL DEF Spec

-----------------------------------------------------------------------------
(* Messages, receipts and unread counters. *)

LEMMA JobFacts ==
  ASSUME NEW job \in Job
  PROVE  /\ job.op = "idle" <=> job = Idle
         /\ job.op \in {"create"} \cup SendOps => job.to \in Users
         /\ job.op \in SendOps => job.msg \in Messages
         /\ job.op \in {"status", "bump"} => job.delivery \in {"sent", "delivered", "read"}
         /\ job.op \in {"mark", "reset"} => job.by \in Users
         /\ job.op = "reset" => job.clean \in BOOLEAN
  BY DEF Job, Idle, SendOps

LEMMA Jobs ==
  /\ Idle \in Job /\ Idle.op = "idle"
  /\ \A u \in Users : [op |-> "create", to |-> u] \in Job /\ [op |-> "mark", by |-> u] \in Job
  /\ \A u \in Users, m \in Messages : [op |-> "resolve", to |-> u, msg |-> m] \in Job
  /\ \A op \in {"status", "bump"}, u \in Users, m \in Messages, d \in {"sent", "delivered", "read"} :
       [op |-> op, to |-> u, msg |-> m, delivery |-> d] \in Job
  /\ \A u \in Users, clean \in BOOLEAN : [op |-> "reset", by |-> u, clean |-> clean] \in Job
  BY DEF Job, Idle

LEMMA JobMoves ==
  ASSUME TypeService, NEW r \in Requests, NEW job \in Job, Goto(r, job)
  PROVE  /\ req' \in [Requests -> Job]
         /\ req'[r] = job
         /\ \A q \in Requests \ {r} : req'[q] = req[q]
  BY DEF TypeService, Goto

LEMMA MessageMoves ==
  ASSUME NEW row \in Message, row # NoMessage, NEW st \in {"sent", "delivered", "read"}
  PROVE  /\ [row EXCEPT !.status = st] \in Message
         /\ [row EXCEPT !.status = st] # NoMessage
         /\ [row EXCEPT !.status = st].to = row.to
         /\ [row EXCEPT !.status = st].status = st
  <1>1. row \in [to : Users, status : {"sent", "delivered", "read"}]
    BY DEF Message
  <1>2. [row EXCEPT !.status = st] = [to |-> row.to, status |-> st]
    BY <1>1
  <1>3. [to |-> row.to, status |-> st] \in Message
    BY <1>1 DEF Message
  <1>4. [to |-> row.to, status |-> st] # NoMessage
    BY DEF NoMessage
  <1> QED
    BY <1>2, <1>3, <1>4

LEMMA ServiceSets ==
  ASSUME NEW u \in Users
  PROVE  /\ Owing(u) \in SUBSET Requests /\ UnreadTo(u) \in SUBSET Messages
         /\ IsFiniteSet(Owing(u)) /\ IsFiniteSet(UnreadTo(u))
         /\ Cardinality(Owing(u)) \in Nat /\ Cardinality(UnreadTo(u)) \in Nat
  <1>1. Owing(u) \in SUBSET Requests /\ UnreadTo(u) \in SUBSET Messages
    BY DEF Owing, Sending, UnreadTo
  <1>2. IsFiniteSet(Owing(u)) /\ IsFiniteSet(UnreadTo(u))
    BY <1>1, ChatAssumption, FS_Subset
  <1> QED
    BY <1>1, <1>2, FS_CardinalityType

LEMMA ServiceInit == ASSUME Init PROVE SInv
  <1>1. \A r \in Requests : req[r].op = "idle"
    BY Jobs DEF Init
  <1>2. TypeService
    BY Jobs DEF Init, TypeService, Message
  <1>3. \A u \in Users : Owing(u) = {} /\ UnreadTo(u) = {}
    BY <1>1 DEF Init, Owing, Sending, UnreadTo
  <1>4. Sends /\ OwedIsUnread /\ ResetsAreLast
    BY <1>1, <1>3 DEF Sends, OwedIsUnread, ResetsAreLast, SendOps, Resetting
  <1>5. Tally
    BY <1>3, FS_EmptySet DEF Init, Tally
  <1> QED
    BY <1>2, <1>4, <1>5 DEF SInv

LEMMA ServiceSame ==
  ASSUME SInv, UNCHANGED service
  PROVE  SInv'
  BY DEF SInv, service, TypeService, Sends, OwedIsUnread, ResetsAreLast, Tally, Sending, Resetting,
         Owing, UnreadTo

\* A request that neither counts, stores nor marks a message.
LEMMA ServiceQuiet ==
  ASSUME SInv, NEW r \in Requests, NEW job \in Job, Goto(r, job),
         req[r].op \in {"idle", "create", "mark"}, job.op \in {"idle", "create", "mark"},
         UNCHANGED <<msg, unread, drifted, seen, unheard>>
  PROVE  SInv'
  <1>1. req' \in [Requests -> Job] /\ req'[r] = job /\ \A q \in Requests \ {r} : req'[q] = req[q]
    BY JobMoves DEF SInv
  <1>2. TypeService'
    BY <1>1 DEF SInv, TypeService
  <1>3. \A u : /\ Sending(u)' = Sending(u) /\ Resetting(u)' = Resetting(u)
               /\ Owing(u)' = Owing(u) /\ UnreadTo(u)' = UnreadTo(u)
    BY <1>1 DEF Sending, Resetting, Owing, UnreadTo
  <1>4. Sends'
    BY <1>1 DEF SInv, Sends, SendOps
  <1>5. OwedIsUnread'
    BY <1>1, <1>3 DEF SInv, OwedIsUnread, Owing, Sending
  <1>6. ResetsAreLast'
    BY <1>1, <1>3 DEF SInv, ResetsAreLast, Resetting
  <1>7. Tally'
    BY <1>3 DEF SInv, Tally
  <1> QED
    BY <1>2, <1>4, <1>5, <1>6, <1>7 DEF SInv

LEMMA ServiceCreate ==
  ASSUME SInv, NEW r \in Requests, NEW m \in Messages, CreateMessage(r, m)
  PROVE  SInv'
  <1>1. req \in [Requests -> Job] /\ req[r].op = "create" /\ req[r].to \in Users
    BY JobFacts DEF CreateMessage, SInv, TypeService
  <1>2. PICK u \in Users : u = req[r].to
    BY <1>1
  <1>3. PICK job \in Job : job = [op |-> "resolve", to |-> u, msg |-> m]
    BY Jobs
  <1>4. PICK row \in Message : row = [to |-> u, status |-> "sent"]
    BY DEF Message
  <1>5. /\ job.op = "resolve" /\ job.to = u /\ job.msg = m
        /\ row # NoMessage /\ row.to = u /\ row.status = "sent"
    BY <1>3, <1>4 DEF NoMessage
  <1>6. /\ msg[m] = NoMessage /\ msg' = [msg EXCEPT ![m] = row]
        /\ req' = [q \in Requests |-> IF q = r THEN job
                     ELSE IF q \in Resetting(u) THEN [req[q] EXCEPT !.clean = FALSE] ELSE req[q]]
        /\ drifted' = IF Resetting(u) # {} THEN drifted \cup {u} ELSE drifted
        /\ UNCHANGED <<unread, seen, unheard>>
    BY <1>2, <1>3, <1>4 DEF CreateMessage
  <1>7. ASSUME NEW q \in Resetting(u)
        PROVE  /\ [req[q] EXCEPT !.clean = FALSE] \in Job
               /\ [req[q] EXCEPT !.clean = FALSE].op = "reset"
               /\ [req[q] EXCEPT !.clean = FALSE].by = u
               /\ ~[req[q] EXCEPT !.clean = FALSE].clean
    <2>1. req[q] \in Job /\ req[q].op = "reset" /\ req[q].by = u
      BY <1>1, <1>7 DEF Resetting
    <2>2. req[q] \in [op : {"reset"}, by : Users, clean : BOOLEAN]
      BY <2>1 DEF Job, Idle
    <2>3. PICK old \in [op : {"reset"}, by : Users, clean : BOOLEAN] : old = req[q]
      BY <2>2
    <2>4. /\ [old EXCEPT !.clean = FALSE] \in [op : {"reset"}, by : Users, clean : BOOLEAN]
          /\ [old EXCEPT !.clean = FALSE].op = "reset"
          /\ [old EXCEPT !.clean = FALSE].by = old.by
          /\ ~[old EXCEPT !.clean = FALSE].clean
      OBVIOUS
    <2>5. QED
      BY <2>1, <2>3, <2>4 DEF Job
  <1>8. /\ req' \in [Requests -> Job] /\ req'[r] = job
        /\ \A q \in Resetting(u) : req'[q].op = "reset" /\ req'[q].by = u /\ ~req'[q].clean
        /\ \A q \in Requests \ {r} : q \in Resetting(u) \/ req'[q] = req[q]
    <2>1. r \notin Resetting(u) /\ Resetting(u) \subseteq Requests
      BY <1>1 DEF Resetting
    <2>2. QED
      BY <1>1, <1>6, <1>7, <2>1
  <1>9. /\ \A q \in Requests \ {r} : req'[q].op = req[q].op
        /\ \A q \in Requests \ {r} : req[q].op # "reset" => req'[q] = req[q]
        /\ \A q \in Requests \ {r} : req[q].op = "reset" => req'[q].by = req[q].by
        /\ \A q \in Requests \ {r} : req[q].op = "reset" /\ req[q].by # u => req'[q] = req[q]
    BY <1>8 DEF Resetting
  <1>10. msg \in [Messages -> Message] /\ msg'[m] = row /\ \A x \in Messages \ {m} : msg'[x] = msg[x]
    BY <1>6 DEF SInv, TypeService
  <1>11. TypeService'
    BY <1>6, <1>8 DEF SInv, TypeService
  <1>12. \A q \in Requests : req[q].op \in SendOps => req[q].msg # m /\ req[q].msg \in Messages
    BY <1>1, <1>6, JobFacts DEF SInv, Sends
  <1>13. Sends'
    BY <1>5, <1>8, <1>9, <1>10, <1>12 DEF SInv, Sends, SendOps
  <1>14. \A v : /\ Sending(v)' = IF v = u THEN Sending(v) \cup {r} ELSE Sending(v)
                /\ Owing(v)' = IF v = u THEN Owing(v) \cup {r} ELSE Owing(v)
                /\ Resetting(v)' = Resetting(v)
                /\ UnreadTo(v)' = IF v = u THEN UnreadTo(v) \cup {m} ELSE UnreadTo(v)
    <2>1. ASSUME NEW v PROVE Sending(v)' = IF v = u THEN Sending(v) \cup {r} ELSE Sending(v)
      BY <1>1, <1>5, <1>8, <1>9 DEF Sending
    <2>2. ASSUME NEW v PROVE Owing(v)' = IF v = u THEN Owing(v) \cup {r} ELSE Owing(v)
      BY <1>1, <1>5, <1>8, <1>9 DEF Sending, Owing
    <2>3. ASSUME NEW v PROVE Resetting(v)' = Resetting(v)
      BY <1>1, <1>5, <1>8, <1>9 DEF Resetting
    <2>4. ASSUME NEW v PROVE UnreadTo(v)' = IF v = u THEN UnreadTo(v) \cup {m} ELSE UnreadTo(v)
      BY <1>5, <1>6, <1>10 DEF UnreadTo
    <2>5. QED
      BY <2>1, <2>2, <2>3, <2>4
  <1>15. OwedIsUnread'
    <2>1. ASSUME NEW v \in Users \ drifted', NEW q \in Owing(v)'
          PROVE  msg'[req'[q].msg].status # "read"
      <3>1. CASE q = r
        BY <1>5, <1>8, <1>10, <3>1
      <3>2. CASE q # r
        <4>1. q \in Owing(v) /\ v \notin drifted
          BY <1>6, <1>14, <2>1, <3>2
        <4>2. q \in Requests /\ req[q].op \in SendOps
          BY <4>1 DEF Owing, Sending, SendOps
        <4>3. req'[q] = req[q]
          BY <1>9, <3>2, <4>2 DEF SendOps
        <4>4. msg[req[q].msg].status # "read"
          BY <2>1, <4>1 DEF SInv, OwedIsUnread
        <4>5. QED
          BY <1>10, <1>12, <4>2, <4>3, <4>4
      <3>3. QED
        BY <3>1, <3>2
    <2>2. QED
      BY <2>1 DEF OwedIsUnread
  <1>16. ResetsAreLast'
    <2>1. ASSUME NEW v \in Users, NEW q \in Resetting(v)', req'[q].clean \/ v \notin drifted'
          PROVE  Sending(v)' = {} /\ UnreadTo(v)' = {}
      <3>1. q \in Resetting(v) /\ q \in Requests /\ q # r
        BY <1>1, <1>14, <2>1 DEF Resetting
      <3>2. v # u
        BY <1>6, <1>8, <2>1, <3>1
      <3>3. Sending(v) = {} /\ UnreadTo(v) = {}
        BY <1>6, <1>9, <2>1, <3>1, <3>2 DEF SInv, ResetsAreLast, Resetting
      <3>4. QED
        BY <1>14, <3>2, <3>3
    <2>2. QED
      BY <2>1 DEF ResetsAreLast
  <1>17. Tally'
    <2>1. ASSUME NEW v \in Users \ drifted', Resetting(v)' = {}
          PROVE  unread'[v] + Cardinality(Owing(v)') = Cardinality(UnreadTo(v)')
      <3>1. unread[v] + Cardinality(Owing(v)) = Cardinality(UnreadTo(v)) /\ unread[v] \in Nat
        BY <1>6, <1>14, <2>1 DEF SInv, Tally, TypeService
      <3>2. r \notin Owing(v) /\ m \notin UnreadTo(v)
        BY <1>1, <1>6 DEF Owing, Sending, UnreadTo
      <3>3. /\ Cardinality(Owing(v) \cup {r}) = Cardinality(Owing(v)) + 1
            /\ Cardinality(UnreadTo(v) \cup {m}) = Cardinality(UnreadTo(v)) + 1
        BY <2>1, <3>2, ServiceSets, FS_AddElement
      <3>4. Cardinality(Owing(v)) \in Nat /\ Cardinality(UnreadTo(v)) \in Nat /\ unread' = unread
        BY <1>6, <2>1, ServiceSets
      <3>5. CASE v # u
        <4>1. Owing(v)' = Owing(v) /\ UnreadTo(v)' = UnreadTo(v)
          BY <1>14, <3>5
        <4>2. QED
          BY <3>1, <3>4, <4>1
      <3>6. CASE v = u
        <4>1. Owing(v)' = Owing(v) \cup {r} /\ UnreadTo(v)' = UnreadTo(v) \cup {m}
          BY <1>14, <3>6
        <4>2. QED
          BY <3>1, <3>3, <3>4, <4>1
      <3>7. QED
        BY <3>5, <3>6
    <2>2. QED
      BY <2>1 DEF Tally
  <1> QED
    BY <1>11, <1>13, <1>15, <1>16, <1>17 DEF SInv

\* A send that moves on with the message it has.
LEMMA SendMoves ==
  ASSUME SInv, NEW r \in Requests, NEW job \in Job, Goto(r, job),
         req[r].op \in SendOps, job.op \in SendOps, job.to = req[r].to, job.msg = req[r].msg,
         \/ UNCHANGED msg
         \/ \E st \in {"sent", "delivered", "read"} : msg' = [msg EXCEPT ![job.msg].status = st]
  PROVE  /\ req[r].msg \in Messages /\ req[r].to \in Users /\ msg[req[r].msg] # NoMessage
         /\ msg' \in [Messages -> Message]
         /\ \A x \in Messages : /\ msg'[x] = NoMessage <=> msg[x] = NoMessage
                                /\ msg[x] # NoMessage => msg'[x].to = msg[x].to
                                /\ x # job.msg => msg'[x] = msg[x]
         /\ req' \in [Requests -> Job] /\ req'[r] = job
         /\ \A q \in Requests \ {r} : req'[q] = req[q]
         /\ Sends'
         /\ \A v : Sending(v)' = Sending(v) /\ Resetting(v)' = Resetting(v)
  <1>1. req' \in [Requests -> Job] /\ req'[r] = job /\ \A q \in Requests \ {r} : req'[q] = req[q]
    BY JobMoves DEF SInv
  <1>2. req[r].msg \in Messages /\ req[r].to \in Users /\ msg[req[r].msg] # NoMessage
    BY JobFacts DEF SInv, TypeService, Sends
  <1>3. /\ msg' \in [Messages -> Message]
        /\ \A x \in Messages : /\ msg'[x] = NoMessage <=> msg[x] = NoMessage
                               /\ msg[x] # NoMessage => msg'[x].to = msg[x].to
                               /\ x # job.msg => msg'[x] = msg[x]
    <2>1. CASE UNCHANGED msg
      BY <2>1 DEF SInv, TypeService
    <2>2. ASSUME NEW st \in {"sent", "delivered", "read"}, msg' = [msg EXCEPT ![job.msg].status = st]
          PROVE  <1>3
      <3>1. msg \in [Messages -> Message] /\ job.msg \in Messages
        BY <1>2 DEF SInv, TypeService
      <3>2. PICK old \in Message : old = msg[job.msg]
        BY <3>1
      <3>3. old # NoMessage /\ st \in {"sent", "delivered", "read"}
        BY <1>2, <2>2, <3>2
      <3> DEFINE row == [old EXCEPT !.status = st]
      <3>4. row \in Message /\ row # NoMessage /\ row.to = old.to
        BY <3>3, MessageMoves
      <3>5. msg' = [msg EXCEPT ![job.msg] = row]
        BY <2>2, <3>2
      <3> HIDE DEF row
      <3>6. QED
        BY <1>2, <3>1, <3>2, <3>3, <3>4, <3>5
    <2>3. QED
      BY <2>1, <2>2
  <1>4. \A q \in Requests : req[q].op \in SendOps => req[q].msg \in Messages
    BY JobFacts DEF SInv, TypeService
  <1>5. Sends'
    BY <1>1, <1>2, <1>3, <1>4 DEF SInv, Sends
  <1>6. \A v : Sending(v)' = Sending(v) /\ Resetting(v)' = Resetting(v)
    BY <1>1 DEF Sending, Resetting, SendOps
  <1> QED
    BY <1>1, <1>2, <1>3, <1>5, <1>6

LEMMA ServiceResolve ==
  ASSUME SInv, NEW r \in Requests, Resolve(r)
  PROVE  SInv'
  <1>1. req[r] \in Job /\ req[r].op = "resolve" /\ req[r].to \in Users /\ req[r].msg \in Messages
    BY JobFacts DEF Resolve, SInv, TypeService, SendOps
  <1>2. PICK u \in Users, m \in Messages : u = req[r].to /\ m = req[r].msg
    BY <1>1
  <1>3. PICK d \in {"sent", "delivered", "read"} :
          d = IF room[u] > 0 THEN "read" ELSE IF onlineCount[u] > 0 THEN "delivered" ELSE "sent"
    OBVIOUS
  <1>4. PICK job \in Job :
          job = [op |-> IF d = "sent" THEN "bump" ELSE "status", to |-> u, msg |-> m, delivery |-> d]
    BY Jobs
  <1>5. /\ job.op \in {"status", "bump"} /\ job.to = u /\ job.msg = m
        /\ job.op = "bump" => job.delivery # "read"
    BY <1>4
  <1>6. Goto(r, job) /\ UNCHANGED <<msg, unread, drifted>> /\ (seen \cup unheard)' \subseteq Messages
    BY <1>1, <1>2, <1>3, <1>4 DEF Resolve, SInv, TypeService
  <1>7. /\ req' \in [Requests -> Job] /\ req'[r] = job
        /\ \A q \in Requests \ {r} : req'[q] = req[q]
        /\ Sends'
        /\ \A v : Sending(v)' = Sending(v) /\ Resetting(v)' = Resetting(v)
    BY <1>1, <1>2, <1>5, <1>6, SendMoves DEF SendOps
  <1>8. TypeService'
    BY <1>6, <1>7 DEF SInv, TypeService
  <1>9. \A v : Owing(v)' = Owing(v) /\ UnreadTo(v)' = UnreadTo(v)
    <2>1. \A v : UnreadTo(v)' = UnreadTo(v)
      BY <1>6 DEF UnreadTo
    <2>2. \A v : Sending(v) \subseteq Requests
      BY DEF Sending
    <2>3. \A v : Owing(v)' = Owing(v)
      BY <1>1, <1>5, <1>7, <2>2 DEF Owing
    <2>4. QED
      BY <2>1, <2>3
  <1>10. OwedIsUnread'
    BY <1>2, <1>5, <1>6, <1>7, <1>9 DEF SInv, OwedIsUnread, Owing, Sending
  <1>11. ResetsAreLast'
    BY <1>1, <1>5, <1>6, <1>7, <1>9 DEF SInv, ResetsAreLast, Resetting
  <1>12. Tally'
    BY <1>6, <1>7, <1>9 DEF SInv, Tally
  <1> QED
    BY <1>7, <1>8, <1>10, <1>11, <1>12 DEF SInv

LEMMA ServiceStatus ==
  ASSUME SInv, NEW r \in Requests, UpdateStatus(r)
  PROVE  SInv'
  <1>1. /\ req[r] \in Job /\ req[r].op = "status"
        /\ req[r].to \in Users /\ req[r].msg \in Messages
        /\ req[r].delivery \in {"sent", "delivered", "read"}
    BY JobFacts DEF UpdateStatus, SInv, TypeService, SendOps
  <1>2. PICK u \in Users, m \in Messages, d \in {"sent", "delivered", "read"} :
          u = req[r].to /\ m = req[r].msg /\ d = req[r].delivery
    BY <1>1
  <1>3. req[r] \in [op : {"status", "bump"}, to : Users, msg : Messages,
                    delivery : {"sent", "delivered", "read"}]
    BY <1>1 DEF Job, Idle
  <1>4. [req[r] EXCEPT !.op = "bump"] = [op |-> "bump", to |-> u, msg |-> m, delivery |-> d]
    BY <1>2, <1>3
  <1>5. PICK job \in Job : job = [op |-> "bump", to |-> u, msg |-> m, delivery |-> d]
    BY Jobs
  <1>6. job.op = "bump" /\ job.to = u /\ job.msg = m /\ job.delivery = d
    BY <1>5
  <1>7. Goto(r, job) /\ UNCHANGED <<unread, drifted, seen, unheard>> /\ msg' = [msg EXCEPT ![m].status = d]
    BY <1>2, <1>4, <1>5 DEF UpdateStatus
  <1>8. /\ msg[m] # NoMessage
        /\ msg' \in [Messages -> Message]
        /\ \A x \in Messages : /\ msg'[x] = NoMessage <=> msg[x] = NoMessage
                               /\ msg[x] # NoMessage => msg'[x].to = msg[x].to
                               /\ x # m => msg'[x] = msg[x]
        /\ req' \in [Requests -> Job] /\ req'[r] = job
        /\ \A q \in Requests \ {r} : req'[q] = req[q]
        /\ Sends'
        /\ \A v : Sending(v)' = Sending(v) /\ Resetting(v)' = Resetting(v)
    BY <1>1, <1>2, <1>6, <1>7, SendMoves DEF SendOps
  <1>9. msg[m].to = u /\ r \in Sending(u) /\ r \in Owing(u)
        /\ \A v : r \in Sending(v) => v = u
    BY <1>1, <1>2 DEF SInv, Sends, SendOps, Sending, Owing
  <1>10. msg'[m].status = d
    <2>1. PICK old \in Message : old = msg[m]
      BY DEF SInv, TypeService
    <2>2. [old EXCEPT !.status = d].status = d
      BY <1>8, <2>1, MessageMoves
    <2>3. QED
      BY <1>7, <2>1, <2>2 DEF SInv, TypeService
  <1>11. TypeService'
    BY <1>7, <1>8 DEF SInv, TypeService
  <1>12. \A v : Owing(v)' = IF d = "read" THEN Owing(v) \ {r} ELSE Owing(v)
    BY <1>1, <1>6, <1>8 DEF Owing, Sending
  <1>13. /\ \A v : v # u => UnreadTo(v)' = UnreadTo(v)
         /\ UnreadTo(u)' = IF d = "read" THEN UnreadTo(u) \ {m} ELSE UnreadTo(u) \cup {m}
    BY <1>8, <1>9, <1>10 DEF UnreadTo
  <1>14. OwedIsUnread'
    <2>1. ASSUME NEW v \in Users \ drifted, NEW q \in Owing(v)'
          PROVE  msg'[req'[q].msg].status # "read"
      <3>1. q \in Owing(v) /\ q \in Requests
        BY <1>12, <2>1 DEF Owing, Sending
      <3>2. CASE q = r
        BY <1>6, <1>8, <1>10, <1>12, <2>1, <3>2
      <3>3. CASE q # r
        <4>1. req[q].op \in SendOps
          BY <3>1 DEF Owing, Sending, SendOps
        <4>2. req[q].msg # m /\ req[q].msg \in Messages
          BY <1>1, <1>2, <3>1, <3>3, <4>1, JobFacts DEF SInv, TypeService, Sends, SendOps
        <4>3. msg[req[q].msg].status # "read"
          BY <2>1, <3>1 DEF SInv, OwedIsUnread
        <4>4. QED
          BY <1>8, <3>1, <3>3, <4>2, <4>3
      <3>4. QED
        BY <3>2, <3>3
    <2>2. QED
      BY <1>7, <2>1 DEF OwedIsUnread
  <1>15. ResetsAreLast'
    <2>1. \A v \in Users : \A q \in Resetting(v)' : q \in Resetting(v) /\ req'[q] = req[q]
      BY <1>1, <1>8 DEF Resetting
    <2>2. QED
      BY <1>7, <1>8, <1>9, <1>13, <2>1 DEF SInv, ResetsAreLast
  <1>16. Tally'
    <2>1. ASSUME NEW v \in Users \ drifted, Resetting(v) = {}
          PROVE  unread[v] + Cardinality(Owing(v)') = Cardinality(UnreadTo(v)')
      <3>1. unread[v] + Cardinality(Owing(v)) = Cardinality(UnreadTo(v)) /\ unread[v] \in Nat
        BY <2>1 DEF SInv, Tally, TypeService
      <3>2. CASE v # u
        <4>1. Owing(v)' = Owing(v) /\ UnreadTo(v)' = UnreadTo(v)
          BY <1>9, <1>12, <1>13, <3>2 DEF Owing
        <4>2. QED
          BY <3>1, <4>1
      <3>3. CASE v = u
        <4>1. m \in UnreadTo(u)
          BY <1>2, <1>8, <1>9, <2>1, <3>3 DEF SInv, OwedIsUnread, UnreadTo
        <4>2. CASE d = "read"
          <5>1. Owing(u)' = Owing(u) \ {r} /\ UnreadTo(u)' = UnreadTo(u) \ {m}
            BY <1>12, <1>13, <4>2
          <5>2. /\ Cardinality(Owing(u) \ {r}) = Cardinality(Owing(u)) - 1
                /\ Cardinality(UnreadTo(u) \ {m}) = Cardinality(UnreadTo(u)) - 1
            BY <1>9, <4>1, ServiceSets, FS_RemoveElement
          <5>3. QED
            BY <3>1, <3>3, <5>1, <5>2, ServiceSets
        <4>3. CASE d # "read"
          <5>1. Owing(u)' = Owing(u) /\ UnreadTo(u)' = UnreadTo(u)
            BY <1>12, <1>13, <4>1, <4>3
          <5>2. QED
            BY <3>1, <3>3, <5>1
        <4>4. QED
          BY <4>2, <4>3
      <3>4. QED
        BY <3>2, <3>3
    <2>2. QED
      BY <1>7, <1>8, <2>1 DEF Tally
  <1> QED
    BY <1>8, <1>11, <1>14, <1>15, <1>16 DEF SInv

\* A job that is over.
LEMMA JobEnds ==
  ASSUME SInv, NEW r \in Requests, Goto(r, Idle), UNCHANGED msg
  PROVE  /\ req' \in [Requests -> Job] /\ req'[r] = Idle /\ Idle.op = "idle"
         /\ \A q \in Requests \ {r} : req'[q] = req[q]
         /\ Sends'
         /\ \A v : /\ Sending(v)' = Sending(v) \ {r} /\ Resetting(v)' = Resetting(v) \ {r}
                   /\ Owing(v)' = Owing(v) \ {r} /\ UnreadTo(v)' = UnreadTo(v)
         /\ \A v : \A q \in Owing(v)' : req'[q] = req[q] /\ q \in Owing(v)
         /\ \A v : \A q \in Resetting(v)' : req'[q] = req[q] /\ q \in Resetting(v)
  <1>1. /\ req' \in [Requests -> Job] /\ req'[r] = Idle /\ Idle.op = "idle"
        /\ \A q \in Requests \ {r} : req'[q] = req[q]
    BY Jobs, JobMoves DEF SInv
  <1>2. Sends'
    BY <1>1 DEF SInv, Sends, SendOps
  <1>3. \A v : /\ Sending(v)' = Sending(v) \ {r} /\ Resetting(v)' = Resetting(v) \ {r}
               /\ UnreadTo(v)' = UnreadTo(v)
    BY <1>1 DEF Sending, Resetting, UnreadTo
  <1>4. \A v : Sending(v) \subseteq Requests /\ Resetting(v) \subseteq Requests
    BY DEF Sending, Resetting
  <1>5. \A v : Owing(v)' = Owing(v) \ {r}
    BY <1>1, <1>3, <1>4 DEF Owing
  <1>6. \A v : \A q \in Owing(v)' : req'[q] = req[q] /\ q \in Owing(v)
    BY <1>1, <1>4, <1>5 DEF Owing
  <1>7. \A v : \A q \in Resetting(v)' : req'[q] = req[q] /\ q \in Resetting(v)
    BY <1>1, <1>3, <1>4
  <1> QED
    BY <1>1, <1>2, <1>3, <1>5, <1>6, <1>7

LEMMA ServiceBump ==
  ASSUME SInv, NEW r \in Requests, Bump(r)
  PROVE  SInv'
  <1>1. req[r] \in Job /\ req[r].op = "bump" /\ req[r].to \in Users
    BY JobFacts DEF Bump, SInv, TypeService, SendOps
  <1>2. PICK u \in Users : u = req[r].to
    BY <1>1
  <1>3. /\ Goto(r, Idle) /\ UNCHANGED <<msg, drifted, seen, unheard>>
        /\ unread' = IF req[r].delivery = "read" THEN unread ELSE [unread EXCEPT ![u] = @ + 1]
    BY <1>2 DEF Bump
  <1>4. /\ req' \in [Requests -> Job]
        /\ Sends'
        /\ \A v : /\ Sending(v)' = Sending(v) \ {r} /\ Resetting(v)' = Resetting(v) \ {r}
                  /\ Owing(v)' = Owing(v) \ {r} /\ UnreadTo(v)' = UnreadTo(v)
        /\ \A v : \A q \in Owing(v)' : req'[q] = req[q] /\ q \in Owing(v)
        /\ \A v : \A q \in Resetting(v)' : req'[q] = req[q] /\ q \in Resetting(v)
    BY <1>3, JobEnds
  <1>5. /\ r \in Sending(u) /\ \A v : r \notin Resetting(v)
        /\ \A v : r \in Owing(v) <=> v = u /\ req[r].delivery # "read"
    BY <1>1, <1>2 DEF Sending, Resetting, Owing
  <1>6. TypeService'
    BY <1>3, <1>4 DEF SInv, TypeService
  <1>7. OwedIsUnread'
    BY <1>3, <1>4 DEF SInv, OwedIsUnread
  <1>8. ResetsAreLast'
    BY <1>3, <1>4 DEF SInv, ResetsAreLast
  <1>9. Tally'
    <2>1. ASSUME NEW v \in Users \ drifted, Resetting(v) = {}
          PROVE  unread'[v] + Cardinality(Owing(v)') = Cardinality(UnreadTo(v)')
      <3>1. unread[v] + Cardinality(Owing(v)) = Cardinality(UnreadTo(v)) /\ unread \in [Users -> Nat]
        BY <2>1 DEF SInv, Tally, TypeService
      <3>2. CASE r \notin Owing(v)
        <4>1. unread'[v] = unread[v] /\ Owing(v)' = Owing(v)
          BY <1>3, <1>4, <1>5, <3>1, <3>2
        <4>2. QED
          BY <1>4, <3>1, <4>1
      <3>3. CASE r \in Owing(v)
        <4>1. unread'[v] = unread[v] + 1 /\ Owing(v)' = Owing(v) \ {r}
          BY <1>3, <1>4, <1>5, <3>1, <3>3
        <4>2. Cardinality(Owing(v) \ {r}) = Cardinality(Owing(v)) - 1 /\ Cardinality(Owing(v)) \in Nat
          BY <2>1, <3>3, ServiceSets, FS_RemoveElement
        <4>3. UnreadTo(v)' = UnreadTo(v) /\ unread[v] \in Nat
          BY <1>4, <3>1
        <4>4. QED
          BY <3>1, <4>1, <4>2, <4>3
      <3>4. QED
        BY <3>2, <3>3
    <2>2. \A v : Resetting(v)' = Resetting(v)
      BY <1>4, <1>5
    <2>3. QED
      BY <1>3, <2>1, <2>2 DEF Tally
  <1> QED
    BY <1>4, <1>6, <1>7, <1>8, <1>9 DEF SInv

LEMMA ServiceMark ==
  ASSUME SInv, NEW r \in Requests, MarkMessages(r)
  PROVE  SInv'
  <1>1. req[r] \in Job /\ req[r].op = "mark" /\ req[r].by \in Users
    BY JobFacts DEF MarkMessages, SInv, TypeService
  <1>2. PICK u \in Users : u = req[r].by
    BY <1>1
  <1>3. (Sending(u) = {}) \in BOOLEAN
    OBVIOUS
  <1>4. PICK job \in Job : job = [op |-> "reset", by |-> u, clean |-> Sending(u) = {}]
    BY <1>3, Jobs
  <1>5. job.op = "reset" /\ job.by = u /\ (job.clean <=> Sending(u) = {})
    BY <1>4
  <1> DEFINE mine == {m \in Messages : msg[m] # NoMessage /\ msg[m].to = u}
  <1>6. /\ Goto(r, job) /\ unread' = unread
        /\ msg' = [m \in Messages |-> IF m \in mine THEN [msg[m] EXCEPT !.status = "read"] ELSE msg[m]]
        /\ seen' = seen \cup mine /\ unheard' = unheard
        /\ drifted' = IF Sending(u) # {} THEN drifted \cup {u} ELSE drifted
    BY <1>2, <1>4 DEF MarkMessages
  <1>7. req' \in [Requests -> Job] /\ req'[r] = job /\ \A q \in Requests \ {r} : req'[q] = req[q]
    BY <1>6, JobMoves DEF SInv
  <1>8. ASSUME NEW m \in Messages
        PROVE  /\ msg'[m] \in Message
               /\ msg'[m] = NoMessage <=> msg[m] = NoMessage
               /\ msg[m] # NoMessage => msg'[m].to = msg[m].to
               /\ m \notin mine => msg'[m] = msg[m]
               /\ m \in mine => msg'[m].status = "read" /\ msg'[m].to = u
    <2>1. PICK old \in Message : old = msg[m]
      BY DEF SInv, TypeService
    <2>2. msg'[m] = IF m \in mine THEN [old EXCEPT !.status = "read"] ELSE old
      BY <1>6, <2>1
    <2>3. CASE m \notin mine
      BY <2>1, <2>2, <2>3
    <2>4. CASE m \in mine
      <3>1. old # NoMessage /\ old.to = u
        BY <2>1, <2>4
      <3> DEFINE row == [old EXCEPT !.status = "read"]
      <3>2. row \in Message /\ row # NoMessage /\ row.to = old.to /\ row.status = "read"
        BY <3>1, MessageMoves
      <3>3. msg'[m] = row
        BY <2>2, <2>4
      <3> HIDE DEF row
      <3>4. QED
        BY <2>1, <2>4, <3>1, <3>2, <3>3
    <2>5. QED
      BY <2>3, <2>4
  <1>9. TypeService'
    <2>1. msg' \in [Messages -> Message]
      BY <1>6, <1>8
    <2>2. QED
      BY <1>6, <1>7, <2>1 DEF SInv, TypeService
  <1>10. \A v : /\ Sending(v)' = Sending(v)
                /\ Resetting(v)' = IF v = u THEN Resetting(v) \cup {r} ELSE Resetting(v)
    BY <1>1, <1>5, <1>7 DEF Sending, Resetting
  <1>11. \A v : Owing(v)' = Owing(v)
    <2>1. \A v : r \notin Sending(v) /\ Sending(v) \subseteq Requests
      BY <1>1 DEF Sending
    <2>2. QED
      BY <1>7, <1>10, <2>1 DEF Owing
  <1>12. /\ UnreadTo(u)' = {}
         /\ \A v : v # u => UnreadTo(v)' = UnreadTo(v)
    <2>1. UnreadTo(u)' = {}
      BY <1>8 DEF UnreadTo
    <2>2. ASSUME NEW v, v # u PROVE UnreadTo(v)' = UnreadTo(v)
      BY <1>8, <2>2 DEF UnreadTo
    <2>3. QED
      BY <2>1, <2>2
  <1>13. \A q \in Requests : req[q].op \in SendOps => q # r /\ req[q].msg \in Messages
    BY <1>1, JobFacts DEF SInv, TypeService, SendOps
  <1>14. Sends'
    BY <1>5, <1>7, <1>8, <1>13 DEF SInv, Sends, SendOps
  <1>15. OwedIsUnread'
    <2>1. ASSUME NEW v \in Users \ drifted', NEW q \in Owing(v)
          PROVE  msg'[req'[q].msg].status # "read"
      <3>1. v # u /\ v \notin drifted
        BY <1>6, <2>1 DEF Owing
      <3>2. q \in Requests /\ req[q].op \in SendOps /\ req[q].to = v
        BY DEF Owing, Sending, SendOps
      <3>3. req[q].msg \in Messages /\ msg[req[q].msg].to = v
        BY <1>13, <3>2 DEF SInv, Sends
      <3>4. msg'[req[q].msg] = msg[req[q].msg]
        BY <1>8, <3>1, <3>3
      <3>5. msg[req[q].msg].status # "read"
        BY <2>1, <3>1 DEF SInv, OwedIsUnread
      <3>6. QED
        BY <1>7, <1>13, <3>2, <3>4, <3>5
    <2>2. QED
      BY <1>11, <2>1 DEF OwedIsUnread
  <1>16. ResetsAreLast'
    <2>1. ASSUME NEW v \in Users, NEW q \in Resetting(v)', req'[q].clean \/ v \notin drifted'
          PROVE  Sending(v) = {} /\ UnreadTo(v)' = {}
      <3>1. CASE v = u
        <4>1. CASE Sending(u) = {}
          BY <1>12, <3>1, <4>1
        <4>2. CASE Sending(u) # {}
          <5>1. q # r /\ q \in Resetting(u) /\ q \in Requests
            BY <1>5, <1>6, <1>7, <1>10, <2>1, <3>1, <4>2 DEF Resetting
          <5>2. req[q].clean
            BY <1>6, <1>7, <2>1, <3>1, <4>2, <5>1
          <5>3. QED
            BY <4>2, <5>1, <5>2 DEF SInv, ResetsAreLast
        <4>3. QED
          BY <4>1, <4>2
      <3>2. CASE v # u
        <4>1. q \in Resetting(v) /\ req'[q] = req[q]
          BY <1>1, <1>7, <1>10, <2>1, <3>2 DEF Resetting
        <4>2. v \notin drifted' => v \notin drifted
          BY <1>6
        <4>3. QED
          BY <1>12, <2>1, <3>2, <4>1, <4>2 DEF SInv, ResetsAreLast
      <3>3. QED
        BY <3>1, <3>2
    <2>2. QED
      BY <1>10, <2>1 DEF ResetsAreLast
  <1>17. Tally'
    <2>1. ASSUME NEW v \in Users \ drifted', Resetting(v)' = {}
          PROVE  unread'[v] + Cardinality(Owing(v)') = Cardinality(UnreadTo(v)')
      <3>1. v # u /\ v \notin drifted /\ Resetting(v) = {}
        BY <1>6, <1>10, <2>1
      <3>2. Owing(v)' = Owing(v) /\ UnreadTo(v)' = UnreadTo(v)
        BY <1>11, <1>12, <3>1
      <3>3. QED
        BY <1>6, <2>1, <3>1, <3>2 DEF SInv, Tally
    <2>2. QED
      BY <2>1 DEF Tally
  <1> QED
    BY <1>9, <1>14, <1>15, <1>16, <1>17 DEF SInv

LEMMA ServiceReset ==
  ASSUME SInv, NEW r \in Requests, ResetUnread(r)
  PROVE  SInv'
  <1>1. req[r] \in Job /\ req[r].op = "reset" /\ req[r].by \in Users
    BY JobFacts DEF ResetUnread, SInv, TypeService
  <1>2. PICK u \in Users : u = req[r].by
    BY <1>1
  <1>3. /\ Goto(r, Idle) /\ UNCHANGED <<msg, seen, unheard>>
        /\ unread' = [unread EXCEPT ![u] = 0]
        /\ drifted' = IF req[r].clean THEN drifted \ {u} ELSE drifted
    BY <1>2 DEF ResetUnread
  <1>4. /\ req' \in [Requests -> Job]
        /\ Sends'
        /\ \A v : /\ Sending(v)' = Sending(v) \ {r} /\ Resetting(v)' = Resetting(v) \ {r}
                  /\ Owing(v)' = Owing(v) \ {r} /\ UnreadTo(v)' = UnreadTo(v)
        /\ \A v : \A q \in Owing(v)' : req'[q] = req[q] /\ q \in Owing(v)
        /\ \A v : \A q \in Resetting(v)' : req'[q] = req[q] /\ q \in Resetting(v)
    BY <1>3, JobEnds
  <1>5. /\ \A v : r \notin Sending(v) /\ r \notin Owing(v)
        /\ r \in Resetting(u) /\ \A v : v # u => r \notin Resetting(v)
    BY <1>1, <1>2 DEF Sending, Owing, Resetting
  <1>6. \A v : Sending(v)' = Sending(v) /\ Owing(v)' = Owing(v)
    BY <1>4, <1>5
  <1>7. u \notin drifted' => Sending(u) = {} /\ UnreadTo(u) = {}
    BY <1>3, <1>5 DEF SInv, ResetsAreLast
  <1>8. TypeService'
    BY <1>3, <1>4 DEF SInv, TypeService
  <1>9. OwedIsUnread'
    <2>1. ASSUME NEW v \in Users \ drifted', NEW q \in Owing(v)
          PROVE  msg[req[q].msg].status # "read"
      BY <1>3, <1>7, <2>1 DEF SInv, OwedIsUnread, Owing
    <2>2. QED
      BY <1>3, <1>4, <2>1 DEF OwedIsUnread
  <1>10. ResetsAreLast'
    <2>1. ASSUME NEW v \in Users, NEW q \in Resetting(v)', req'[q].clean \/ v \notin drifted'
          PROVE  Sending(v) = {} /\ UnreadTo(v) = {}
      <3>1. q \in Resetting(v) /\ req'[q] = req[q]
        BY <1>4, <2>1
      <3>2. QED
        BY <1>3, <1>7, <2>1, <3>1 DEF SInv, ResetsAreLast
    <2>2. QED
      BY <1>4, <1>6, <2>1 DEF ResetsAreLast
  <1>11. Tally'
    <2>1. ASSUME NEW v \in Users \ drifted', Resetting(v)' = {}
          PROVE  unread'[v] + Cardinality(Owing(v)) = Cardinality(UnreadTo(v))
      <3>1. unread \in [Users -> Nat]
        BY DEF SInv, TypeService
      <3>2. CASE v = u
        <4>1. Owing(v) = {} /\ UnreadTo(v) = {}
          BY <1>7, <2>1, <3>2 DEF Owing
        <4>2. unread'[v] = 0
          BY <1>3, <3>1, <3>2
        <4>3. QED
          BY <4>1, <4>2, FS_EmptySet
      <3>3. CASE v # u
        BY <1>3, <1>4, <1>5, <2>1, <3>1, <3>3 DEF SInv, Tally
      <3>4. QED
        BY <3>2, <3>3
    <2>2. QED
      BY <1>4, <1>6, <2>1 DEF Tally
  <1> QED
    BY <1>4, <1>8, <1>9, <1>10, <1>11 DEF SInv

LEMMA ServiceFail ==
  ASSUME SInv, NEW r \in Requests, Fail(r)
  PROVE  SInv'
  <1> DEFINE half == CASE req[r].op \in {"resolve", "status", "bump"} -> {req[r].to}
                       [] req[r].op = "reset" -> {req[r].by}
                       [] OTHER -> {}
  <1>1. Goto(r, Idle) /\ UNCHANGED <<msg, unread, seen, unheard>> /\ drifted' = drifted \cup half
    BY DEF Fail
  <1>2. req[r] \in Job
    BY DEF SInv, TypeService
  <1>3. half \subseteq Users
    BY <1>2, JobFacts DEF SendOps
  <1>4. \A v : r \in Owing(v) \/ r \in Resetting(v) => v \in half
    BY DEF Owing, Sending, Resetting
  <1> HIDE DEF half
  <1>5. /\ req' \in [Requests -> Job]
        /\ Sends'
        /\ \A v : /\ Sending(v)' = Sending(v) \ {r} /\ Resetting(v)' = Resetting(v) \ {r}
                  /\ Owing(v)' = Owing(v) \ {r} /\ UnreadTo(v)' = UnreadTo(v)
        /\ \A v : \A q \in Owing(v)' : req'[q] = req[q] /\ q \in Owing(v)
        /\ \A v : \A q \in Resetting(v)' : req'[q] = req[q] /\ q \in Resetting(v)
    BY <1>1, JobEnds
  <1>6. TypeService'
    BY <1>1, <1>3, <1>5 DEF SInv, TypeService
  <1>7. OwedIsUnread'
    BY <1>1, <1>5 DEF SInv, OwedIsUnread
  <1>8. ResetsAreLast'
    BY <1>1, <1>5 DEF SInv, ResetsAreLast
  <1>9. Tally'
    <2>1. ASSUME NEW v \in Users \ drifted', Resetting(v)' = {}
          PROVE  unread[v] + Cardinality(Owing(v)') = Cardinality(UnreadTo(v)')
      <3>1. v \notin drifted /\ r \notin Owing(v) /\ r \notin Resetting(v)
        BY <1>1, <1>4, <2>1
      <3>2. Resetting(v) = {} /\ Owing(v)' = Owing(v) /\ UnreadTo(v)' = UnreadTo(v)
        BY <1>5, <2>1, <3>1
      <3>3. QED
        BY <2>1, <3>1, <3>2 DEF SInv, Tally
    <2>2. QED
      BY <1>1, <2>1 DEF Tally
  <1> QED
    BY <1>5, <1>6, <1>7, <1>8, <1>9 DEF SInv

LEMMA ServiceStep ==
  ASSUME SInv, [Next]_vars
  PROVE  SInv'
  <1>1. CASE Presence
    BY <1>1, ServiceSame DEF Presence, Connect, Disconnect, Open, Close, HandleDisconnect,
       HandleJoin, JoinFails
  <1>2. ASSUME NEW r \in Requests, NEW u \in Users, Send(r, u) \/ MarkRead(r, u) PROVE SInv'
    <2>1. UNCHANGED <<msg, unread, drifted, seen, unheard>> /\ req[r].op = "idle"
      BY <1>2, Jobs DEF Send, MarkRead
    <2>2. \E job \in Job : Goto(r, job) /\ job.op \in {"idle", "create", "mark"}
      BY <1>2, Jobs DEF Send, MarkRead
    <2>3. QED
      BY <2>1, <2>2, ServiceQuiet
  <1>3. ASSUME NEW r \in Requests, Request(r) PROVE SInv'
    BY <1>2, <1>3, ServiceCreate, ServiceResolve, ServiceStatus, ServiceBump, ServiceMark,
       ServiceReset, ServiceFail DEF Request
  <1>4. CASE UNCHANGED vars
    BY <1>4, ServiceSame DEF vars
  <1> QED
    BY <1>1, <1>3, <1>4 DEF Next

\* Everything the gateway, the client and the service keep has its type; the gateway's
\* counts never fall below zero.
THEOREM TypeCorrect == Spec => []TypeOK
  <1>1. PInv /\ SInv => TypeOK
    BY DEF PInv, TypePresence, SInv, TypeService, TypeOK
  <1> QED
    BY <1>1, PresenceInit, PresenceStep, ServiceInit, ServiceStep, PTL DEF Spec

\* An unread counter that no two requests have drifted from its messages is their number
\* when they are done.
THEOREM UnreadExact == Spec => []UnreadIsExact
  <1>1. ASSUME SInv PROVE UnreadIsExact
    <2>1. ASSUME NEW u \in Users, u \notin drifted, Sending(u) = {}, Resetting(u) = {}
          PROVE  unread[u] = Cardinality(UnreadTo(u))
      <3>1. Owing(u) = {}
        BY <2>1 DEF Owing
      <3>2. unread[u] + Cardinality(Owing(u)) = Cardinality(UnreadTo(u)) /\ unread[u] \in Nat
        BY <1>1, <2>1 DEF SInv, Tally, TypeService
      <3>3. QED
        BY <3>1, <3>2, FS_EmptySet
    <2>2. QED
      BY <2>1 DEF UnreadIsExact, UnreadTo
  <1> QED
    BY <1>1, ServiceInit, ServiceStep, PTL DEF Spec

-----------------------------------------------------------------------------
(* Receipts. *)

LEMMA ReadInit == ASSUME Init PROVE RInv
  BY Jobs DEF Init, RInv, Receipted, ReadWasSeen, NoMessage

LEMMA DisturbedGrows == ASSUME [Next]_vars PROVE disturbed \subseteq disturbed'
  BY DEF Next, vars, Presence, Request, Connect, Disconnect, Open, Close, HandleDisconnect,
     HandleJoin, JoinFails, Send, MarkRead, CreateMessage, Resolve, UpdateStatus, Bump,
     MarkMessages, ResetUnread, Fail

\* A step that adds no receipt.
LEMMA ReadQuiet ==
  ASSUME RInv, msg' = msg, seen \cup unheard \subseteq (seen \cup unheard)', disturbed \subseteq disturbed',
         \A r \in Requests :
           req'[r].op \in {"status", "bump"} /\ req'[r].delivery = "read" => req'[r] = req[r]
  PROVE  RInv'
  BY DEF RInv, Receipted, ReadWasSeen

LEMMA ReadIdle ==
  ASSUME SInv, RInv, NEW r \in Requests, NEW job \in Job, Goto(r, job),
         job.op \notin {"status", "bump"}, UNCHANGED <<msg, seen, unheard, disturbed>>
  PROVE  RInv'
  <1>1. req'[r] = job /\ \A q \in Requests \ {r} : req'[q] = req[q]
    BY JobMoves DEF SInv
  <1> QED
    BY <1>1, ReadQuiet

LEMMA ReadCreate ==
  ASSUME SInv, RInv, NEW r \in Requests, NEW m \in Messages, CreateMessage(r, m)
  PROVE  RInv'
  <1>1. req \in [Requests -> Job] /\ msg \in [Messages -> Message]
    BY DEF SInv, TypeService
  <1>2. \A q \in Requests : req'[q].op \in {"status", "bump"} => req'[q] = req[q]
    <2>1. ASSUME NEW q \in Requests PROVE req'[q].op \in {"status", "bump"} => req'[q] = req[q]
      <3>1. CASE q = r
        BY <3>1 DEF CreateMessage
      <3>2. CASE q # r /\ q \in Resetting(req[r].to)
        <4>1. req[q] \in [op : {"reset"}, by : Users, clean : BOOLEAN]
          BY <1>1, <3>2 DEF Resetting, Job, Idle
        <4>2. req'[q] = [req[q] EXCEPT !.clean = FALSE]
          BY <3>2 DEF CreateMessage
        <4>3. PICK old \in [op : {"reset"}, by : Users, clean : BOOLEAN] : old = req[q]
          BY <4>1
        <4>4. [old EXCEPT !.clean = FALSE].op = "reset"
          OBVIOUS
        <4>5. QED
          BY <4>2, <4>3, <4>4
      <3>3. CASE q # r /\ q \notin Resetting(req[r].to)
        BY <3>3 DEF CreateMessage
      <3>4. QED
        BY <3>1, <3>2, <3>3
    <2>2. QED
      BY <2>1
  <1>3. /\ \A x \in Messages \ {m} : msg'[x] = msg[x]
        /\ msg'[m].status = "sent"
    BY <1>1 DEF CreateMessage
  <1>4. UNCHANGED <<seen, unheard, disturbed>>
    BY DEF CreateMessage
  <1>5. Receipted'
    BY <1>2, <1>4 DEF RInv, Receipted
  <1>6. ReadWasSeen'
    BY <1>3, <1>4 DEF RInv, ReadWasSeen
  <1> QED
    BY <1>5, <1>6 DEF RInv

LEMMA ReadResolve ==
  ASSUME PInv, Shown, SInv, RInv, NEW r \in Requests, Resolve(r)
  PROVE  RInv'
  <1>1. req[r] \in Job /\ req[r].op = "resolve" /\ req[r].to \in Users /\ req[r].msg \in Messages
    BY JobFacts DEF Resolve, SInv, TypeService, SendOps
  <1>2. PICK u \in Users, m \in Messages : u = req[r].to /\ m = req[r].msg
    BY <1>1
  <1>3. PICK d \in {"sent", "delivered", "read"} :
          d = IF room[u] > 0 THEN "read" ELSE IF onlineCount[u] > 0 THEN "delivered" ELSE "sent"
    OBVIOUS
  <1>4. PICK job \in Job :
          job = [op |-> IF d = "sent" THEN "bump" ELSE "status", to |-> u, msg |-> m, delivery |-> d]
    BY Jobs
  <1>5. job.to = u /\ job.msg = m /\ job.delivery = d
    BY <1>4
  <1>6. /\ Goto(r, job) /\ UNCHANGED <<msg, disturbed>>
        /\ seen' = IF Showing(u) THEN seen \cup {m} ELSE seen
        /\ unheard' = IF HalfOpen(u) THEN unheard \cup {m} ELSE unheard
    BY <1>2, <1>3, <1>4 DEF Resolve
  <1>7. req'[r] = job /\ \A q \in Requests \ {r} : req'[q] = req[q]
    BY <1>6, JobMoves DEF SInv
  <1>8. d = "read" /\ u \notin disturbed => m \in (seen \cup unheard)'
    <2>1. ASSUME d = "read", u \notin disturbed PROVE Present(u) # {}
      <3>1. room[u] > 0
        BY <1>3, <2>1
      <3>2. room[u] = Cardinality(Present(u))
        BY <2>1 DEF PInv, RoomCounts
      <3>3. QED
        BY <3>1, <3>2, FS_EmptySet
    <2>2. ASSUME NEW s \in Present(u), NEW t \in Tabs, link[t] = s, u \notin disturbed
          PROVE  Showing(u)
      <3>1. s \in joined /\ s \in Sockets /\ owner[s] = u
        BY DEF Present, PInv, TypePresence
      <3>2. UserOf[t] = u
        BY <2>2, <3>1, ChatAssumption DEF PInv, Linked
      <3>3. t \in open
        BY <2>2, <3>1, <3>2 DEF Shown
      <3>4. QED
        BY <3>2, <3>3 DEF Showing
    <2>3. Present(u) # {} /\ u \notin disturbed => Showing(u) \/ HalfOpen(u)
      BY <2>2 DEF HalfOpen
    <2>4. QED
      BY <1>6, <2>1, <2>3
  <1>9. Receipted'
    BY <1>5, <1>6, <1>7, <1>8 DEF RInv, Receipted
  <1>10. ReadWasSeen'
    BY <1>6 DEF RInv, ReadWasSeen
  <1> QED
    BY <1>9, <1>10 DEF RInv

LEMMA ReadStatus ==
  ASSUME SInv, RInv, NEW r \in Requests, UpdateStatus(r)
  PROVE  RInv'
  <1>1. /\ req[r] \in Job /\ req[r].op = "status" /\ req[r].msg \in Messages
        /\ req[r].delivery \in {"sent", "delivered", "read"}
        /\ msg[req[r].msg] # NoMessage /\ msg[req[r].msg].to = req[r].to
    BY JobFacts DEF UpdateStatus, SInv, TypeService, SendOps, Sends
  <1>2. PICK job \in [op : {"status", "bump"}, to : Users, msg : Messages,
                      delivery : {"sent", "delivered", "read"}] : job = req[r]
    BY <1>1 DEF Job, Idle
  <1>3. /\ [job EXCEPT !.op = "bump"] \in [op : {"status", "bump"}, to : Users, msg : Messages,
                                           delivery : {"sent", "delivered", "read"}]
        /\ [job EXCEPT !.op = "bump"].to = job.to /\ [job EXCEPT !.op = "bump"].msg = job.msg
        /\ [job EXCEPT !.op = "bump"].delivery = job.delivery
    OBVIOUS
  <1>4. PICK next \in Job : next = [job EXCEPT !.op = "bump"]
    BY <1>3 DEF Job
  <1>5. Goto(r, next) /\ UNCHANGED <<seen, unheard, disturbed>>
        /\ msg' = [msg EXCEPT ![job.msg].status = job.delivery]
    BY <1>2, <1>4 DEF UpdateStatus
  <1>6. /\ next.to = job.to /\ next.msg = job.msg /\ next.delivery = job.delivery
        /\ req'[r] = next /\ \A q \in Requests \ {r} : req'[q] = req[q]
    BY <1>3, <1>4, <1>5, JobMoves DEF SInv
  <1>7. job.delivery = "read" => job.msg \in seen \cup unheard \/ job.to \in disturbed
    BY <1>1, <1>2 DEF RInv, Receipted
  <1>8. Receipted'
    BY <1>5, <1>6, <1>7 DEF RInv, Receipted
  <1>9. /\ msg'[job.msg].status = job.delivery /\ msg'[job.msg].to = job.to
        /\ \A x \in Messages \ {job.msg} : msg'[x] = msg[x]
    <2>1. PICK old \in Message : old = msg[job.msg]
      BY DEF SInv, TypeService
    <2>2. old # NoMessage /\ old.to = job.to
      BY <1>1, <1>2, <2>1
    <2> DEFINE row == [old EXCEPT !.status = job.delivery]
    <2>3. row.status = job.delivery /\ row.to = job.to
      BY <2>2, MessageMoves
    <2>4. msg' = [msg EXCEPT ![job.msg] = row]
      BY <1>5, <2>1
    <2> HIDE DEF row
    <2>5. QED
      BY <2>3, <2>4 DEF SInv, TypeService
  <1>10. ReadWasSeen'
    BY <1>5, <1>7, <1>9 DEF RInv, ReadWasSeen
  <1> QED
    BY <1>8, <1>10 DEF RInv

LEMMA ReadMark ==
  ASSUME SInv, RInv, NEW r \in Requests, MarkMessages(r)
  PROVE  RInv'
  <1>1. /\ req'[r].op = "reset" /\ \A q \in Requests \ {r} : req'[q] = req[q]
        /\ disturbed' = disturbed /\ seen \subseteq seen' /\ unheard' = unheard
    BY DEF MarkMessages, Goto, SInv, TypeService
  <1>2. \A m \in Messages : m \in seen' \/ msg'[m] = msg[m]
    BY DEF MarkMessages
  <1>3. Receipted'
    BY <1>1 DEF RInv, Receipted
  <1>4. ReadWasSeen'
    BY <1>1, <1>2 DEF RInv, ReadWasSeen
  <1> QED
    BY <1>3, <1>4 DEF RInv

LEMMA ReadStep ==
  ASSUME PInv, Shown, SInv, RInv, [Next]_vars
  PROVE  RInv'
  <1>1. disturbed \subseteq disturbed'
    BY DisturbedGrows
  <1>2. CASE Presence \/ UNCHANGED vars
    <2>1. UNCHANGED <<msg, req, seen, unheard>>
      BY <1>2 DEF vars, service, Presence, Connect, Disconnect, Open, Close, HandleDisconnect,
         HandleJoin, JoinFails
    <2>2. QED
      BY <1>1, <2>1, ReadQuiet
  <1>3. ASSUME NEW r \in Requests,
               \/ \E u \in Users : Send(r, u) \/ MarkRead(r, u)
               \/ Bump(r) \/ ResetUnread(r) \/ Fail(r)
        PROVE  RInv'
    <2>1. UNCHANGED <<msg, seen, unheard, disturbed>>
      BY <1>3 DEF Send, MarkRead, Bump, ResetUnread, Fail
    <2>2. \E job \in Job : Goto(r, job) /\ job.op \notin {"status", "bump"}
      BY <1>3, Jobs DEF Send, MarkRead, Bump, ResetUnread, Fail
    <2>3. QED
      BY <2>1, <2>2, ReadIdle
  <1>4. ASSUME NEW r \in Requests, Request(r) PROVE RInv'
    BY <1>3, <1>4, ReadCreate, ReadResolve, ReadStatus, ReadMark DEF Request
  <1> QED
    BY <1>2, <1>4 DEF Next

\* A read receipt is true for any users, tabs and requests: the recipient had the thread
\* open in a tab when the message came, or marked it read, unless his presence was
\* disturbed or all the gateway had of it were connections it had not heard are gone.
THEOREM ReadSeen == Spec => []ReadWasSeen
  <1>1. RInv => ReadWasSeen
    BY DEF RInv
  <1> QED
    BY <1>1, PresenceInit, PresenceStep, ShownInit, ShownStep, ServiceInit, ServiceStep,
       ReadInit, ReadStep, PTL DEF Spec

=============================================================================
