SPECIFICATION Spec
CONSTANTS
  customer = customer
  Users = {customer}
  Tabs = {t1, t2}
  UserOf <- CustomersTabs
  Sockets = {s1, s2}
  NoSocket = NoSocket
  Messages = {m1}
  Requests = {r1, r2}
  MaxJoins = 2
  MaxRoom = 2
SYMMETRY Symmetry
INVARIANTS
  RoomIsExact
  UnreadIsExact
  ReadWasSeen
CHECK_DEADLOCK FALSE
