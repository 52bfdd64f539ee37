SPECIFICATION Spec
CONSTANTS
  Tabs = {t1, t2}
  NoTab = NoTab
  Pairs = {p1, p2, p3}
  NoPair = NoPair
  Calls = {q1, q2}
  Requests = {r1, r2}
  MaxCalls = 2
SYMMETRY Symmetry
INVARIANTS
  OneLivePerLogin
  KeptTokenIsLive
  LiveIsKept
  QueuedIsAwaited
CHECK_DEADLOCK FALSE
