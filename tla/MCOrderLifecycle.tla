-------------------------- MODULE MCOrderLifecycle --------------------------
(* Small instances of OrderLifecycle: one order under three racing requests, *)
(* or a group of two (one online, one COD) under two, next to the cron.      *)
EXTENDS OrderLifecycle, TLC

CONSTANTS o1, o2

OneGroup == [o \in Orders |-> "g1"]

MixedMethods == [o \in Orders |-> IF o = o1 THEN "vnpay" ELSE "cod"]

Symmetry == Permutations(Shippers) \cup Permutations(Requests)

\* The same system from the moment a shipper has delivered the whole group: a
\* reachable state that saves the six requests that lead to it.
DeliveredInit ==
  /\ status = [o \in Orders |-> "delivered"]
  /\ payment = [o \in Orders |-> IF Method[o] = "cod" THEN "unpaid" ELSE "paid"]
  /\ shipper \in {[o \in Orders |-> s] : s \in Shippers}
  /\ deliveredAt = [o \in Orders |-> "recent"]
  /\ req = [r \in Handlers |-> Idle]
  /\ calls = [o \in Orders |-> [e \in Effects |-> IF e = "notify" THEN 3 ELSE 0]]
  /\ accepted = 0
  /\ abandoned = {}

DeliveredSpec == DeliveredInit /\ [][Next]_vars /\ Fairness


=============================================================================
