------------------------------- MODULE MCChat -------------------------------
(* Small instances of Chat: a customer with two tabs.  What the shop's owner  *)
(* receives has counters of its own and never meets the customer's, so one    *)
(* participant stands for both.                                               *)
EXTENDS Chat, TLC

CONSTANT customer

CustomersTabs == [t \in Tabs |-> customer]

Symmetry ==
  Permutations(Tabs) \cup Permutations(Sockets) \cup Permutations(Messages)
  \cup Permutations(Requests)

=============================================================================
