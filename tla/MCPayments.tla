----------------------------- MODULE MCPayments -----------------------------
(* Small instances of Payments: a group of two orders paid together, one by  *)
(* one, or both at once by two requests, next to callbacks and the cron.     *)
EXTENDS Payments

CONSTANT method

OneGroup == [o \in Orders |-> "g1"]
OneMethod == [o \in Orders |-> method]

=============================================================================
