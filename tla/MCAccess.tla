------------------------------ MODULE MCAccess ------------------------------
(* A small instance of Access: one customer, two applications, and the        *)
(* permission to open a shop, which the seed grants to sellers and admins.    *)
EXTENDS Access, TLC

SeedGrants == [ro \in Roles |-> IF ro = "customer" THEN {} ELSE Permissions]

Symmetry == Permutations(Applications) \cup Permutations(Requests)

=============================================================================
