----------------------------- MODULE MCSessions -----------------------------
(* Small instances of Sessions: one user, two tabs. *)
EXTENDS Sessions, TLC

Symmetry ==
  Permutations(Tabs) \cup Permutations(Pairs) \cup Permutations(Calls) \cup Permutations(Requests)

=============================================================================
