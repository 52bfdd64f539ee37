---------------------------- MODULE MCFlashSales ----------------------------
(* Small instances of FlashSales: two campaigns that carry one variant.      *)
EXTENDS FlashSales, TLC

At(regTo, from, to) ==
  ("regFrom" :> 0) @@ ("regTo" :> regTo) @@ ("from" :> from) @@ ("to" :> to)

CONSTANTS c1, c2

\* Two deals that follow one another.
TwoDeals == (c1 :> At(1, 1, 2)) @@ (c2 :> At(1, 2, 3))
TwoWindows == {At(1, 1, 2), At(1, 2, 3)}

\* An update prolongs the registration, brings the deal forward, or switches the
\* campaign off or on.
OneFieldPatches == [{"regTo"} -> {2}] \cup [{"from"} -> {1}] \cup [{"isActive"} -> BOOLEAN]

Symmetry == Permutations(Items) \cup Permutations(Requests)

=============================================================================
