------------------------------ MODULE Purchases ------------------------------
(***************************************************************************)
(* What a checkout promises of orders and flash-sale quotas: the orders of *)
(* a checkout and the units they take from quotas appear together or not   *)
(* at all, never beyond a quota, and an order once placed keeps its items. *)
(* Units only come back one order item at a time.                          *)
(***************************************************************************)
EXTENDS Integers, Functions

CONSTANTS Orders, Variants, Quota

VARIABLES
  items,  \* [Orders -> set of items], {} before the order is placed
  sold    \* [Variants -> Nat]

FlashUnits(is, v) ==
  SumFunctionOnSet([i \in is |-> IF i.variant = v /\ i.flash THEN i.quantity ELSE 0], is)

Init ==
  /\ items = [o \in Orders |-> {}]
  /\ sold = [v \in Variants |-> 0]

Buy ==
  /\ items' # items
  /\ \A o \in Orders : items[o] # {} => items'[o] = items[o]
  /\ \A v \in Variants :
       LET units == FlashUnits(UNION {items'[o] : o \in {p \in Orders : items[p] = {}}}, v)
       IN /\ sold'[v] = sold[v] + units
          /\ units > 0 => sold'[v] <= Quota[v]

GiveBack ==
  /\ UNCHANGED items
  /\ \E o \in Orders : \E i \in items[o] :
       /\ i.flash
       /\ sold' = [sold EXCEPT ![i.variant] = IF @ < i.quantity THEN 0 ELSE @ - i.quantity]

Next == Buy \/ GiveBack

Spec == Init /\ [][Next]_<<items, sold>>

=============================================================================
