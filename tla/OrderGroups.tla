---------------------------- MODULE OrderGroups -----------------------------
(***************************************************************************)
(* The rows of `orders` as checkout created them, which the order feature  *)
(* and the payment feature share: a checkout of several shops creates an   *)
(* order for each of them, and they form a group.                          *)
(***************************************************************************)
CONSTANTS
  Orders,
  Group,   \* [Orders -> order_group_id]
  Method   \* [Orders -> payment_method]

ASSUME MethodAssumption == Method \in [Orders -> {"cod", "vnpay", "momo"}]

=============================================================================
