SPECIFICATION Spec
CONSTANTS
  Users = {u1}
  Applications = {a1, a2}
  Permissions = {shopsCreate}
  ShopsCreate = shopsCreate
  Edited = {"customer"}
  Assigned = {"customer", "seller"}
  Moderated = {"active", "suspended"}
  Seeded <- SeedGrants
  NoEntry = NoEntry
  Requests = {r1, r2}
SYMMETRY Symmetry
INVARIANTS
  CacheIsFresh
  ApprovedIsSeller
  RejectedIsNoSeller
CHECK_DEADLOCK FALSE
