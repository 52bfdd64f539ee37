-------------------------------- MODULE Carts --------------------------------
(***************************************************************************)
(* cart.service.ts for one customer: his own cart, the cart of the guest   *)
(* session he had before he logged in, and the merge of the second into    *)
(* the first.  Rows are found, checked and written in separate awaits, and *)
(* neither carts nor cart_items has a unique index: two requests may both  *)
(* find no cart, or no line, and both insert one.  What a checkout does to *)
(* a cart is in Checkout, which extends this module.                       *)
(***************************************************************************)
EXTENDS Integers, FiniteSets, Functions

CONSTANTS
  Variants,     \* product variants
  CartIds,      \* rows `carts` may hold at a time
  Lines,        \* rows `cart_items` may hold at a time
  Requests,     \* requests in flight
  Starting,     \* [Variants -> Nat] stock_quantity at first
  MaxQuantity,  \* bound: units one request adds or sets
  MaxRequests   \* bound: requests started

ASSUME CartAssumption ==
  /\ IsFiniteSet(Lines)
  /\ "none" \notin CartIds
  /\ Starting \in [Variants -> Nat]
  /\ MaxQuantity \in Nat \ {0}
  /\ MaxRequests \in Nat

VARIABLES
  owner,    \* [CartIds -> Owners \cup {"nobody"}]   carts; nobody's: no such row
  line,     \* [Lines -> Row \cup {NoLine}]          cart_items
  stock,    \* [Variants -> Nat]                     product_variants.stock_quantity
  cleared,  \* [Requests -> SUBSET Lines] deleted by a transaction still open
  req,      \* [Requests -> job]
  started,  \* requests started so far
  wanted,   \* history: units the answered requests put into the carts, net
  raced,    \* history: variants two requests worked on at the same time
  twin,     \* history: an owner had two carts, or a cart two lines of a variant
  torn      \* history: a merge stopped between its first copy and its end

cartVars == <<owner, line, stock, cleared, req, started, wanted, raced, twin, torn>>

Owners == {"user", "guest"}
NoLine == [cart |-> "none"]
Row == [cart : CartIds, variant : Variants, quantity : Nat \ {0}]

\* What a cart read with its items returns of each.
Item == [line : Lines, variant : Variants, quantity : Nat \ {0}]

CartsOf(o) == {c \in CartIds : owner[c] = o}
LinesOf(c) == {l \in Lines : line[l].cart = c}
Items(c) == {[line |-> l, variant |-> line[l].variant, quantity |-> line[l].quantity] :
               l \in LinesOf(c)}
Holds(l, v) == line[l] # NoLine /\ line[l].variant = v

\* Units of variant v on the lines ls, and in all carts together.
UnitsOn(ls, v) ==
  SumFunctionOnSet([l \in Lines |-> IF l \in ls /\ Holds(l, v) THEN line[l].quantity ELSE 0], Lines)
CartUnits(v) == UnitsOn(Lines, v)

\* An insert that gives owner o a second cart, or cart c a second line of v.
TwinCart(o) == CartsOf(o) # {}
TwinLine(c, v) == \E l \in LinesOf(c) : line[l].variant = v

\* A request in flight; `on` are the variants whose units it may move.
Idle == [op |-> "idle", on |-> {}]

CartJob ==
  {Idle}
  \cup [op : {"addCart", "addCreate"}, on : SUBSET Variants, owner : Owners,
        variant : Variants, quantity : Nat \ {0}, cap : Nat]
  \cup [op : {"addLine"}, on : SUBSET Variants, cart : CartIds,
        variant : Variants, quantity : Nat \ {0}, cap : Nat]
  \cup [op : {"addWrite"}, on : SUBSET Variants, cart : CartIds,
        variant : Variants, quantity : Nat \ {0}, hit : SUBSET Lines, sum : Nat \ {0}]
  \cup [op : {"editOwn"}, on : SUBSET Variants, owner : Owners, line : Lines,
        cart : CartIds, to : Nat]
  \cup [op : {"editWrite"}, on : SUBSET Variants, line : Lines, to : Nat]
  \cup [op : {"mergeUser", "mergeCreate"}, on : SUBSET Variants, guest : CartIds,
        left : SUBSET Item]
  \cup [op : {"mergeLine"}, on : SUBSET Variants, guest : CartIds, cart : CartIds,
        left : SUBSET Item]
  \cup [op : {"mergeWrite"}, on : SUBSET Variants, guest : CartIds, cart : CartIds,
        left : SUBSET Item, item : Item, hit : SUBSET Lines, sum : Nat \ {0}]
  \cup [op : {"mergeDrop", "mergeEnd"}, on : SUBSET Variants, guest : CartIds]

CartTypeOK ==
  /\ owner \in [CartIds -> Owners \cup {"nobody"}]
  /\ line \in [Lines -> {NoLine} \cup Row]
  /\ stock \in [Variants -> Nat]
  /\ cleared \in [Requests -> SUBSET Lines]
  /\ started \in 0 .. MaxRequests
  /\ wanted \in [Variants -> Int]
  /\ raced \subseteq Variants
  /\ twin \in BOOLEAN
  /\ torn \in BOOLEAN

\* The carts hold what earlier requests left there, one line per variant.
CartInit ==
  /\ owner \in [CartIds -> Owners \cup {"nobody"}]
  /\ \A o \in Owners : \A c, d \in CartsOf(o) : c = d
  /\ line \in [Lines -> {NoLine} \cup
               [cart : CartIds \ CartsOf("nobody"), variant : Variants,
                quantity : 1 .. MaxQuantity]]
  /\ \A k, l \in Lines :
       k # l /\ line[k] # NoLine /\ line[k].cart = line[l].cart
         => line[k].variant # line[l].variant
  /\ stock = Starting
  /\ cleared = [r \in Requests |-> {}]
  /\ req = [r \in Requests |-> Idle]
  /\ started = 0
  /\ wanted = [v \in Variants |-> CartUnits(v)]
  /\ raced = {}
  /\ twin = FALSE
  /\ torn = FALSE

Goto(r, job) == req' = [req EXCEPT ![r] = job]

Begin(r, job) ==
  /\ req[r] = Idle
  /\ started < MaxRequests
  /\ started' = started + 1
  /\ raced' = raced \cup (job.on \cap UNION {req[s].on : s \in Requests})
  /\ Goto(r, job)

\* A row some open transaction has deleted: other writes of it wait.
Locked(l) == \E r \in Requests : l \in cleared[r]

\* Ids are never used twice: not while a row or a request still names them.
FreshLine(l) ==
  /\ line[l] = NoLine
  /\ \A r \in Requests :
       CASE req[r].op \in {"addWrite", "mergeWrite"} -> l \notin req[r].hit
         [] req[r].op \in {"editOwn", "editWrite"}   -> l # req[r].line
         [] OTHER -> TRUE
FreshCart(c) ==
  /\ owner[c] = "nobody"
  /\ \A r \in Requests :
       /\ "cart" \in DOMAIN req[r] => c # req[r].cart
       /\ "guest" \in DOMAIN req[r] => c # req[r].guest
       /\ "carts" \in DOMAIN req[r] => c \notin req[r].carts

InsertLine(c, v, n) ==
  /\ \E l \in Lines :
       /\ FreshLine(l)
       /\ line' = [line EXCEPT ![l] = [cart |-> c, variant |-> v, quantity |-> n]]
  /\ twin' = (twin \/ TwinLine(c, v))

InsertCart(c, o) ==
  /\ FreshCart(c)
  /\ owner' = [owner EXCEPT ![c] = o]
  /\ twin' = (twin \/ TwinCart(o))

\* updateQuantity, which does nothing to a row that is gone.
SetQuantity(l, n) ==
  /\ ~Locked(l)
  /\ line' = IF line[l] = NoLine THEN line ELSE [line EXCEPT ![l].quantity = n]

\* findByCartAndVariant: the line of v in cart c, {} for none.
Hits(c, v) ==
  LET found == {l \in LinesOf(c) : line[l].variant = v}
  IN IF found = {} THEN {{}} ELSE {{l} : l \in found}

QuantityOf(hit) == IF hit = {} THEN 0 ELSE line[CHOOSE l \in hit : TRUE].quantity

-----------------------------------------------------------------------------
(* POST /cart/items. *)

\* The variant is read, and must be in stock.
AddItem(r, o, v, n) ==
  /\ stock[v] > 0
  /\ Begin(r, [op |-> "addCart", on |-> {v}, owner |-> o, variant |-> v,
               quantity |-> n, cap |-> stock[v]])
  /\ UNCHANGED <<owner, line, stock, cleared, wanted, twin, torn>>

AddFindCart(r) ==
  LET job == req[r] IN
  /\ job.op = "addCart"
  /\ IF CartsOf(job.owner) = {}
     THEN Goto(r, [job EXCEPT !.op = "addCreate"])
     ELSE \E c \in CartsOf(job.owner) :
            Goto(r, [op |-> "addLine", on |-> job.on, cart |-> c, variant |-> job.variant,
                     quantity |-> job.quantity, cap |-> job.cap])
  /\ UNCHANGED <<owner, line, stock, cleared, started, wanted, raced, twin, torn>>

AddCreateCart(r, c) ==
  LET job == req[r] IN
  /\ job.op = "addCreate"
  /\ InsertCart(c, job.owner)
  /\ Goto(r, [op |-> "addLine", on |-> job.on, cart |-> c, variant |-> job.variant,
              quantity |-> job.quantity, cap |-> job.cap])
  /\ UNCHANGED <<line, stock, cleared, started, wanted, raced, torn>>

\* The new quantity is computed from the line found here; more than the stock
\* read at first ends in CART_004.
AddFindLine(r) ==
  LET job == req[r] IN
  /\ job.op = "addLine"
  /\ \E hit \in Hits(job.cart, job.variant) :
       LET sum == QuantityOf(hit) + job.quantity IN
       IF sum > job.cap THEN Goto(r, Idle)
       ELSE Goto(r, [op |-> "addWrite", on |-> job.on, cart |-> job.cart,
                     variant |-> job.variant, quantity |-> job.quantity,
                     hit |-> hit, sum |-> sum])
  /\ UNCHANGED <<owner, line, stock, cleared, started, wanted, raced, twin, torn>>

\* An INSERT into a cart that is gone fails on its foreign key.
AddWrite(r) ==
  LET job == req[r] IN
  /\ job.op = "addWrite"
  /\ \/ /\ \E l \in job.hit : SetQuantity(l, job.sum)
        /\ wanted' = [wanted EXCEPT ![job.variant] = @ + job.quantity]
        /\ UNCHANGED twin
     \/ /\ job.hit = {}
        /\ owner[job.cart] # "nobody"
        /\ InsertLine(job.cart, job.variant, job.quantity)
        /\ wanted' = [wanted EXCEPT ![job.variant] = @ + job.quantity]
     \/ /\ job.hit = {}
        /\ owner[job.cart] = "nobody"
        /\ UNCHANGED <<line, wanted, twin>>
  /\ Goto(r, Idle)
  /\ UNCHANGED <<owner, stock, cleared, started, raced, torn>>

-----------------------------------------------------------------------------
(* PATCH and DELETE /cart/items/:id.  A removal sets the quantity to 0.      *)

EditItem(r, l, n) ==
  /\ line[l] # NoLine
  /\ n <= stock[line[l].variant]
  /\ Begin(r, [op |-> "editOwn", on |-> {line[l].variant}, owner |-> owner[line[l].cart],
               line |-> l, cart |-> line[l].cart, to |-> n])
  /\ UNCHANGED <<owner, line, stock, cleared, wanted, twin, torn>>

\* The item must be of the cart that is found for the caller, else CART_001.
EditFindCart(r) ==
  LET job == req[r] IN
  /\ job.op = "editOwn"
  /\ \/ /\ job.cart \in CartsOf(job.owner)
        /\ Goto(r, [op |-> "editWrite", on |-> job.on, line |-> job.line, to |-> job.to])
     \/ /\ CartsOf(job.owner) # {job.cart}
        /\ Goto(r, Idle)
  /\ UNCHANGED <<owner, line, stock, cleared, started, wanted, raced, twin, torn>>

EditWrite(r) ==
  LET job == req[r]
      l == job.line
  IN
  /\ job.op = "editWrite"
  /\ ~Locked(l)
  /\ IF line[l] = NoLine THEN UNCHANGED <<line, wanted>>
     ELSE /\ line' = [line EXCEPT ![l] = IF job.to = 0 THEN NoLine
                                         ELSE [@ EXCEPT !.quantity = job.to]]
          /\ wanted' = [wanted EXCEPT ![line[l].variant] = (@ + job.to) - line[l].quantity]
  /\ Goto(r, Idle)
  /\ UNCHANGED <<owner, stock, cleared, started, raced, twin, torn>>

-----------------------------------------------------------------------------
(* POST /cart/merge, sent by the frontend after a login. *)

\* The guest cart is read with its items; without one it ends in CART_001.
MergeCart(r) ==
  /\ \E c \in CartsOf("guest") :
       Begin(r, [op |-> "mergeUser", on |-> Variants, guest |-> c, left |-> Items(c)])
  /\ UNCHANGED <<owner, line, stock, cleared, wanted, twin, torn>>

MergeFindUser(r) ==
  LET job == req[r] IN
  /\ job.op = "mergeUser"
  /\ IF CartsOf("user") = {}
     THEN Goto(r, [job EXCEPT !.op = "mergeCreate"])
     ELSE \E c \in CartsOf("user") :
            Goto(r, [op |-> "mergeLine", on |-> job.on, guest |-> job.guest,
                     cart |-> c, left |-> job.left])
  /\ UNCHANGED <<owner, line, stock, cleared, started, wanted, raced, twin, torn>>

MergeCreateUser(r, c) ==
  LET job == req[r] IN
  /\ job.op = "mergeCreate"
  /\ InsertCart(c, "user")
  /\ Goto(r, [op |-> "mergeLine", on |-> job.on, guest |-> job.guest,
              cart |-> c, left |-> job.left])
  /\ UNCHANGED <<line, stock, cleared, started, wanted, raced, torn>>

\* The loop over the guest's items: find the customer's line, then write it.
MergeFindLine(r) ==
  LET job == req[r] IN
  /\ job.op = "mergeLine"
  /\ \/ \E i \in job.left : \E hit \in Hits(job.cart, i.variant) :
          Goto(r, [op |-> "mergeWrite", on |-> job.on, guest |-> job.guest,
                   cart |-> job.cart, left |-> job.left \ {i}, item |-> i, hit |-> hit,
                   sum |-> QuantityOf(hit) + i.quantity])
     \/ /\ job.left = {}
        /\ Goto(r, [op |-> "mergeDrop", on |-> job.on, guest |-> job.guest])
  /\ UNCHANGED <<owner, line, stock, cleared, started, wanted, raced, twin, torn>>

MergeWrite(r) ==
  LET job == req[r]
      next == [op |-> "mergeLine", on |-> job.on, guest |-> job.guest,
               cart |-> job.cart, left |-> job.left]
  IN
  /\ job.op = "mergeWrite"
  /\ \/ /\ \E l \in job.hit : SetQuantity(l, job.sum)
        /\ Goto(r, next)
        /\ UNCHANGED <<twin, torn>>
     \/ /\ job.hit = {}
        /\ owner[job.cart] # "nobody"
        /\ InsertLine(job.cart, job.item.variant, job.item.quantity)
        /\ Goto(r, next)
        /\ UNCHANGED torn
     \/ /\ job.hit = {}
        /\ owner[job.cart] = "nobody"
        /\ torn' = TRUE
        /\ Goto(r, Idle)
        /\ UNCHANGED <<line, twin>>
  /\ UNCHANGED <<owner, stock, cleared, started, wanted, raced>>

MergeDropLines(r) ==
  LET job == req[r] IN
  /\ job.op = "mergeDrop"
  /\ line' = [l \in Lines |-> IF line[l].cart = job.guest THEN NoLine ELSE line[l]]
  /\ Goto(r, [job EXCEPT !.op = "mergeEnd"])
  /\ UNCHANGED <<owner, stock, cleared, started, wanted, raced, twin, torn>>

\* A line added to the guest cart meanwhile keeps it by its foreign key.
MergeDropCart(r) ==
  LET g == req[r].guest IN
  /\ req[r].op = "mergeEnd"
  /\ owner' = IF LinesOf(g) = {} THEN [owner EXCEPT ![g] = "nobody"] ELSE owner
  /\ Goto(r, Idle)
  /\ UNCHANGED <<line, stock, cleared, started, wanted, raced, twin, torn>>

-----------------------------------------------------------------------------
\* An await throws, or the stock of a variant is read lower than asked for.
CartFail(r) ==
  /\ req[r].op \in {"addCart", "addCreate", "addLine", "addWrite", "editOwn", "editWrite",
                    "mergeUser", "mergeCreate", "mergeLine", "mergeWrite", "mergeDrop",
                    "mergeEnd"}
  /\ torn' = (torn \/ req[r].op \in {"mergeLine", "mergeWrite", "mergeDrop"})
  /\ Goto(r, Idle)
  /\ UNCHANGED <<owner, line, stock, cleared, started, wanted, raced, twin>>

CartStep(r) ==
  \/ \E o \in Owners, v \in Variants, n \in 1 .. MaxQuantity : AddItem(r, o, v, n)
  \/ AddFindCart(r) \/ AddFindLine(r) \/ AddWrite(r)
  \/ \E l \in Lines, n \in 0 .. MaxQuantity : EditItem(r, l, n)
  \/ EditFindCart(r) \/ EditWrite(r)
  \/ MergeCart(r) \/ MergeFindUser(r) \/ MergeFindLine(r) \/ MergeWrite(r)
  \/ MergeDropLines(r) \/ MergeDropCart(r)
  \/ \E c \in CartIds : AddCreateCart(r, c) \/ MergeCreateUser(r, c)
  \/ CartFail(r)

=============================================================================
